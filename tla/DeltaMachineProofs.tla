------------------------- MODULE DeltaMachineProofs -------------------------
(***************************************************************************)
(* Proofs about the delta state machine (DeltaMachine): what a query is    *)
(* answered with is the facts' own active set, for any number of commits,  *)
(* store replacements, crashes, faults and maintenance rounds; and what a  *)
(* restart would accept from disk is too, as long as each round parks the  *)
(* worker before it drops what the worker writes to.                       *)
(*                                                                         *)
(* The inductive invariant follows a change from the log to an answer.  A  *)
(* generation of the store's epoch is the projection at its watermark      *)
(* (GensInv).  A checkpoint file covers a window of the log that begins at *)
(* the watermark of its base (FileInv), and the file in the machine's      *)
(* directory holds what the mirror holds (PathInv).  The mirror covers     *)
(* such a window too and projects to the facts unless it was dropped under *)
(* the worker (MirrorInv, Clean): the batch in flight begins where the     *)
(* mirror ends and never skips a change (BatchInv), and a rebuild never    *)
(* installs over a directory that another generation wrote to (BuildInv).  *)
(* So a published snapshot is exact (SnapInv) wherever a query may read    *)
(* it: a mirror is dropped only in a round that goes on to rebuild, and no *)
(* query runs until that rebuild has installed (CoordInv, QueryInv).       *)
(*                                                                         *)
(* The second layer (QuietInv, SoundInv) follows what is written to disk   *)
(* when each round finds the machine registered.                           *)
(***************************************************************************)
EXTENDS DeltaMachine, SequenceTheorems, TLAPS

Pcs == {"loop", "identity", "changes", "write", "publish", "republish", "block", "blockset", "rebuild",
        "build", "rename", "install", "complete", "sweep"}
Coords == {"serving", "stopping", "prepared", "invalidating", "dropping", "requesting", "catching_up", "blocked"}
Gens == Gen \cup {NoGen}
Files == Checkpoint \cup {NoFile}
Mirrors == [consumed : -1..MaxLog, rows : SUBSET Commits, tombs : SUBSET Commits]
Snaps == [epoch : 0..MaxEpoch, consumed : -1..MaxLog, active : SUBSET Commits]
Cycles == [pc : Pcs, target : 0..MaxEpoch, epoch : 0..MaxEpoch, lo : 0..MaxLog, hi : 0..MaxLog,
           rows : SUBSET Commits, tombs : SUBSET Commits, gen : Gens]
Queries == [st : {"idle", "wait", "served"}, epoch : 0..MaxEpoch, hi : 0..MaxLog, ans : Snaps]

\* The types of the facts, the derived root, the machine, its worker, and
\* what drives them.
FactTypes == epoch \in 1..MaxEpoch /\ log \in Seq(Change) /\ Len(log) <= MaxLog
DiskTypes ==
    /\ gens \subseteq Gen /\ \A s \in staging : s.gen \in Gen
    /\ DOMAIN ckpt \subseteq Gen /\ \A p \in DOMAIN ckpt : ckpt[p] \in Files
MachineTypes == gen \in Gens /\ path \in Gen /\ mirror \in Mirrors /\ snap \in Snaps
DriverTypes == pending \in 0..MaxEpoch /\ coord \in Coords /\ query \in Queries
DeltaTypeOK == FactTypes /\ DiskTypes /\ MachineTypes /\ wk \in Cycles /\ DriverTypes

\* A commit is the first change of its id, and every change is of a commit.
LogInv ==
    /\ \A i, j \in 1..Len(log) : log[j].kind = "commit" /\ log[i].id = log[j].id => j <= i
    /\ \A i \in 1..Len(log) : log[i].id \in CommitsIn(log, 0, Len(log))

\* A generation of the store's epoch is the projection at its watermark.
Sound(g) ==
    /\ g.epoch <= epoch
    /\ g.epoch = epoch => g.h0 <= Len(log) /\ g.rows = Active(log, g.h0)

GensInv == \A g \in gens \cup {gen, wk.gen} : Sound(g)

\* What a machine or a file has consumed on top of g projects to the facts.
Exact(g, m) == (g.rows \cup m.rows) \ m.tombs = Active(log, m.consumed)

\* Nothing was consumed on top of the base.
Bare(m) == m.rows = {} /\ m.tombs = {}

\* A checkpoint file c of directory p covers a window of the log from its base
\* on; in the first epoch it projects to the facts.
FileOK(p, c) ==
    /\ c.epoch = c.base.epoch /\ Sound(c.base) /\ (p # G0 => c.base = p)
    /\ c.base.h0 <= c.consumed /\ (c.consumed = c.base.h0 => Bare(c))
    /\ c.epoch = epoch => c.consumed <= Len(log) /\ c.tombs \subseteq RetractionsIn(log, 0, c.consumed)
    /\ epoch = 1 => Exact(c.base, c)
FileInv == \A p \in DOMAIN ckpt : ckpt[p] # NoFile => FileOK(p, ckpt[p])

\* The coordinator has not dropped the mirror under the worker, or the worker
\* has rebuilt it since.
Clean ==
    \/ coord \in {"serving", "stopping", "prepared", "invalidating", "dropping"}
    \/ epoch = 1
    \/ wk.pc = "complete"

\* What the machine has consumed covers a window of the log from its generation
\* on and projects to the facts, but for a mirror that was dropped under it.
MirrorNone == mirror.consumed = -1 \/ gen = NoGen => mirror = NoMirror
MirrorFits ==
    mirror.consumed # -1 =>
        /\ gen.h0 <= mirror.consumed /\ (mirror.consumed = gen.h0 => Bare(mirror))
        /\ gen.epoch = epoch =>
            /\ mirror.consumed <= Len(log) /\ mirror.tombs \subseteq RetractionsIn(log, 0, mirror.consumed)
            /\ Clean => Exact(gen, mirror)
MirrorInv == MirrorNone /\ MirrorFits

\* The machine writes to the declared directory or to that of its generation,
\* and the checkpoint there holds what its mirror holds; in the first epoch a
\* machine that left the declared generation never finds it again.
PathGen   == path = G0 \/ path = gen
PathFile  == gen # NoGen /\ path \in DOMAIN ckpt => ckpt[path].rows = mirror.rows /\ ckpt[path].tombs = mirror.tombs
PathFirst == epoch = 1 /\ path # G0 => G0 \notin gens /\ Len(log) > 0
PathInv   == PathGen /\ PathFile /\ PathFirst

\* What the worker carries from one step of its cycle to the next.
BatchEpoch == wk.pc = "identity" => wk.epoch = 0 \/ (gen # NoGen /\ wk.epoch = gen.epoch)
BatchReady ==
    (wk.pc = "identity" /\ wk.epoch # 0) \/ wk.pc \in {"publish", "republish"} => (Clean => mirror.consumed # -1)
BatchWindow ==
    wk.pc \in {"changes", "write"} =>
        /\ gen # NoGen /\ wk.epoch = gen.epoch /\ gen.h0 <= wk.lo /\ wk.lo < wk.hi
        /\ mirror.consumed = wk.lo \/ (mirror = NoMirror /\ ~Clean)
        /\ gen.epoch = epoch => wk.hi <= Len(log)
BatchRows ==
    wk.pc = "write" /\ gen.epoch = epoch =>
        /\ wk.tombs = RetractionsIn(log, wk.lo, wk.hi)
        /\ wk.rows = CommitsIn(log, wk.lo, wk.hi) \ wk.tombs
BatchInv == BatchEpoch /\ BatchReady /\ BatchWindow /\ BatchRows

\* While the worker builds, nothing is published and nobody else writes to the
\* directory it builds for.
BuildSnap == wk.pc \in {"build", "rename", "install"} => snap = NoSnap
BuildGens ==
    /\ wk.pc = "build" /\ epoch = 1 => G0 \notin gens
    /\ wk.pc \in {"rename", "install"} =>
          wk.gen \in Gen /\ (epoch = 1 /\ wk.gen # G0 => G0 \notin gens /\ Len(log) > 0)
BuildFile == wk.pc \in {"rename", "install"} => Bare(FileAt(wk.gen))
BuildInv  == BuildSnap /\ BuildGens /\ BuildFile

\* The published snapshot is of the machine's generation and projects to the
\* facts, but for one published over a dropped mirror.
SnapEpoch == snap = NoSnap \/ (gen # NoGen /\ snap.epoch = gen.epoch)
SnapFits  ==
    Clean /\ snap # NoSnap =>
        /\ mirror.consumed # -1
        /\ snap.epoch = epoch => snap.consumed \in 0..Len(log) /\ snap.active = Active(log, snap.consumed)
SnapInv   == SnapEpoch /\ SnapFits

\* A daemon that is down has no machine, no worker and no round.
DownInv == ~up => /\ coord = "serving" /\ query = NoQuery /\ wk = Loop
                  /\ gen = NoGen /\ snap = NoSnap /\ path = G0 /\ pending = 0

\* A round that goes past the prepared state has replaced the store.
RoundInv ==
    /\ coord = "prepared" => prepEpoch \in 1..epoch
    /\ coord \in {"invalidating", "dropping", "requesting", "catching_up"} => epoch > 1
    /\ pending # 0 => pending > 1 /\ coord = "catching_up"

\* A queued rebuild belongs to the round that waits for it.
TargetInv ==
    /\ wk.target # 0 /\ wk.pc \in {"rebuild", "build", "rename", "install", "complete"} =>
          wk.target > 1 /\ coord = "catching_up"
    /\ wk.target # 0 /\ wk.pc \in {"build", "rename", "install", "complete"} => pending = 0
    /\ wk.pc = "complete" => wk.target # 0

CoordInv == DownInv /\ RoundInv /\ TargetInv

\* A query runs in the store whose watermark it read, and its answer projects
\* to the facts at a watermark not below.
QueryInv ==
    /\ query.st # "idle" => coord = "serving" /\ query.epoch = epoch /\ query.hi <= Len(log)
    /\ query.st = "served" =>
          /\ query.ans.epoch = query.epoch /\ query.hi <= query.ans.consumed /\ query.ans.consumed <= Len(log)
          /\ query.ans.active = Active(log, query.ans.consumed)

DeltaInv == DeltaTypeOK /\ LogInv /\ GensInv /\ FileInv /\ MirrorInv /\ PathInv /\ BatchInv /\ BuildInv
            /\ SnapInv /\ CoordInv /\ QueryInv

\* Of a daemon whose rounds each find the machine registered: prepare parks
\* the worker, and it stays parked until the rebuild is queued.
Parked   == stop /\ wk = Loop
QuietInv ==
    /\ wk.pc = "loop" => wk = Loop
    /\ up /\ registered => coord \in {"serving", "stopping"}
    /\ up /\ registered /\ coord = "serving" => ~stop /\ ~idle
    /\ coord = "stopping" => registered /\ stop /\ (idle => wk = Loop)
    /\ coord \in {"prepared", "invalidating", "dropping"} => Parked

\* Then no mirror is dropped under a batch, and what is written is exact in
\* every epoch.
MirrorExact == mirror.consumed # -1 /\ gen.epoch = epoch => Exact(gen, mirror)
BatchKept   == wk.pc \in {"changes", "write"} => mirror.consumed = wk.lo
FilesExact  == \A p \in DOMAIN ckpt : ckpt[p] # NoFile /\ ckpt[p].epoch = epoch => Exact(ckpt[p].base, ckpt[p])
SoundInv    == MirrorExact /\ BatchKept /\ FilesExact

\* A commit or a retraction up to a watermark is a commit id.
LEMMA IdsTyped ==
    ASSUME NEW l \in Seq(Change), NEW lo \in Nat, NEW hi \in Nat, hi <= Len(l)
    PROVE  /\ CommitsIn(l, lo, hi) \subseteq Commits /\ RetractionsIn(l, lo, hi) \subseteq Commits
           /\ Active(l, hi) \subseteq Commits
<1> \A j \in 1..Len(l) : l[j] \in Change
  BY ElementOfSeq
<1>1. \A j \in (lo + 1)..hi : l[j].id \in Commits
  BY DEF Change
<1>2. \A j \in (0 + 1)..hi : l[j].id \in Commits
  BY DEF Change
<1> QED BY <1>1, <1>2 DEF CommitsIn, RetractionsIn, Active

\* Nothing lies between a watermark and itself.
LEMMA EmptyWindow ==
    ASSUME NEW l, NEW h \in Nat
    PROVE  CommitsIn(l, h, h) = {} /\ RetractionsIn(l, h, h) = {}
  BY DEF CommitsIn, RetractionsIn

\* Two adjacent windows are one.
LEMMA WindowSplit ==
    ASSUME NEW l, NEW lo \in Nat, NEW hi \in Nat, lo <= hi
    PROVE  /\ CommitsIn(l, 0, hi) = CommitsIn(l, 0, lo) \cup CommitsIn(l, lo, hi)
           /\ RetractionsIn(l, 0, hi) = RetractionsIn(l, 0, lo) \cup RetractionsIn(l, lo, hi)
<1>1. \A j : j \in 0 + 1..hi <=> j \in 0 + 1..lo \/ j \in (lo + 1)..hi
  OBVIOUS
<1> QED BY <1>1 DEF CommitsIn, RetractionsIn

\* A recorder's append leaves what lies before it.
LEMMA AppendKeeps ==
    ASSUME NEW l \in Seq(Change), NEW c \in Change, NEW lo \in Nat, NEW hi \in Nat, hi <= Len(l)
    PROVE  /\ CommitsIn(Append(l, c), lo, hi) = CommitsIn(l, lo, hi)
           /\ RetractionsIn(Append(l, c), lo, hi) = RetractionsIn(l, lo, hi)
           /\ Active(Append(l, c), hi) = Active(l, hi)
<1>1. \A j \in (lo + 1)..hi : Append(l, c)[j] = l[j]
  OBVIOUS
<1>2. \A j \in (0 + 1)..hi : Append(l, c)[j] = l[j]
  OBVIOUS
<1>3. CommitsIn(Append(l, c), lo, hi) = CommitsIn(l, lo, hi)
  BY <1>1 DEF CommitsIn
<1>4. RetractionsIn(Append(l, c), lo, hi) = RetractionsIn(l, lo, hi)
  BY <1>1 DEF RetractionsIn
<1>5. CommitsIn(Append(l, c), 0, hi) = CommitsIn(l, 0, hi)
  BY <1>2 DEF CommitsIn
<1>6. RetractionsIn(Append(l, c), 0, hi) = RetractionsIn(l, 0, hi)
  BY <1>2 DEF RetractionsIn
<1> QED BY <1>3, <1>4, <1>5, <1>6 DEF Active

\* A retraction names a commit before it, so a batch's commits were not
\* retracted before the batch.
LEMMA RetractedBefore ==
    ASSUME log \in Seq(Change), LogInv, NEW lo \in Nat, NEW hi \in Nat, lo <= hi, hi <= Len(log)
    PROVE  RetractionsIn(log, 0, lo) \cap CommitsIn(log, lo, hi) = {}
<1> SUFFICES ASSUME NEW x \in RetractionsIn(log, 0, lo), x \in CommitsIn(log, lo, hi) PROVE FALSE
  OBVIOUS
<1>1. PICK i \in 1..lo : log[i].id = x
  BY DEF RetractionsIn
<1>2. PICK j \in (lo + 1)..hi : log[j].kind = "commit" /\ log[j].id = x
  BY DEF CommitsIn
<1>3. i \in 1..Len(log) /\ j \in 1..Len(log)
  OBVIOUS
<1>4. j <= i
  BY <1>1, <1>2, <1>3 DEF LogInv
<1> QED BY <1>1, <1>2, <1>4

\* What _write_batch adds to a mirror that projects to the facts makes one
\* that projects to the facts at the batch's watermark.
LEMMA BatchExact ==
    ASSUME log \in Seq(Change), LogInv, wk.lo \in Nat, wk.hi \in Nat, wk.lo <= wk.hi, wk.hi <= Len(log),
           Exact(gen, mirror), mirror.consumed = wk.lo, mirror.tombs \subseteq RetractionsIn(log, 0, wk.lo),
           wk.tombs = RetractionsIn(log, wk.lo, wk.hi), wk.rows = CommitsIn(log, wk.lo, wk.hi) \ wk.tombs
    PROVE  (gen.rows \cup (mirror.rows \cup wk.rows)) \ (mirror.tombs \cup wk.tombs) = Active(log, wk.hi)
<1>1. /\ CommitsIn(log, 0, wk.hi) = CommitsIn(log, 0, wk.lo) \cup CommitsIn(log, wk.lo, wk.hi)
      /\ RetractionsIn(log, 0, wk.hi) = RetractionsIn(log, 0, wk.lo) \cup RetractionsIn(log, wk.lo, wk.hi)
  BY WindowSplit
<1>2. RetractionsIn(log, 0, wk.lo) \cap CommitsIn(log, wk.lo, wk.hi) = {}
  BY RetractedBefore
<1>3. (gen.rows \cup mirror.rows) \ mirror.tombs = CommitsIn(log, 0, wk.lo) \ RetractionsIn(log, 0, wk.lo)
  BY DEF Exact, Active
<1>4. Active(log, wk.hi) = CommitsIn(log, 0, wk.hi) \ RetractionsIn(log, 0, wk.hi)
  BY DEF Active
<1> QED BY <1>1, <1>2, <1>3, <1>4

-----------------------------------------------------------------------------
(* What each action leaves alone.                                          *)

\* The variables an action leaves alone.
LEMMA Leaves ==
    /\ FactCommit => UNCHANGED <<epoch, gens, staging, ckpt, up, gen, mirror, path, snap, pending, wk, coord,
          prepEpoch, query>>
    /\ FactRetract => UNCHANGED <<epoch, gens, staging, ckpt, up, gen, mirror, path, snap, pending, wk, coord,
          prepEpoch, query>>
    /\ ReplaceFacts => UNCHANGED <<gens, staging, ckpt, up, gen, mirror, path, snap, pending, wk, coord,
          prepEpoch, query>>
    /\ Start => UNCHANGED <<epoch, log>>
    /\ StartupSweep => UNCHANGED <<epoch, log, up, gen, mirror, path, snap, pending, wk, coord, prepEpoch,
          query>>
    /\ Crash => UNCHANGED <<epoch, log, gens, staging, ckpt>>
    /\ WorkerPark => UNCHANGED <<epoch, log, gens, staging, ckpt, up, gen, mirror, path, snap, pending, wk,
          coord, prepEpoch, query>>
    /\ WorkerCycle => UNCHANGED <<epoch, log, gens, staging, ckpt, up, gen, mirror, path, snap, pending, coord,
          prepEpoch, query>>
    /\ WorkerIdentity => UNCHANGED <<epoch, log, gens, staging, ckpt, up, gen, mirror, path, snap, pending,
          coord, prepEpoch, query>>
    /\ WorkerChanges => UNCHANGED <<epoch, log, gens, staging, ckpt, up, gen, mirror, path, snap, pending,
          coord, prepEpoch, query>>
    /\ WorkerWrite => UNCHANGED <<epoch, log, gens, staging, up, gen, path, snap, pending, coord, prepEpoch,
          query>>
    /\ WorkerPublish => UNCHANGED <<epoch, log, gens, staging, ckpt, up, gen, mirror, path, pending, coord,
          prepEpoch, query>>
    /\ WorkerRepublish => UNCHANGED <<epoch, log, gens, staging, ckpt, up, gen, mirror, path, pending, coord,
          prepEpoch, query>>
    /\ WorkerRecordBlock => UNCHANGED <<epoch, log, gens, staging, up, gen, mirror, path, snap, pending, coord,
          prepEpoch, query>>
    /\ WorkerBlock => UNCHANGED <<epoch, log, gens, staging, ckpt, up, gen, mirror, path, snap, pending, coord,
          prepEpoch, query>>
    /\ WorkerRebuild => UNCHANGED <<epoch, log, gens, staging, up, gen, path, coord, prepEpoch, query>>
    /\ WorkerBuild => UNCHANGED <<epoch, log, gens, ckpt, up, gen, mirror, path, snap, pending, coord,
          prepEpoch, query>>
    /\ WorkerRename => UNCHANGED <<epoch, log, ckpt, up, gen, mirror, path, snap, pending, coord, prepEpoch,
          query>>
    /\ WorkerInstall => UNCHANGED <<epoch, log, gens, staging, up, pending, coord, prepEpoch, query>>
    /\ WorkerComplete => UNCHANGED <<epoch, log, gens, staging, ckpt, up, gen, mirror, path, snap, pending,
          prepEpoch, query>>
    /\ WorkerSweep => UNCHANGED <<epoch, log, up, gen, mirror, path, snap, pending, coord, prepEpoch, query>>
    /\ WorkerFault => UNCHANGED <<epoch, log, gens, staging, ckpt, up, gen, mirror, path, snap, pending, coord,
          prepEpoch, query>>
    /\ RetryClean => UNCHANGED <<epoch, log, gens, staging, up, gen, mirror, path, snap, pending, wk, coord,
          prepEpoch, query>>
    /\ RetryClear => UNCHANGED <<epoch, log, gens, staging, ckpt, up, gen, mirror, path, snap, pending, wk,
          coord, prepEpoch, query>>
    /\ PrepareBegin => UNCHANGED <<epoch, log, gens, staging, ckpt, up, gen, mirror, path, snap, pending, wk,
          query>>
    /\ PrepareTimeout => UNCHANGED <<epoch, log, gens, staging, ckpt, up, gen, mirror, path, snap, pending, wk,
          prepEpoch, query>>
    /\ PrepareIdle => UNCHANGED <<epoch, log, gens, staging, ckpt, up, gen, mirror, path, snap, pending, wk,
          query>>
    /\ Reopen => UNCHANGED <<epoch, log, gens, staging, ckpt, up, gen, mirror, path, snap, pending, wk,
          prepEpoch, query>>
    /\ Invalidate => UNCHANGED <<epoch, log, gens, staging, ckpt, up, gen, mirror, path, pending, wk, prepEpoch,
          query>>
    /\ InvalidateDrop => UNCHANGED <<epoch, log, gens, staging, up, gen, path, snap, pending, wk, prepEpoch,
          query>>
    /\ RequestRebuild => UNCHANGED <<epoch, log, gens, staging, ckpt, up, gen, mirror, path, snap, wk,
          prepEpoch, query>>
    /\ QueryBegin => UNCHANGED <<epoch, log, gens, staging, ckpt, up, gen, mirror, path, snap, pending, wk,
          coord, prepEpoch>>
    /\ QueryAnswer => UNCHANGED <<epoch, log, gens, staging, ckpt, up, gen, mirror, path, snap, pending, wk,
          coord, prepEpoch>>
    /\ QueryEnd => UNCHANGED <<epoch, log, gens, staging, ckpt, up, gen, mirror, path, snap, pending, wk, coord,
          prepEpoch>>
<1>1. FactCommit => UNCHANGED <<epoch, gens, staging, ckpt, up, gen, mirror, path, snap, pending, wk, coord,
        prepEpoch, query>>
  BY DEF FactCommit, Append1, diskVars, ctlVars, coordVars
<1>2. FactRetract => UNCHANGED <<epoch, gens, staging, ckpt, up, gen, mirror, path, snap, pending, wk, coord,
        prepEpoch, query>>
  BY DEF FactRetract, Append1, diskVars, ctlVars, coordVars
<1>3. ReplaceFacts => UNCHANGED <<gens, staging, ckpt, up, gen, mirror, path, snap, pending, wk, coord,
        prepEpoch, query>>
  BY DEF ReplaceFacts, diskVars, ctlVars, coordVars
<1>4. Start => UNCHANGED <<epoch, log>>
  BY DEF Start, StartDaemon, factVars
<1>5. StartupSweep => UNCHANGED <<epoch, log, up, gen, mirror, path, snap, pending, wk, coord, prepEpoch,
        query>>
  BY DEF StartupSweep, factVars, coordVars
<1>6. Crash => UNCHANGED <<epoch, log, gens, staging, ckpt>>
  BY DEF Crash, factVars, diskVars
<1>7. WorkerPark => UNCHANGED <<epoch, log, gens, staging, ckpt, up, gen, mirror, path, snap, pending, wk,
        coord, prepEpoch, query>>
  BY DEF WorkerPark, At, factVars, diskVars, ctlVars, coordVars
<1>8. WorkerCycle => UNCHANGED <<epoch, log, gens, staging, ckpt, up, gen, mirror, path, snap, pending, coord,
        prepEpoch, query>>
  BY DEF WorkerCycle, At, factVars, diskVars, ctlVars, coordVars
<1>9. WorkerIdentity => UNCHANGED <<epoch, log, gens, staging, ckpt, up, gen, mirror, path, snap, pending,
        coord, prepEpoch, query>>
  BY DEF WorkerIdentity, At, factVars, diskVars, ctlVars, coordVars
<1>10. WorkerChanges => UNCHANGED <<epoch, log, gens, staging, ckpt, up, gen, mirror, path, snap, pending,
        coord, prepEpoch, query>>
  BY DEF WorkerChanges, At, factVars, diskVars, ctlVars, coordVars
<1>11. WorkerWrite => UNCHANGED <<epoch, log, gens, staging, up, gen, path, snap, pending, coord, prepEpoch,
        query>>
  BY DEF WorkerWrite, At, factVars, diskVars, ctlVars, coordVars
<1>12. WorkerPublish => UNCHANGED <<epoch, log, gens, staging, ckpt, up, gen, mirror, path, pending, coord,
        prepEpoch, query>>
  BY DEF WorkerPublish, At, factVars, diskVars, ctlVars, coordVars
<1>13. WorkerRepublish => UNCHANGED <<epoch, log, gens, staging, ckpt, up, gen, mirror, path, pending, coord,
        prepEpoch, query>>
  BY DEF WorkerRepublish, At, factVars, diskVars, ctlVars, coordVars
<1>14. WorkerRecordBlock => UNCHANGED <<epoch, log, gens, staging, up, gen, mirror, path, snap, pending, coord,
        prepEpoch, query>>
  BY DEF WorkerRecordBlock, At, factVars, diskVars, ctlVars, coordVars
<1>15. WorkerBlock => UNCHANGED <<epoch, log, gens, staging, ckpt, up, gen, mirror, path, snap, pending, coord,
        prepEpoch, query>>
  BY DEF WorkerBlock, At, factVars, diskVars, ctlVars, coordVars
<1>16. WorkerRebuild => UNCHANGED <<epoch, log, gens, staging, up, gen, path, coord, prepEpoch, query>>
  BY DEF WorkerRebuild, At, factVars, diskVars, ctlVars, coordVars
<1>17. WorkerBuild => UNCHANGED <<epoch, log, gens, ckpt, up, gen, mirror, path, snap, pending, coord,
        prepEpoch, query>>
  BY DEF WorkerBuild, At, factVars, diskVars, ctlVars, coordVars
<1>18. WorkerRename => UNCHANGED <<epoch, log, ckpt, up, gen, mirror, path, snap, pending, coord, prepEpoch,
        query>>
  BY DEF WorkerRename, At, factVars, diskVars, ctlVars, coordVars
<1>19. WorkerInstall => UNCHANGED <<epoch, log, gens, staging, up, pending, coord, prepEpoch, query>>
  BY DEF WorkerInstall, At, factVars, diskVars, ctlVars, coordVars
<1>20. WorkerComplete => UNCHANGED <<epoch, log, gens, staging, ckpt, up, gen, mirror, path, snap, pending,
        prepEpoch, query>>
  BY DEF WorkerComplete, At, factVars, diskVars, ctlVars, coordVars
<1>21. WorkerSweep => UNCHANGED <<epoch, log, up, gen, mirror, path, snap, pending, coord, prepEpoch, query>>
  BY DEF WorkerSweep, At, factVars, diskVars, ctlVars, coordVars
<1>22. WorkerFault => UNCHANGED <<epoch, log, gens, staging, ckpt, up, gen, mirror, path, snap, pending, coord,
        prepEpoch, query>>
  BY DEF WorkerFault, factVars, diskVars, ctlVars, coordVars
<1>23. RetryClean => UNCHANGED <<epoch, log, gens, staging, up, gen, mirror, path, snap, pending, wk, coord,
        prepEpoch, query>>
  BY DEF RetryClean, factVars, coordVars
<1>24. RetryClear => UNCHANGED <<epoch, log, gens, staging, ckpt, up, gen, mirror, path, snap, pending, wk,
        coord, prepEpoch, query>>
  BY DEF RetryClear, factVars, diskVars, coordVars
<1>25. PrepareBegin => UNCHANGED <<epoch, log, gens, staging, ckpt, up, gen, mirror, path, snap, pending, wk,
        query>>
  BY DEF PrepareBegin, factVars, diskVars, ctlVars, machineVars, coordVars
<1>26. PrepareTimeout => UNCHANGED <<epoch, log, gens, staging, ckpt, up, gen, mirror, path, snap, pending, wk,
        prepEpoch, query>>
  BY DEF PrepareTimeout, factVars, diskVars, ctlVars, machineVars, coordVars
<1>27. PrepareIdle => UNCHANGED <<epoch, log, gens, staging, ckpt, up, gen, mirror, path, snap, pending, wk,
        query>>
  BY DEF PrepareIdle, factVars, diskVars, ctlVars, machineVars, coordVars
<1>28. Reopen => UNCHANGED <<epoch, log, gens, staging, ckpt, up, gen, mirror, path, snap, pending, wk,
        prepEpoch, query>>
  BY DEF Reopen, factVars, diskVars, ctlVars, machineVars, coordVars
<1>29. Invalidate => UNCHANGED <<epoch, log, gens, staging, ckpt, up, gen, mirror, path, pending, wk, prepEpoch,
        query>>
  BY DEF Invalidate, factVars, diskVars, ctlVars, machineVars, coordVars
<1>30. InvalidateDrop => UNCHANGED <<epoch, log, gens, staging, up, gen, path, snap, pending, wk, prepEpoch,
        query>>
  BY DEF InvalidateDrop, factVars, diskVars, ctlVars, machineVars, coordVars
<1>31. RequestRebuild => UNCHANGED <<epoch, log, gens, staging, ckpt, up, gen, mirror, path, snap, wk,
        prepEpoch, query>>
  BY DEF RequestRebuild, factVars, diskVars, ctlVars, machineVars, coordVars
<1>32. QueryBegin => UNCHANGED <<epoch, log, gens, staging, ckpt, up, gen, mirror, path, snap, pending, wk,
        coord, prepEpoch>>
  BY DEF QueryBegin, queryFrame, factVars, diskVars, ctlVars, machineVars, coordVars
<1>33. QueryAnswer => UNCHANGED <<epoch, log, gens, staging, ckpt, up, gen, mirror, path, snap, pending, wk,
        coord, prepEpoch>>
  BY DEF QueryAnswer, queryFrame, factVars, diskVars, ctlVars, machineVars, coordVars
<1>34. QueryEnd => UNCHANGED <<epoch, log, gens, staging, ckpt, up, gen, mirror, path, snap, pending, wk, coord,
        prepEpoch>>
  BY DEF QueryEnd, queryFrame, factVars, diskVars, ctlVars, machineVars, coordVars
<1> QED BY <1>1, <1>2, <1>3, <1>4, <1>5, <1>6, <1>7, <1>8, <1>9, <1>10, <1>11, <1>12, <1>13, <1>14, <1>15,
      <1>16, <1>17, <1>18, <1>19, <1>20, <1>21, <1>22, <1>23, <1>24, <1>25, <1>26, <1>27, <1>28, <1>29, <1>30,
      <1>31, <1>32, <1>33, <1>34

\* The actions that may change a variable.
LEMMA Frames ==
    ASSUME [Next]_vars
    PROVE  /\ FactCommit \/ FactRetract \/ ReplaceFacts \/ UNCHANGED <<epoch, log>>
           /\ Start \/ StartupSweep \/ WorkerRename \/ WorkerSweep \/ UNCHANGED gens
           /\ Start \/ StartupSweep \/ WorkerBuild \/ WorkerRename \/ WorkerSweep \/ UNCHANGED staging
           /\ Start \/ StartupSweep \/ WorkerWrite \/ WorkerRecordBlock \/ WorkerRebuild \/ WorkerInstall \/
              WorkerSweep \/ RetryClean \/ InvalidateDrop \/ UNCHANGED ckpt
           /\ Start \/ Crash \/ UNCHANGED up
           /\ Start \/ Crash \/ WorkerInstall \/ UNCHANGED <<gen, path>>
           /\ Start \/ Crash \/ WorkerWrite \/ WorkerRebuild \/ WorkerInstall \/ InvalidateDrop \/ UNCHANGED
              mirror
           /\ Start \/ Crash \/ WorkerPublish \/ WorkerRepublish \/ WorkerRebuild \/ WorkerInstall \/ Invalidate
              \/ UNCHANGED snap
           /\ Start \/ Crash \/ WorkerRebuild \/ RequestRebuild \/ UNCHANGED pending
           /\ Start \/ Crash \/ WorkerCycle \/ WorkerIdentity \/ WorkerChanges \/ WorkerWrite \/ WorkerPublish
              \/ WorkerRepublish \/ WorkerRecordBlock \/ WorkerBlock \/ WorkerRebuild \/ WorkerBuild \/
              WorkerRename \/ WorkerInstall \/ WorkerComplete \/ WorkerSweep \/ WorkerFault \/ UNCHANGED wk
           /\ Start \/ Crash \/ WorkerComplete \/ PrepareBegin \/ PrepareTimeout \/ PrepareIdle \/ Reopen \/
              Invalidate \/ InvalidateDrop \/ RequestRebuild \/ UNCHANGED coord
           /\ Start \/ Crash \/ PrepareBegin \/ PrepareIdle \/ UNCHANGED prepEpoch
           /\ Start \/ Crash \/ QueryBegin \/ QueryAnswer \/ QueryEnd \/ UNCHANGED query
  BY Leaves DEF Next, Worker, Coordinator, vars


\* The states of the worker, the coordinator and a query.
LEMMA Known ==
    /\ "loop" \in Pcs /\ "identity" \in Pcs /\ "changes" \in Pcs /\ "write" \in Pcs /\ "publish" \in Pcs
    /\ "republish" \in Pcs /\ "block" \in Pcs /\ "blockset" \in Pcs /\ "rebuild" \in Pcs /\ "build" \in Pcs
    /\ "rename" \in Pcs /\ "install" \in Pcs /\ "complete" \in Pcs /\ "sweep" \in Pcs
    /\ "serving" \in Coords /\ "stopping" \in Coords /\ "prepared" \in Coords /\ "invalidating" \in Coords
    /\ "dropping" \in Coords /\ "requesting" \in Coords /\ "catching_up" \in Coords /\ "blocked" \in Coords
  BY DEF Pcs, Coords

\* The constants of the records are what they are meant to be.
LEMMA Constants ==
    /\ G0 \in Gen /\ NoGen \notin Gen /\ NoFile \notin Checkpoint /\ NoMirror \in Mirrors /\ NoSnap \in Snaps
    /\ Loop \in Cycles /\ NoQuery \in Queries
<1>1. NoMirror \in Mirrors
  BY BoundsAssumption DEF NoMirror, Mirrors
<1>2. NoSnap \in Snaps
  BY BoundsAssumption DEF NoSnap, Snaps
<1>3. G0 \in Gen /\ NoGen \notin Gen
  BY BoundsAssumption DEF G0, Gen, NoGen
<1>4. NoFile \notin Checkpoint
  BY <1>3 DEF NoFile, Checkpoint
<1>5. Loop \in Cycles
  BY BoundsAssumption, Known DEF Loop, Cycles, Gens
<1>6. NoQuery \in Queries
  BY BoundsAssumption, <1>2 DEF NoQuery, Queries
<1> QED BY <1>1, <1>2, <1>3, <1>4, <1>5, <1>6

\* What the model starts from has the types.
LEMMA InitTyped == Init => DeltaTypeOK
<1> SUFFICES ASSUME Init PROVE DeltaTypeOK
  OBVIOUS
<1>1. FactTypes
  BY BoundsAssumption DEF Init, FactTypes
<1>2. DiskTypes
  BY Constants DEF Init, DiskTypes
<1>3. MachineTypes /\ wk \in Cycles
  BY Constants DEF Init, MachineTypes, Gens
<1>4. DriverTypes
  BY BoundsAssumption, Constants, Known DEF Init, DriverTypes
<1> QED BY <1>1, <1>2, <1>3, <1>4 DEF DeltaTypeOK

\* The target of a build is a generation.
LEMMA TargetTyped == ASSUME DeltaTypeOK PROVE Target \in Gen
<1>1. Len(log) \in 0..MaxLog
  BY BoundsAssumption DEF DeltaTypeOK, FactTypes
<1>2. Active(log, Len(log)) \subseteq Commits
  BY IdsTyped DEF DeltaTypeOK, FactTypes
<1> QED BY <1>1, <1>2 DEF DeltaTypeOK, FactTypes, Target, Gen

\* A snapshot of a generation has the type.
LEMMA SnapshotTyped == ASSUME NEW g \in Gens, NEW m \in Mirrors PROVE Snapshot(g, m) \in Snaps
<1>1. g.epoch \in 0..MaxEpoch /\ g.rows \subseteq Commits
  BY BoundsAssumption DEF Gens, Gen, NoGen
<1> QED BY <1>1 DEF Snapshot, Snaps, Mirrors

\* The mirrors of a start.
LEMMA MirrorsTyped ==
    /\ \A g \in Gen : FreshMirror(g) = [consumed |-> g.h0, rows |-> {}, tombs |-> {}] /\ FreshMirror(g) \in Mirrors
    /\ \A c \in Checkpoint : MirrorOf(c) \in Mirrors
  BY BoundsAssumption DEF FreshMirror, NoMirror, Gen, Mirrors, MirrorOf, Checkpoint

\* Files of the directories after a drop, an open and a sweep.
LEMMA FilesTyped ==
    ASSUME DOMAIN ckpt \subseteq Gen, \A p \in DOMAIN ckpt : ckpt[p] \in Files, NEW p \in Gen
    PROVE  /\ FileAt(p) \in Files
           /\ DOMAIN Dropped(p) = DOMAIN ckpt
           /\ \A q \in DOMAIN ckpt : Dropped(p)[q] = IF q = p THEN NoFile ELSE ckpt[q]
  BY DEF FileAt, Files, Dropped

\* makedirs keeps what there is.
LEMMA WithDirFields ==
    ASSUME NEW c, NEW p
    PROVE  /\ DOMAIN WithDir(c, p) = DOMAIN c \cup {p}
           /\ \A q \in DOMAIN c : WithDir(c, p)[q] = c[q]
           /\ p \notin DOMAIN c => WithDir(c, p)[p] = NoFile
  BY DEF WithDir

\* Every step keeps the facts' types.
LEMMA FactsStep ==
    ASSUME DeltaTypeOK, [Next]_vars
    PROVE  FactTypes'
<1>1. CASE FactCommit
  BY <1>1, Leaves, BoundsAssumption DEF DeltaTypeOK, FactTypes, FactCommit, Append1, Change
<1>2. CASE FactRetract
  <2>1. PICK c \in Active(log, Len(log)) : Append1([kind |-> "retraction", id |-> c])
    BY <1>2 DEF FactRetract
  <2>2. c \in Commits
    BY IdsTyped DEF DeltaTypeOK, FactTypes
  <2>3. [kind |-> "retraction", id |-> c] \in Change
    BY <2>2 DEF Change
  <2> QED BY <2>1, <2>3, BoundsAssumption DEF DeltaTypeOK, FactTypes, Append1
<1>3. CASE ReplaceFacts
  <2>1. PICK h \in 0..Len(log) : log' = SubSeq(log, 1, h)
    BY <1>3 DEF ReplaceFacts
  <2>2. \A i \in 1..h : log[i] \in Change
    BY ElementOfSeq DEF DeltaTypeOK, FactTypes
  <2>3. log' \in Seq(Change) /\ Len(log') = h
    BY <2>1, <2>2, SubSeqProperties
  <2> QED BY <1>3, <2>3, BoundsAssumption DEF ReplaceFacts, DeltaTypeOK, FactTypes
<1>4. CASE UNCHANGED <<epoch, log>>
  BY <1>4 DEF DeltaTypeOK, FactTypes
<1> QED BY <1>1, <1>2, <1>3, <1>4, Frames

\* Every step keeps the type of the worker's state.
LEMMA CycleStep ==
    ASSUME DeltaTypeOK, [Next]_vars
    PROVE  wk' \in Cycles
<1>1. CASE Start
  BY <1>1, Leaves, Constants, Known DEF DeltaTypeOK, Start, StartDaemon
<1>2. CASE Crash
  BY <1>2, Leaves, Constants, Known DEF DeltaTypeOK, Crash
<1>3. CASE WorkerCycle
  <2>1. snap.epoch \in 0..MaxEpoch /\ pending \in 0..MaxEpoch
    BY DEF DeltaTypeOK, MachineTypes, DriverTypes, Snaps
  <2>2. [Loop EXCEPT !.pc = "rebuild", !.target = pending] \in Cycles
    BY <2>1, Constants, Known DEF Cycles
  <2>3. [Loop EXCEPT !.pc = "identity", !.epoch = snap.epoch] \in Cycles
    BY <2>1, Constants, Known DEF Cycles
  <2> QED BY <1>3, <2>2, <2>3, Constants DEF WorkerCycle
<1>4. CASE WorkerIdentity
  <2>1. wk \in Cycles /\ Len(log) \in 0..MaxLog /\ (mirror.consumed # -1 => mirror.consumed \in 0..MaxLog)
    BY DEF DeltaTypeOK, FactTypes, MachineTypes, Mirrors
  <2>2. [Loop EXCEPT !.pc = "rebuild"] \in Cycles
    BY Constants, Known DEF Cycles
  <2>3. [Loop EXCEPT !.pc = "republish"] \in Cycles
    BY Constants, Known DEF Cycles
  <2>4. mirror.consumed # -1 => [wk EXCEPT !.pc = "changes", !.lo = mirror.consumed, !.hi = Len(log)] \in Cycles
    BY <2>1, Known DEF Cycles
  <2> QED BY <1>4, <2>2, <2>3, <2>4 DEF WorkerIdentity
<1>5. CASE WorkerChanges
  <2>1. wk \in Cycles /\ wk.lo \in Nat /\ wk.hi \in Nat
    BY BoundsAssumption DEF DeltaTypeOK, Cycles
  <2>2. [Loop EXCEPT !.pc = "block"] \in Cycles
    BY Constants, Known DEF Cycles
  <2> DEFINE t == RetractionsIn(log, wk.lo, wk.hi)
             r == CommitsIn(log, wk.lo, wk.hi) \ t
  <2>3. wk.hi <= Len(log) => r \in SUBSET Commits /\ t \in SUBSET Commits
    BY <2>1, IdsTyped DEF DeltaTypeOK, FactTypes
  <2>4. ~(wk.hi > Len(log)) => wk.hi <= Len(log)
    BY <2>1 DEF DeltaTypeOK, FactTypes
  <2>5. wk.hi <= Len(log) => [wk EXCEPT !.pc = "write", !.rows = r, !.tombs = t] \in Cycles
    <3> HIDE DEF t, r
    <3> QED BY <2>1, <2>3, Known DEF Cycles
  <2> QED BY <1>5, <2>2, <2>4, <2>5, Constants DEF WorkerChanges
<1>6. CASE WorkerWrite
  <2>1. [Loop EXCEPT !.pc = "publish"] \in Cycles
    BY Constants, Known DEF Cycles
  <2> QED BY <1>6, <2>1, Constants DEF WorkerWrite
<1>7. CASE WorkerPublish
  <2>1. [Loop EXCEPT !.pc = "republish"] \in Cycles
    BY Constants, Known DEF Cycles
  <2> QED BY <1>7, <2>1 DEF WorkerPublish
<1>8. CASE WorkerRepublish
  BY <1>8, Leaves, Constants, Known DEF DeltaTypeOK, WorkerRepublish, At
<1>9. CASE WorkerRecordBlock
  <2>1. [Loop EXCEPT !.pc = "blockset"] \in Cycles
    BY Constants, Known DEF Cycles
  <2> QED BY <1>9, <2>1 DEF WorkerRecordBlock
<1>10. CASE WorkerBlock
  BY <1>10, Leaves, Constants, Known DEF DeltaTypeOK, WorkerBlock, At
<1>11. CASE WorkerRebuild
  <2>1. wk \in Cycles /\ G0 \in Gens
    BY Constants DEF DeltaTypeOK, Gens
  <2>2. [wk EXCEPT !.pc = "install", !.gen = G0] \in Cycles
    BY <2>1, Known DEF Cycles
  <2>3. [wk EXCEPT !.pc = "build"] \in Cycles
    BY <2>1, Known DEF Cycles
  <2> QED BY <1>11, <2>2, <2>3 DEF WorkerRebuild
<1>12. CASE WorkerBuild
  <2>1. wk \in Cycles /\ Target \in Gens
    BY TargetTyped DEF DeltaTypeOK, Gens
  <2>2. [wk EXCEPT !.pc = "rename", !.gen = Target] \in Cycles
    BY <2>1, Known DEF Cycles
  <2>3. [wk EXCEPT !.pc = "block"] \in Cycles
    BY <2>1, Known DEF Cycles
  <2> QED BY <1>12, <2>2, <2>3, Constants DEF WorkerBuild
<1>13. CASE WorkerRename
  <2>1. wk \in Cycles
    BY DEF DeltaTypeOK
  <2>2. [wk EXCEPT !.pc = "install"] \in Cycles
    BY <2>1, Known DEF Cycles
  <2> QED BY <1>13, <2>2, Constants DEF WorkerRename
<1>14. CASE WorkerInstall
  <2>1. wk \in Cycles
    BY DEF DeltaTypeOK
  <2>2. [wk EXCEPT !.pc = "complete"] \in Cycles /\ [wk EXCEPT !.pc = "sweep"] \in Cycles
    BY <2>1, Known DEF Cycles
  <2> QED BY <1>14, <2>2, Constants DEF WorkerInstall
<1>15. CASE WorkerComplete
  <2>1. wk \in Cycles
    BY DEF DeltaTypeOK
  <2>2. [wk EXCEPT !.pc = "sweep"] \in Cycles
    BY <2>1, Known DEF Cycles
  <2> QED BY <1>15, <2>2 DEF WorkerComplete
<1>16. CASE WorkerSweep
  BY <1>16, Leaves, Constants, Known DEF DeltaTypeOK, WorkerSweep, At
<1>17. CASE WorkerFault
  <2>1. [Loop EXCEPT !.pc = "blockset"] \in Cycles
    BY Constants, Known DEF Cycles
  <2> QED BY <1>17, <2>1, Constants DEF WorkerFault
<1>18. CASE UNCHANGED <<wk>>
  BY <1>18 DEF DeltaTypeOK
<1> QED BY <1>1, <1>2, <1>3, <1>4, <1>5, <1>6, <1>7, <1>8, <1>9, <1>10, <1>11, <1>12, <1>13, <1>14, <1>15, <1>16,
    <1>17, <1>18, Frames

\* Every step keeps the types of the coordinator and of the query.
LEMMA DriverStep ==
    ASSUME DeltaTypeOK, [Next]_vars
    PROVE  DriverTypes'
<1>1. CASE Start
  BY <1>1, Leaves, Constants, Known, BoundsAssumption DEF DeltaTypeOK, DriverTypes, Start, StartDaemon
<1>2. CASE Crash
  BY <1>2, Leaves, Constants, Known, BoundsAssumption DEF DeltaTypeOK, DriverTypes, Crash
<1>3. CASE WorkerRebuild
  BY <1>3, Leaves, Constants, Known, BoundsAssumption DEF DeltaTypeOK, DriverTypes, WorkerRebuild, At
<1>4. CASE WorkerComplete
  BY <1>4, Leaves, Constants, Known DEF DeltaTypeOK, DriverTypes, WorkerComplete, At
<1>5. CASE PrepareBegin
  BY <1>5, Leaves, Constants, Known DEF DeltaTypeOK, DriverTypes, PrepareBegin
<1>6. CASE PrepareTimeout
  BY <1>6, Leaves, Constants, Known DEF DeltaTypeOK, DriverTypes, PrepareTimeout
<1>7. CASE PrepareIdle
  BY <1>7, Leaves, Constants, Known DEF DeltaTypeOK, DriverTypes, PrepareIdle
<1>8. CASE Reopen
  BY <1>8, Leaves, Constants, Known DEF DeltaTypeOK, DriverTypes, Reopen
<1>9. CASE Invalidate
  BY <1>9, Leaves, Constants, Known DEF DeltaTypeOK, DriverTypes, Invalidate
<1>10. CASE InvalidateDrop
  BY <1>10, Leaves, Constants, Known DEF DeltaTypeOK, DriverTypes, InvalidateDrop
<1>11. CASE RequestRebuild
  BY <1>11, Leaves, Constants, Known, BoundsAssumption DEF DeltaTypeOK, DriverTypes, RequestRebuild, FactTypes
<1>12. CASE QueryBegin
  <2>1. query' = [NoQuery EXCEPT !.st = "wait", !.epoch = epoch, !.hi = Len(log)]
    BY <1>12 DEF QueryBegin
  <2>2. Len(log) \in 0..MaxLog /\ epoch \in 0..MaxEpoch
    BY DEF DeltaTypeOK, FactTypes
  <2>3. query' \in Queries
    BY <2>1, <2>2, Constants DEF Queries
  <2> QED BY <1>12, <2>3 DEF QueryBegin, queryFrame, coordVars, DeltaTypeOK, DriverTypes
<1>13. CASE QueryAnswer
  <2>1. query' = [query EXCEPT !.st = "served", !.ans = snap]
    BY <1>13 DEF QueryAnswer
  <2>2. query' \in Queries
    BY <2>1 DEF Queries, DeltaTypeOK, DriverTypes, MachineTypes
  <2> QED BY <1>13, <2>2 DEF QueryAnswer, queryFrame, coordVars, DeltaTypeOK, DriverTypes
<1>14. CASE QueryEnd
  BY <1>14, Leaves, Constants, Known DEF DeltaTypeOK, DriverTypes, QueryEnd, queryFrame
<1>15. CASE UNCHANGED <<pending, coord, query>>
  BY <1>15 DEF DeltaTypeOK, DriverTypes
<1> QED BY <1>1, <1>2, <1>3, <1>4, <1>5, <1>6, <1>7, <1>8, <1>9, <1>10, <1>11, <1>12, <1>13, <1>14, <1>15, Frames

\* Dropping a checkpoint, opening a directory and sweeping keep the types of
\* the files.
LEMMA DropTyped ==
    ASSUME DiskTypes, NEW p \in Gen
    PROVE  /\ DOMAIN Dropped(p) \subseteq Gen /\ \A q \in DOMAIN Dropped(p) : Dropped(p)[q] \in Files
           /\ DOMAIN WithDir(ckpt, p) \subseteq Gen /\ \A q \in DOMAIN WithDir(ckpt, p) : WithDir(ckpt, p)[q] \in Files
           /\ DOMAIN WithDir(Dropped(p), p) \subseteq Gen
           /\ \A q \in DOMAIN WithDir(Dropped(p), p) : WithDir(Dropped(p), p)[q] \in Files
<1>1. DOMAIN Dropped(p) \subseteq Gen /\ \A q \in DOMAIN Dropped(p) : Dropped(p)[q] \in Files
  BY DEF DiskTypes, Dropped, Files
<1>2. ASSUME NEW c, DOMAIN c \subseteq Gen, \A q \in DOMAIN c : c[q] \in Files
      PROVE  DOMAIN WithDir(c, p) \subseteq Gen /\ \A q \in DOMAIN WithDir(c, p) : WithDir(c, p)[q] \in Files
  BY <1>2 DEF WithDir, Files
<1> QED BY <1>1, <1>2 DEF DiskTypes

\* A sweep leaves a typed root.
LEMMA SweepTyped ==
    ASSUME DiskTypes, NEW keep
    PROVE  /\ SweptGens(keep) \subseteq Gen /\ \A s \in SweptStaging : s.gen \in Gen
           /\ DOMAIN SweptCkpt(keep) \subseteq Gen /\ \A q \in DOMAIN SweptCkpt(keep) : SweptCkpt(keep)[q] \in Files
  BY DEF DiskTypes, SweptGens, SweptStaging, SweptCkpt

\* One new file among files.
LEMMA FileTyped ==
    ASSUME DiskTypes, NEW p \in DOMAIN ckpt, NEW f \in Files
    PROVE  /\ DOMAIN [ckpt EXCEPT ![p] = f] \subseteq Gen
           /\ \A q \in DOMAIN [ckpt EXCEPT ![p] = f] : [ckpt EXCEPT ![p] = f][q] \in Files
  BY DEF DiskTypes

\* What is read from a checkpoint directory, there or not.
LEMMA FileFields ==
    ASSUME DiskTypes, NEW p \in Gen
    PROVE  FileAt(p).rows \in SUBSET Commits /\ FileAt(p).tombs \in SUBSET Commits /\ FileAt(p).blocked \in BOOLEAN
<1>1. CASE p \in DOMAIN ckpt /\ ckpt[p] # NoFile
  <2>1. FileAt(p) \in Checkpoint
    BY <1>1 DEF DiskTypes, Files, FileAt
  <2> QED BY <2>1 DEF Checkpoint
<1>2. CASE ~(p \in DOMAIN ckpt /\ ckpt[p] # NoFile)
  <2>1. FileAt(p) = NoFile
    BY <1>2 DEF FileAt
  <2> QED BY <2>1 DEF NoFile
<1> QED BY <1>1, <1>2

\* The checkpoint of a batch has the type.
LEMMA BatchTyped ==
    ASSUME DeltaTypeOK, BatchInv, wk.pc = "write"
    PROVE  [base |-> gen, epoch |-> wk.epoch, consumed |-> wk.hi, rows |-> FileAt(path).rows \cup wk.rows,
            tombs |-> FileAt(path).tombs \cup wk.tombs, blocked |-> FileAt(path).blocked] \in Files
<1>1. gen \in Gen /\ wk.epoch = gen.epoch
  BY DEF BatchInv, BatchWindow, DeltaTypeOK, MachineTypes, Gens
<1>2. wk.epoch \in 1..MaxEpoch
  BY <1>1 DEF Gen
<1>3. FileAt(path).rows \in SUBSET Commits /\ FileAt(path).tombs \in SUBSET Commits /\ FileAt(path).blocked \in BOOLEAN
  BY FileFields DEF DeltaTypeOK, MachineTypes
<1>4. wk.hi \in 0..MaxLog /\ wk.rows \in SUBSET Commits /\ wk.tombs \in SUBSET Commits
  BY DEF DeltaTypeOK, Cycles
<1> HIDE DEF DeltaTypeOK, BatchInv
<1> QED BY <1>1, <1>2, <1>3, <1>4 DEF Files, Checkpoint

\* Every step keeps the types of the derived root.
LEMMA DiskStep ==
    ASSUME DeltaTypeOK, BatchInv, BuildInv, [Next]_vars
    PROVE  DiskTypes'
<1>1. CASE Start
  <2>1. Target \in Gen
    BY TargetTyped
  <2>2. DiskTypes /\ G0 \in Gen
    BY Constants DEF DeltaTypeOK
  <2>3. gens' \subseteq Gen /\ \A s \in staging' : s.gen \in Gen
    BY <1>1, <2>1, <2>2 DEF Start, StartOpen, StartBuild, StartBlocked, StartRefused, DiskTypes
  <2>4. ckpt' \in {WithDir(ckpt, G0), WithDir(Dropped(G0), G0)}
    BY <1>1 DEF Start, StartOpen, StartBuild, StartBlocked, StartRefused, StartEmpty, StartWith
  <2>5. DOMAIN ckpt' \subseteq Gen /\ \A p \in DOMAIN ckpt' : ckpt'[p] \in Files
    BY <2>2, <2>4, DropTyped
  <2> QED BY <2>3, <2>5 DEF DiskTypes
<1>2. CASE StartupSweep
  BY <1>2, SweepTyped DEF StartupSweep, DeltaTypeOK, DiskTypes
<1>3. CASE WorkerWrite
  <2>1. CASE path \in DOMAIN ckpt /\ ckpt' # ckpt
    <3> DEFINE f == [base |-> gen, epoch |-> wk.epoch, consumed |-> wk.hi, rows |-> FileAt(path).rows \cup wk.rows,
                     tombs |-> FileAt(path).tombs \cup wk.tombs, blocked |-> FileAt(path).blocked]
    <3>1. ckpt' = [ckpt EXCEPT ![path] = f] /\ gens' = gens /\ staging' = staging
      BY <1>3, <2>1 DEF WorkerWrite
    <3>2. f \in Files
      BY <1>3, <2>1, BatchTyped DEF WorkerWrite, At
    <3> HIDE DEF f
    <3> QED BY <2>1, <3>1, <3>2, FileTyped DEF DeltaTypeOK, DiskTypes
  <2>2. CASE ~(path \in DOMAIN ckpt /\ ckpt' # ckpt)
    BY <1>3, <2>2 DEF WorkerWrite, DeltaTypeOK, DiskTypes
  <2> QED BY <2>1, <2>2
<1>4. CASE WorkerRecordBlock
  <2>1. CASE gen # NoGen /\ mirror.consumed # -1 /\ path \in DOMAIN ckpt
    <3> DEFINE f == [base |-> gen, epoch |-> gen.epoch, consumed |-> mirror.consumed, rows |-> FileAt(path).rows,
                     tombs |-> FileAt(path).tombs, blocked |-> TRUE]
    <3>1. ckpt' = [ckpt EXCEPT ![path] = f] /\ gens' = gens /\ staging' = staging
      BY <1>4, <2>1 DEF WorkerRecordBlock
    <3>2. f \in Files
      <4>1. FileAt(path).rows \in SUBSET Commits /\ FileAt(path).tombs \in SUBSET Commits
        BY FileFields DEF DeltaTypeOK, DiskTypes, MachineTypes
      <4>2. mirror.consumed \in 0..MaxLog /\ gen \in Gen /\ gen.epoch \in 1..MaxEpoch
        BY <2>1 DEF DeltaTypeOK, MachineTypes, Mirrors, Gens, Gen
      <4> QED BY <4>1, <4>2 DEF Files, Checkpoint
    <3> HIDE DEF f
    <3> QED BY <2>1, <3>1, <3>2, FileTyped DEF DeltaTypeOK, DiskTypes
  <2>2. CASE ~(gen # NoGen /\ mirror.consumed # -1 /\ path \in DOMAIN ckpt)
    BY <1>4, <2>2 DEF WorkerRecordBlock, DeltaTypeOK, DiskTypes
  <2> QED BY <2>1, <2>2
<1>5. CASE WorkerRebuild
  BY <1>5, DropTyped DEF WorkerRebuild, DeltaTypeOK, DiskTypes, MachineTypes
<1>6. CASE WorkerBuild
  BY <1>6, TargetTyped DEF WorkerBuild, DeltaTypeOK, DiskTypes
<1>7. CASE WorkerRename
  BY <1>7 DEF WorkerRename, DeltaTypeOK, DiskTypes, BuildInv, BuildGens, At
<1>8. CASE WorkerInstall
  BY <1>8, DropTyped DEF WorkerInstall, DeltaTypeOK, DiskTypes, BuildInv, BuildGens, At
<1>9. CASE WorkerSweep
  BY <1>9, SweepTyped DEF WorkerSweep, DeltaTypeOK, DiskTypes
<1>10. CASE RetryClean
  <2>1. CASE FileAt(path) # NoFile
    <3>1. path \in DOMAIN ckpt /\ ckpt' = [ckpt EXCEPT ![path].blocked = FALSE] /\ gens' = gens /\ staging' = staging
      BY <1>10, <2>1 DEF RetryClean, FileAt
    <3>2. ckpt[path] \in Checkpoint
      BY <2>1, <3>1 DEF FileAt, DeltaTypeOK, DiskTypes, Files
    <3>3. [ckpt[path] EXCEPT !.blocked = FALSE] \in Files
      BY <3>2 DEF Checkpoint, Files
    <3> QED BY <3>1, <3>3, FileTyped DEF DeltaTypeOK, DiskTypes
  <2>2. CASE FileAt(path) = NoFile
    BY <1>10, <2>2 DEF RetryClean, DeltaTypeOK, DiskTypes
  <2> QED BY <2>1, <2>2
<1>11. CASE InvalidateDrop
  BY <1>11, DropTyped DEF InvalidateDrop, DeltaTypeOK, DiskTypes, MachineTypes
<1>12. CASE UNCHANGED <<gens, staging, ckpt>>
  BY <1>12 DEF DeltaTypeOK, DiskTypes
<1> QED BY <1>1, <1>2, <1>3, <1>4, <1>5, <1>6, <1>7, <1>8, <1>9, <1>10, <1>11, <1>12, Frames

\* The mirror of a committed batch has the type.
LEMMA BatchMirror ==
    ASSUME DeltaTypeOK
    PROVE  [consumed |-> wk.hi, rows |-> mirror.rows \cup wk.rows, tombs |-> mirror.tombs \cup wk.tombs] \in Mirrors
<1>1. wk.hi \in -1..MaxLog /\ wk.rows \subseteq Commits /\ wk.tombs \subseteq Commits
  BY DEF DeltaTypeOK, Cycles
<1> QED BY <1>1 DEF DeltaTypeOK, MachineTypes, Mirrors

\* Every step keeps the types of the machine.
LEMMA MachineStep ==
    ASSUME DeltaTypeOK, BuildInv, [Next]_vars
    PROVE  MachineTypes'
<1>1. CASE Start
  <2>1. Target \in Gen /\ G0 \in Gen /\ NoGen \in Gens /\ path' = G0
    BY <1>1, TargetTyped, Constants DEF Start, StartDaemon, Gens
  <2>2. ASSUME NEW g \in Gen, StartWith(g) PROVE gen' \in Gens /\ mirror' \in Mirrors /\ snap' \in Snaps
    <3> DEFINE m == IF Loads(FileAt(G0), g) THEN MirrorOf(FileAt(G0)) ELSE FreshMirror(g)
    <3>1. gen' = g /\ mirror' = m /\ snap' = Snapshot(g, m)
      BY <2>2 DEF StartWith
    <3>2. FileAt(G0) \in Files
      BY <2>1, FilesTyped DEF DeltaTypeOK, DiskTypes
    <3>3. m \in Mirrors
      BY <3>2, MirrorsTyped DEF Loads, Accepts, Files
    <3> HIDE DEF m
    <3> QED BY <3>1, <3>3, SnapshotTyped DEF Gens
  <2>3. StartEmpty => gen' \in Gens /\ mirror' \in Mirrors /\ snap' \in Snaps
    BY <2>1, Constants DEF StartEmpty
  <2>4. StartWith(G0) \/ StartWith(Target) \/ StartEmpty
    BY <1>1 DEF Start, StartOpen, StartBuild, StartBlocked, StartRefused
  <2> QED BY <2>1, <2>2, <2>3, <2>4 DEF MachineTypes
<1>2. CASE Crash
  BY <1>2, Constants DEF Crash, MachineTypes, Gens
<1>3. CASE WorkerWrite
  BY <1>3, BatchMirror DEF WorkerWrite, DeltaTypeOK, MachineTypes
<1>4. CASE WorkerPublish
  BY <1>4, SnapshotTyped DEF WorkerPublish, DeltaTypeOK, MachineTypes
<1>5. CASE WorkerRepublish
  BY <1>5, SnapshotTyped DEF WorkerRepublish, DeltaTypeOK, MachineTypes
<1>6. CASE WorkerRebuild
  BY <1>6, Leaves, Constants DEF DeltaTypeOK, MachineTypes, WorkerRebuild, At
<1>7. CASE WorkerInstall
  <2>1. wk.gen \in Gen
    BY <1>7 DEF WorkerInstall, At, BuildInv, BuildGens
  <2>2. FreshMirror(wk.gen) \in Mirrors
    BY <2>1, MirrorsTyped
  <2>3. Snapshot(wk.gen, FreshMirror(wk.gen)) \in Snaps
    BY <2>1, <2>2, SnapshotTyped DEF Gens
  <2> QED BY <1>7, <2>1, <2>2, <2>3 DEF WorkerInstall, DeltaTypeOK, MachineTypes, Gens
<1>8. CASE Invalidate
  BY <1>8, Leaves, Constants DEF DeltaTypeOK, MachineTypes, Invalidate
<1>9. CASE InvalidateDrop
  BY <1>9, Leaves, Constants DEF DeltaTypeOK, MachineTypes, InvalidateDrop
<1>10. CASE UNCHANGED <<gen, path, mirror, snap>>
  BY <1>10 DEF DeltaTypeOK, MachineTypes
<1> QED BY <1>1, <1>2, <1>3, <1>4, <1>5, <1>6, <1>7, <1>8, <1>9, <1>10, Frames

\* Every step keeps the types.
LEMMA TypeStep == ASSUME DeltaInv, [Next]_vars PROVE DeltaTypeOK'
  BY FactsStep, CycleStep, DriverStep, DiskStep, MachineStep DEF DeltaInv, DeltaTypeOK


-----------------------------------------------------------------------------
(* The facts.                                                              *)

\* What a recorder's append leaves.
LEMMA AppendFields ==
    ASSUME DeltaTypeOK, FactCommit \/ FactRetract
    PROVE  /\ epoch' = epoch /\ Len(log') = Len(log) + 1 /\ Len(log) \in Nat
           /\ \A h \in Nat : h <= Len(log) => Active(log', h) = Active(log, h)
           /\ \A lo, h \in Nat : h <= Len(log) =>
                 CommitsIn(log', lo, h) = CommitsIn(log, lo, h) /\ RetractionsIn(log', lo, h) = RetractionsIn(log, lo, h)
           /\ UNCHANGED <<gens, staging, ckpt, up, refused, gen, mirror, path, snap, blocked, pending, stop, idle,
                          retrying, wk, coord, prepEpoch, registered, query>>
<1>1. PICK c \in Change : Append1(c)
  <2>1. Active(log, Len(log)) \subseteq Commits
    BY IdsTyped DEF DeltaTypeOK, FactTypes
  <2> QED BY <2>1 DEF FactCommit, FactRetract, Change
<1>2. log' = Append(log, c) /\ log \in Seq(Change)
  BY <1>1 DEF Append1, DeltaTypeOK, FactTypes
<1>3. \A lo, h \in Nat : h <= Len(log) =>
         /\ CommitsIn(log', lo, h) = CommitsIn(log, lo, h) /\ RetractionsIn(log', lo, h) = RetractionsIn(log, lo, h)
         /\ Active(log', h) = Active(log, h)
  BY <1>2, AppendKeeps
<1>4. Len(log') = Len(log) + 1 /\ Len(log) \in Nat
  BY <1>2
<1> QED BY <1>1, <1>3, <1>4 DEF Append1, diskVars, ctlVars, coordVars

\* What the replacement of the store leaves.
LEMMA ReplaceFields ==
    ASSUME DeltaTypeOK, ReplaceFacts
    PROVE  /\ epoch' = epoch + 1 /\ epoch' > 1
           /\ UNCHANGED <<gens, staging, ckpt, up, refused, gen, mirror, path, snap, blocked, pending, stop, idle,
                          retrying, wk, coord, prepEpoch, registered, query>>
           /\ ~up \/ coord = "prepared"
  BY DEF ReplaceFacts, DeltaTypeOK, FactTypes, diskVars, ctlVars, coordVars

\* The ids of the whole log.
LEMMA CommitPlace ==
    ASSUME NEW l, NEW h \in Nat, NEW x
    PROVE  x \in CommitsIn(l, 0, h) <=> \E j \in 1..h : l[j].kind = "commit" /\ l[j].id = x
  BY DEF CommitsIn

\* Recorders and replacements keep the order of the log.
LEMMA LogStep ==
    ASSUME DeltaTypeOK, LogInv, [Next]_vars
    PROVE  LogInv'
<1>1. CASE FactCommit
  <2>1. PICK c \in Commits \ CommitsIn(log, 0, Len(log)) : log' = Append(log, [kind |-> "commit", id |-> c])
    BY <1>1 DEF FactCommit, Append1
  <2> DEFINE n == Len(log)
  <2>2. log \in Seq(Change) /\ n \in Nat
    BY DEF DeltaTypeOK, FactTypes
  <2>3. Len(log') = n + 1 /\ (\A i \in 1..n : log'[i] = log[i]) /\ log'[n + 1] = [kind |-> "commit", id |-> c]
    BY <2>1, <2>2
  <2>4. CommitsIn(log', 0, n) = CommitsIn(log, 0, n)
    BY <1>1, AppendFields, <2>2
  <2>5. \A i \in 1..n : log[i].id # c
    BY <2>1 DEF LogInv
  <2>6. ASSUME NEW i \in 1..Len(log'), NEW j \in 1..Len(log'), log'[j].kind = "commit", log'[i].id = log'[j].id
        PROVE  j <= i
    <3>1. CASE i = n + 1
      BY <2>2, <2>3, <3>1
    <3>2. CASE i \in 1..n /\ j \in 1..n
      BY <2>3, <2>6, <3>2 DEF LogInv
    <3>3. CASE i \in 1..n /\ j = n + 1
      BY <2>3, <2>5, <2>6, <3>3
    <3> QED BY <2>2, <2>3, <3>1, <3>2, <3>3
  <2>7. ASSUME NEW i \in 1..Len(log') PROVE log'[i].id \in CommitsIn(log', 0, Len(log'))
    <3>1. CASE i = n + 1
      BY <2>2, <2>3, <3>1, CommitPlace
    <3>2. CASE i \in 1..n
      <4>1. log'[i].id \in CommitsIn(log', 0, n)
        BY <2>3, <2>4, <3>2 DEF LogInv
      <4> QED BY <2>2, <2>3, <4>1, CommitPlace
    <3> QED BY <2>2, <2>3, <3>1, <3>2
  <2> QED BY <2>6, <2>7 DEF LogInv
<1>2. CASE FactRetract
  <2>1. PICK c \in Active(log, Len(log)) : log' = Append(log, [kind |-> "retraction", id |-> c])
    BY <1>2 DEF FactRetract, Append1
  <2> DEFINE n == Len(log)
  <2>2. log \in Seq(Change) /\ n \in Nat
    BY DEF DeltaTypeOK, FactTypes
  <2>3. Len(log') = n + 1 /\ (\A i \in 1..n : log'[i] = log[i]) /\ log'[n + 1] = [kind |-> "retraction", id |-> c]
    BY <2>1, <2>2
  <2>4. CommitsIn(log', 0, n) = CommitsIn(log, 0, n)
    BY <1>2, AppendFields, <2>2
  <2>5. c \in CommitsIn(log, 0, n)
    BY <2>1 DEF Active
  <2>6. ASSUME NEW i \in 1..Len(log'), NEW j \in 1..Len(log'), log'[j].kind = "commit", log'[i].id = log'[j].id
        PROVE  j <= i
    <3>0. j \in 1..n
      BY <2>2, <2>3, <2>6
    <3>1. CASE i = n + 1
      BY <2>2, <2>3, <3>0, <3>1
    <3>2. CASE i \in 1..n
      BY <2>3, <2>6, <3>0, <3>2 DEF LogInv
    <3> QED BY <2>2, <2>3, <3>1, <3>2
  <2>7. ASSUME NEW i \in 1..Len(log') PROVE log'[i].id \in CommitsIn(log', 0, Len(log'))
    <3>1. log'[i].id \in CommitsIn(log', 0, n)
      BY <2>2, <2>3, <2>4, <2>5 DEF LogInv
    <3> QED BY <2>2, <2>3, <3>1, CommitPlace
  <2> QED BY <2>6, <2>7 DEF LogInv
<1>3. CASE ReplaceFacts
  <2>1. PICK h \in 0..Len(log) : log' = SubSeq(log, 1, h)
    BY <1>3 DEF ReplaceFacts
  <2>2. \A i \in 1..h : log[i] \in Change
    BY ElementOfSeq DEF DeltaTypeOK, FactTypes
  <2>3. Len(log') = h /\ \A i \in 1..h : log'[i] = log[i]
    BY <2>1, <2>2, SubSeqProperties
  <2>4. Len(log) \in Nat
    BY DEF DeltaTypeOK, FactTypes
  <2>5. ASSUME NEW i \in 1..Len(log') PROVE log'[i].id \in CommitsIn(log', 0, Len(log'))
    <3>1. PICK j \in 1..Len(log) : log[j].kind = "commit" /\ log[j].id = log[i].id
      BY <2>3, <2>4, CommitPlace DEF LogInv
    <3>2. j <= i
      BY <2>3, <2>4, <3>1 DEF LogInv
    <3>3. j \in 1..h /\ log'[j].kind = "commit" /\ log'[j].id = log'[i].id
      BY <2>3, <3>1, <3>2
    <3> QED BY <2>3, <2>4, <3>3, CommitPlace
  <2> QED BY <2>3, <2>4, <2>5 DEF LogInv
<1>4. CASE UNCHANGED <<epoch, log>>
  BY <1>4 DEF LogInv
<1> QED BY <1>1, <1>2, <1>3, <1>4, Frames

-----------------------------------------------------------------------------
(* Generations, files and the machine.                                     *)

\* The parts of a worker at the head of its loop.
LEMMA LoopFields ==
    /\ Loop.pc = "loop" /\ Loop.target = 0 /\ Loop.epoch = 0 /\ Loop.gen = NoGen /\ Loop.rows = {} /\ Loop.tombs = {}
    /\ NoGen.epoch = 0 /\ NoGen.h0 = 0 /\ NoGen.rows = {} /\ G0.epoch = 1 /\ G0.h0 = 0 /\ G0.rows = {}
    /\ NoMirror.consumed = -1 /\ NoMirror.rows = {} /\ NoMirror.tombs = {}
    /\ NoFile.rows = {} /\ NoFile.tombs = {} /\ NoFile.epoch = 0 /\ NoFile.consumed = 0
    /\ NoSnap.epoch = 0 /\ NoSnap.consumed = -1 /\ NoSnap.active = {}
    /\ NoQuery.st = "idle" /\ NoQuery.epoch = 0 /\ NoQuery.hi = 0
  BY DEF Loop, NoGen, G0, NoMirror, NoFile, NoSnap, NoQuery

\* The parts of a generation.
LEMMA GenFields ==
    /\ \A g \in Gens : g.epoch \in Nat /\ g.h0 \in Nat
    /\ \A g \in Gen : g \in Gens /\ g # NoGen
  BY BoundsAssumption, Constants DEF Gens, Gen, NoGen

\* No machine serves a generation of no epoch.
LEMMA NoGenSound == ASSUME DeltaTypeOK PROVE Sound(NoGen)
  BY LoopFields DEF Sound, DeltaTypeOK, FactTypes

\* The target is sound, and so is the generation that is declared.
LEMMA TargetSound ==
    ASSUME DeltaTypeOK PROVE Sound(Target) /\ Target.epoch = epoch /\ Target.h0 = Len(log) /\ Target.rows = Active(log, Len(log))
  BY DEF Target, Sound, DeltaTypeOK, FactTypes

\* Generations that were there, or the target of this moment, are sound.
LEMMA GensFrom ==
    ASSUME DeltaTypeOK, GensInv, UNCHANGED <<epoch, log>>,
           gens' \subseteq gens \cup {wk.gen, Target},
           gen' \in gens \cup {gen, wk.gen, NoGen, Target}, wk'.gen \in gens \cup {wk.gen, NoGen, Target}
    PROVE  GensInv'
<1>1. \A g \in gens' \cup {gen', wk'.gen} : Sound(g)
  BY TargetSound, NoGenSound DEF GensInv
<1> QED BY <1>1 DEF GensInv, Sound

\* What the steps make of the generation the worker holds.
LEMMA WorkerGen ==
    ASSUME DeltaTypeOK, [Next]_vars PROVE wk'.gen \in gens \cup {wk.gen, NoGen, Target}

<1>1. CASE Start
  BY <1>1, Leaves, LoopFields DEF DeltaTypeOK, Cycles, Start, StartDaemon
<1>2. CASE Crash
  BY <1>2, Leaves, LoopFields DEF DeltaTypeOK, Cycles, Crash
<1>3. CASE WorkerCycle
  BY <1>3, Leaves, LoopFields DEF DeltaTypeOK, Cycles, WorkerCycle, At
<1>4. CASE WorkerIdentity
  BY <1>4, Leaves, LoopFields DEF DeltaTypeOK, Cycles, WorkerIdentity, At
<1>5. CASE WorkerChanges
  BY <1>5, Leaves, LoopFields DEF DeltaTypeOK, Cycles, WorkerChanges, At
<1>6. CASE WorkerWrite
  <2>1. wk' \in {Loop, [Loop EXCEPT !.pc = "publish"]}
    BY <1>6 DEF WorkerWrite
  <2> QED BY <2>1, Constants, LoopFields DEF Cycles
<1>7. CASE WorkerPublish
  BY <1>7, Leaves, LoopFields DEF DeltaTypeOK, Cycles, WorkerPublish, At
<1>8. CASE WorkerRepublish
  BY <1>8, Leaves, LoopFields DEF DeltaTypeOK, Cycles, WorkerRepublish, At
<1>9. CASE WorkerRecordBlock
  BY <1>9, Leaves, LoopFields DEF DeltaTypeOK, Cycles, WorkerRecordBlock, At
<1>10. CASE WorkerBlock
  BY <1>10, Leaves, LoopFields DEF DeltaTypeOK, Cycles, WorkerBlock, At
<1>11. CASE WorkerRebuild
  BY <1>11, Leaves, LoopFields DEF DeltaTypeOK, Cycles, WorkerRebuild, At
<1>12. CASE WorkerBuild
  BY <1>12, Leaves, LoopFields DEF DeltaTypeOK, Cycles, WorkerBuild, At
<1>13. CASE WorkerRename
  BY <1>13, Leaves, LoopFields DEF DeltaTypeOK, Cycles, WorkerRename, At
<1>14. CASE WorkerInstall
  BY <1>14, Leaves, LoopFields DEF DeltaTypeOK, Cycles, WorkerInstall, At
<1>15. CASE WorkerComplete
  BY <1>15, Leaves, LoopFields DEF DeltaTypeOK, Cycles, WorkerComplete, At
<1>16. CASE WorkerSweep
  BY <1>16, Leaves, LoopFields DEF DeltaTypeOK, Cycles, WorkerSweep, At
<1>17. CASE WorkerFault
  <2>1. wk' \in {Loop, [Loop EXCEPT !.pc = "blockset"]}
    BY <1>17 DEF WorkerFault
  <2> QED BY <2>1, Constants, LoopFields DEF Cycles
<1>18. CASE UNCHANGED <<wk>>
  BY <1>18
<1> QED BY <1>1, <1>2, <1>3, <1>4, <1>5, <1>6, <1>7, <1>8, <1>9, <1>10, <1>11, <1>12, <1>13, <1>14, <1>15, <1>16,
    <1>17, <1>18, Frames

\* Every step keeps the generations sound.
LEMMA GensStep ==
    ASSUME DeltaTypeOK, GensInv, [Next]_vars
    PROVE  GensInv'
<1>1. CASE FactCommit
  BY <1>1, AppendFields, GenFields DEF GensInv, Sound, DeltaTypeOK, FactTypes, DiskTypes, MachineTypes, Cycles
<1>2. CASE FactRetract
  BY <1>2, AppendFields, GenFields DEF GensInv, Sound, DeltaTypeOK, FactTypes, DiskTypes, MachineTypes, Cycles
<1>3. CASE ReplaceFacts
  BY <1>3, ReplaceFields, GenFields DEF GensInv, Sound, DeltaTypeOK, FactTypes, DiskTypes, MachineTypes, Cycles
<1>4. CASE Start
  BY <1>4, Leaves, WorkerGen, GensFrom DEF Start, StartOpen, StartBuild, StartBlocked, StartRefused, StartEmpty, StartWith
<1>5. CASE StartupSweep
  BY <1>5, Leaves, WorkerGen, GensFrom DEF StartupSweep, SweptGens
<1>6. CASE Crash
  BY <1>6, Leaves, WorkerGen, GensFrom DEF Crash
<1>7. CASE WorkerRename
  BY <1>7, Leaves, WorkerGen, GensFrom DEF WorkerRename
<1>8. CASE WorkerInstall
  BY <1>8, Leaves, WorkerGen, GensFrom DEF WorkerInstall
<1>9. CASE WorkerSweep
  BY <1>9, Leaves, WorkerGen, GensFrom DEF WorkerSweep, SweptGens
<1>10. CASE UNCHANGED <<epoch, log, gens, gen, path>>
  BY <1>10, WorkerGen, GensFrom
<1> QED BY <1>1, <1>2, <1>3, <1>4, <1>5, <1>6, <1>7, <1>8, <1>9, <1>10, Frames


\* What is read from the parts of a file.
LEMMA FilePlaces ==
    ASSUME DeltaTypeOK, NEW p \in DOMAIN ckpt, ckpt[p] # NoFile
    PROVE  /\ ckpt[p] \in Checkpoint /\ ckpt[p].base \in Gen /\ ckpt[p].consumed \in Nat /\ ckpt[p].epoch \in Nat /\ p \in Gen
           /\ ckpt[p].rows \subseteq Commits /\ ckpt[p].tombs \subseteq Commits
<1>1. ckpt[p] \in Checkpoint /\ p \in Gen
  BY DEF DeltaTypeOK, DiskTypes, Files
<1> QED BY <1>1, BoundsAssumption DEF Checkpoint

\* A file that is kept stays what it is while the facts are.
LEMMA FileKept ==
    ASSUME NEW p, NEW c, FileOK(p, c), UNCHANGED <<epoch, log>> PROVE FileOK(p, c)'
  BY DEF FileOK, Sound, Exact, Bare

\* Files that are kept or emptied stay what they are.
LEMMA FilesKept ==
    ASSUME FileInv, UNCHANGED <<epoch, log>>,
           \A p \in DOMAIN ckpt' : ckpt'[p] = NoFile \/ (p \in DOMAIN ckpt /\ ckpt'[p] = ckpt[p])
    PROVE  FileInv'
<1>1. \A p \in DOMAIN ckpt' : ckpt'[p] # NoFile => FileOK(p, ckpt'[p])
  BY DEF FileInv
<1> QED BY <1>1 DEF FileInv, FileOK, Sound, Exact, Bare

\* One file is written, the others stay what they are.
LEMMA FileWritten ==
    ASSUME FileInv, UNCHANGED <<epoch, log>>, NEW p \in DOMAIN ckpt, NEW f, ckpt' = [ckpt EXCEPT ![p] = f], FileOK(p, f)
    PROVE  FileInv'
<1>1. \A q \in DOMAIN ckpt' : ckpt'[q] # NoFile => FileOK(q, ckpt'[q])
  BY DEF FileInv
<1> QED BY <1>1 DEF FileInv, FileOK, Sound, Exact, Bare

\* What is left of the files by a drop, an open and a sweep.
LEMMA FilesLeft ==
    ASSUME NEW p
    PROVE  /\ \A q \in DOMAIN Dropped(p) : Dropped(p)[q] = NoFile \/ (q \in DOMAIN ckpt /\ Dropped(p)[q] = ckpt[q])
           /\ \A q \in DOMAIN WithDir(ckpt, p) : WithDir(ckpt, p)[q] = NoFile \/ (q \in DOMAIN ckpt /\ WithDir(ckpt, p)[q] = ckpt[q])
           /\ \A q \in DOMAIN WithDir(Dropped(p), p) :
                 WithDir(Dropped(p), p)[q] = NoFile \/ (q \in DOMAIN ckpt /\ WithDir(Dropped(p), p)[q] = ckpt[q])
           /\ \A q \in DOMAIN SweptCkpt(p) : q \in DOMAIN ckpt /\ SweptCkpt(p)[q] = ckpt[q]
<1>1. \A q \in DOMAIN Dropped(p) : Dropped(p)[q] = NoFile \/ (q \in DOMAIN ckpt /\ Dropped(p)[q] = ckpt[q])
  BY DEF Dropped
<1>2. ASSUME NEW c, \A q \in DOMAIN c : c[q] = NoFile \/ (q \in DOMAIN ckpt /\ c[q] = ckpt[q])
      PROVE  \A q \in DOMAIN WithDir(c, p) : WithDir(c, p)[q] = NoFile \/ (q \in DOMAIN ckpt /\ WithDir(c, p)[q] = ckpt[q])
  BY <1>2 DEF WithDir
<1>3. \A q \in DOMAIN WithDir(ckpt, p) : WithDir(ckpt, p)[q] = NoFile \/ (q \in DOMAIN ckpt /\ WithDir(ckpt, p)[q] = ckpt[q])
  BY <1>2
<1>4. \A q \in DOMAIN SweptCkpt(p) : q \in DOMAIN ckpt /\ SweptCkpt(p)[q] = ckpt[q]
  BY DEF SweptCkpt
<1> QED BY <1>1, <1>2, <1>3, <1>4

\* The first epoch has seen no round that replaced the store.
LEMMA CleanBefore == ASSUME CoordInv, epoch = 1 PROVE Clean
  BY DEF Clean

\* The batch that is written covers the log up to its watermark.
LEMMA BatchFile ==
    ASSUME DeltaInv, WorkerWrite, path \in DOMAIN ckpt,
           NEW f, f = [base |-> gen, epoch |-> wk.epoch, consumed |-> wk.hi, rows |-> FileAt(path).rows \cup wk.rows,
                       tombs |-> FileAt(path).tombs \cup wk.tombs, blocked |-> FileAt(path).blocked]
    PROVE  FileOK(path, f)
<1>1. /\ wk.pc = "write" /\ gen \in Gen /\ wk.epoch = gen.epoch /\ gen.h0 <= wk.lo /\ wk.lo < wk.hi
      /\ wk.lo \in Nat /\ wk.hi \in Nat /\ gen.h0 \in Nat /\ Sound(gen)
  BY BoundsAssumption, GenFields
     DEF WorkerWrite, At, DeltaInv, BatchInv, BatchWindow, BatchRows, DeltaTypeOK, MachineTypes, Gens, Cycles, GensInv
<1>2. FileAt(path).rows = mirror.rows /\ FileAt(path).tombs = mirror.tombs /\ (path # G0 => gen = path)
  BY <1>1, GenFields DEF DeltaInv, PathInv, PathGen, PathFile, FileAt
<1>3. /\ f.base = gen /\ f.epoch = gen.epoch /\ f.consumed = wk.hi /\ f.rows = mirror.rows \cup wk.rows
      /\ f.tombs = mirror.tombs \cup wk.tombs
  BY <1>1, <1>2
<1>4. gen.epoch = epoch => wk.hi <= Len(log) /\ wk.tombs = RetractionsIn(log, wk.lo, wk.hi)
                           /\ wk.rows = CommitsIn(log, wk.lo, wk.hi) \ wk.tombs
  BY <1>1 DEF DeltaInv, BatchInv, BatchWindow, BatchRows
<1>5. mirror.consumed = wk.lo \/ (mirror = NoMirror /\ ~Clean)
  BY <1>1 DEF DeltaInv, BatchInv, BatchWindow, BatchRows
<1>6. RetractionsIn(log, 0, wk.hi) = RetractionsIn(log, 0, wk.lo) \cup RetractionsIn(log, wk.lo, wk.hi)
  BY <1>1, WindowSplit
<1>7. gen.epoch = epoch => mirror.tombs \subseteq RetractionsIn(log, 0, wk.lo)
  BY <1>1, <1>5, LoopFields DEF DeltaInv, MirrorInv, MirrorNone, MirrorFits
<1>8. gen.epoch = epoch => f.consumed <= Len(log) /\ f.tombs \subseteq RetractionsIn(log, 0, f.consumed)
  BY <1>3, <1>4, <1>6, <1>7
<1>9. ASSUME epoch = 1 PROVE Exact(gen, f)
  <2>1. Clean /\ gen.epoch = epoch /\ mirror.consumed = wk.lo
    <3>1. gen.epoch = 1
      BY <1>1, <1>9 DEF Sound, Gen
    <3> QED BY <1>5, <1>9, <3>1 DEF Clean
  <2>2. Exact(gen, mirror)
    BY <1>1, <2>1 DEF DeltaInv, MirrorInv, MirrorNone, MirrorFits
  <2>3. (gen.rows \cup (mirror.rows \cup wk.rows)) \ (mirror.tombs \cup wk.tombs) = Active(log, wk.hi)
    <3>1. log \in Seq(Change) /\ LogInv
      BY DEF DeltaInv, DeltaTypeOK, FactTypes
    <3>2. wk.lo <= wk.hi /\ wk.hi <= Len(log) /\ mirror.tombs \subseteq RetractionsIn(log, 0, wk.lo)
          /\ wk.tombs = RetractionsIn(log, wk.lo, wk.hi) /\ wk.rows = CommitsIn(log, wk.lo, wk.hi) \ wk.tombs
      BY <1>1, <1>4, <1>7, <2>1
    <3> QED BY <1>1, <2>1, <2>2, <3>1, <3>2, BatchExact
  <2> QED BY <1>3, <2>3 DEF Exact
<1> QED BY <1>1, <1>2, <1>3, <1>8, <1>9 DEF FileOK

\* The diagnosis record covers what the mirror covers.
LEMMA BlockFile ==
    ASSUME DeltaInv, gen # NoGen, mirror.consumed # -1, path \in DOMAIN ckpt,
           NEW f, f = [base |-> gen, epoch |-> gen.epoch, consumed |-> mirror.consumed, rows |-> FileAt(path).rows,
                       tombs |-> FileAt(path).tombs, blocked |-> TRUE]
    PROVE  FileOK(path, f)
<1>1. gen \in Gen /\ Sound(gen) /\ mirror.consumed \in Nat
  BY BoundsAssumption DEF DeltaInv, DeltaTypeOK, MachineTypes, Gens, GensInv, Mirrors
<1>2. FileAt(path).rows = mirror.rows /\ FileAt(path).tombs = mirror.tombs /\ (path # G0 => gen = path)
  BY DEF DeltaInv, PathInv, PathGen, PathFile, FileAt
<1>3. /\ f.base = gen /\ f.epoch = gen.epoch /\ f.consumed = mirror.consumed /\ f.rows = mirror.rows
      /\ f.tombs = mirror.tombs
  BY <1>2
<1>4. /\ gen.h0 <= mirror.consumed /\ (mirror.consumed = gen.h0 => Bare(mirror))
      /\ gen.epoch = epoch => mirror.consumed <= Len(log) /\ mirror.tombs \subseteq RetractionsIn(log, 0, mirror.consumed)
      /\ gen.epoch = epoch /\ Clean => Exact(gen, mirror)
  BY DEF DeltaInv, MirrorInv, MirrorNone, MirrorFits
<1>5. epoch = 1 => gen.epoch = epoch /\ Clean
  BY <1>1 DEF Sound, Gen, Clean
<1> QED BY <1>1, <1>2, <1>3, <1>4, <1>5 DEF FileOK, Bare, Exact

\* Every step keeps the checkpoint files.
LEMMA FileStep ==
    ASSUME DeltaInv, [Next]_vars
    PROVE  FileInv'
<1>1. CASE FactCommit
  <2>1. ASSUME NEW p \in DOMAIN ckpt, ckpt[p] # NoFile PROVE FileOK(p, ckpt[p])'
    <3>1. FileOK(p, ckpt[p])
      BY <2>1 DEF DeltaInv, FileInv
    <3>2. ckpt[p].base \in Gen /\ ckpt[p].consumed \in Nat /\ ckpt[p].base.h0 \in Nat
      BY <2>1, FilePlaces, GenFields DEF DeltaInv
    <3>3. ckpt[p].base.epoch = epoch => ckpt[p].base.h0 <= Len(log)
      BY <3>1 DEF FileOK, Sound
    <3>4. epoch = 1 => ckpt[p].base.epoch = epoch /\ ckpt[p].consumed <= Len(log)
      BY <3>1, <3>2 DEF FileOK, Sound, Gen
    <3> QED BY <1>1, <3>1, <3>2, <3>3, <3>4, AppendFields DEF DeltaInv, FileOK, Sound, Exact, Bare
  <2> QED BY <1>1, <2>1, AppendFields DEF FileInv, DeltaInv
<1>2. CASE FactRetract
  <2>1. ASSUME NEW p \in DOMAIN ckpt, ckpt[p] # NoFile PROVE FileOK(p, ckpt[p])'
    <3>1. FileOK(p, ckpt[p])
      BY <2>1 DEF DeltaInv, FileInv
    <3>2. ckpt[p].base \in Gen /\ ckpt[p].consumed \in Nat /\ ckpt[p].base.h0 \in Nat
      BY <2>1, FilePlaces, GenFields DEF DeltaInv
    <3>3. ckpt[p].base.epoch = epoch => ckpt[p].base.h0 <= Len(log)
      BY <3>1 DEF FileOK, Sound
    <3>4. epoch = 1 => ckpt[p].base.epoch = epoch /\ ckpt[p].consumed <= Len(log)
      BY <3>1, <3>2 DEF FileOK, Sound, Gen
    <3> QED BY <1>2, <3>1, <3>2, <3>3, <3>4, AppendFields DEF DeltaInv, FileOK, Sound, Exact, Bare
  <2> QED BY <1>2, <2>1, AppendFields DEF FileInv, DeltaInv
<1>3. CASE ReplaceFacts
  <2>1. ASSUME NEW p \in DOMAIN ckpt, ckpt[p] # NoFile PROVE FileOK(p, ckpt[p])'
    <3>1. FileOK(p, ckpt[p])
      BY <2>1 DEF DeltaInv, FileInv
    <3>2. ckpt[p].base \in Gen /\ ckpt[p].base.epoch \in Nat
      BY <2>1, FilePlaces, GenFields DEF DeltaInv
    <3>3. epoch \in Nat
      BY DEF DeltaInv, DeltaTypeOK, FactTypes
    <3> QED BY <1>3, <3>1, <3>2, <3>3, ReplaceFields DEF DeltaInv, FileOK, Sound, Bare
  <2> QED BY <1>3, <2>1, ReplaceFields DEF FileInv, DeltaInv
<1>4. CASE Start
  <2>1. UNCHANGED <<epoch, log>>
    BY <1>4 DEF Start, StartDaemon, factVars
  <2>2. ckpt' \in {WithDir(ckpt, G0), WithDir(Dropped(G0), G0)}
    BY <1>4 DEF Start, StartOpen, StartBuild, StartBlocked, StartRefused, StartEmpty, StartWith
  <2> QED BY <2>1, <2>2, FilesLeft, FilesKept DEF DeltaInv
<1>5. CASE StartupSweep
  <2>1. UNCHANGED <<epoch, log>> /\ ckpt' = SweptCkpt(IF Published THEN {G0} ELSE {})
    BY <1>5 DEF StartupSweep, factVars, coordVars
  <2> QED BY <2>1, FilesLeft, FilesKept DEF DeltaInv
<1>6. CASE WorkerWrite
  <2>1. UNCHANGED <<epoch, log>>
    BY <1>6 DEF WorkerWrite, factVars
  <2>2. CASE ckpt' = ckpt
    BY <2>1, <2>2, FilesKept DEF DeltaInv
  <2>3. CASE ckpt' # ckpt
    <3> DEFINE f == [base |-> gen, epoch |-> wk.epoch, consumed |-> wk.hi, rows |-> FileAt(path).rows \cup wk.rows,
                     tombs |-> FileAt(path).tombs \cup wk.tombs, blocked |-> FileAt(path).blocked]
    <3>1. path \in DOMAIN ckpt /\ ckpt' = [ckpt EXCEPT ![path] = f]
      BY <1>6, <2>3 DEF WorkerWrite
    <3>2. FileOK(path, f)
      BY <1>6, <3>1, BatchFile
    <3> HIDE DEF f
    <3> QED BY <2>1, <3>1, <3>2, FileWritten DEF DeltaInv
  <2> QED BY <2>2, <2>3
<1>7. CASE WorkerRecordBlock
  <2>1. UNCHANGED <<epoch, log>>
    BY <1>7 DEF WorkerRecordBlock, factVars
  <2>2. CASE ckpt' = ckpt
    BY <2>1, <2>2, FilesKept DEF DeltaInv
  <2>3. CASE ckpt' # ckpt
    <3> DEFINE f == [base |-> gen, epoch |-> gen.epoch, consumed |-> mirror.consumed, rows |-> FileAt(path).rows,
                     tombs |-> FileAt(path).tombs, blocked |-> TRUE]
    <3>1. gen # NoGen /\ mirror.consumed # -1 /\ path \in DOMAIN ckpt /\ ckpt' = [ckpt EXCEPT ![path] = f]
      BY <1>7, <2>3 DEF WorkerRecordBlock
    <3>2. FileOK(path, f)
      BY <3>1, BlockFile
    <3> HIDE DEF f
    <3> QED BY <2>1, <3>1, <3>2, FileWritten DEF DeltaInv
  <2> QED BY <2>2, <2>3
<1>8. CASE WorkerRebuild
  <2>1. UNCHANGED <<epoch, log>> /\ ckpt' = Dropped(path)
    BY <1>8 DEF WorkerRebuild, At, factVars, diskVars, ctlVars, coordVars
  <2> QED BY <2>1, FilesLeft, FilesKept DEF DeltaInv
<1>9. CASE WorkerInstall
  <2>1. UNCHANGED <<epoch, log>> /\ ckpt' = WithDir(ckpt, wk.gen)
    BY <1>9 DEF WorkerInstall, At, factVars, diskVars, ctlVars, coordVars
  <2> QED BY <2>1, FilesLeft, FilesKept DEF DeltaInv
<1>10. CASE WorkerSweep
  <2>1. UNCHANGED <<epoch, log>> /\ ckpt' = SweptCkpt({wk.gen})
    BY <1>10 DEF WorkerSweep, At, factVars, diskVars, ctlVars, coordVars
  <2> QED BY <2>1, FilesLeft, FilesKept DEF DeltaInv
<1>11. CASE RetryClean
  <2>1. UNCHANGED <<epoch, log>>
    BY <1>11 DEF RetryClean, factVars
  <2>2. CASE ckpt' = ckpt
    BY <2>1, <2>2, FilesKept DEF DeltaInv
  <2>3. CASE ckpt' # ckpt
    <3> DEFINE f == [ckpt[path] EXCEPT !.blocked = FALSE]
    <3>1. path \in DOMAIN ckpt /\ ckpt[path] # NoFile /\ ckpt' = [ckpt EXCEPT ![path] = f]
      BY <1>11, <2>3 DEF RetryClean, FileAt
    <3>2. ckpt[path] \in Checkpoint /\ FileOK(path, ckpt[path])
      BY <3>1, FilePlaces DEF DeltaInv, FileInv
    <3>3. f.base = ckpt[path].base /\ f.epoch = ckpt[path].epoch /\ f.consumed = ckpt[path].consumed
          /\ f.rows = ckpt[path].rows /\ f.tombs = ckpt[path].tombs
      BY <3>2 DEF Checkpoint
    <3>4. FileOK(path, f)
      <4> HIDE DEF f
      <4> QED BY <3>2, <3>3 DEF FileOK, Exact, Bare
    <3> HIDE DEF f
    <3> QED BY <2>1, <3>1, <3>4, FileWritten DEF DeltaInv
  <2> QED BY <2>2, <2>3
<1>12. CASE InvalidateDrop
  <2>1. UNCHANGED <<epoch, log>> /\ ckpt' = Dropped(path)
    BY <1>12 DEF InvalidateDrop, factVars, diskVars, ctlVars, machineVars, coordVars
  <2> QED BY <2>1, FilesLeft, FilesKept DEF DeltaInv
<1>13. CASE UNCHANGED <<epoch, log, ckpt>>
  BY <1>13, FilesKept DEF DeltaInv
<1> QED BY <1>1, <1>2, <1>3, <1>4, <1>5, <1>6, <1>7, <1>8, <1>9, <1>10, <1>11, <1>12, <1>13, Frames


-----------------------------------------------------------------------------
(* The worker's cycle and the coordinator.                                 *)

\* What a step of the worker makes of its locals.
LEMMA Turns ==
    ASSUME DeltaTypeOK
    PROVE
           /\ WorkerCycle =>
                  /\ wk.pc = "loop"
                  /\ \/ wk' = Loop
                     \/ wk'.pc = "rebuild" /\ wk'.target = pending /\ pending # 0
                     \/ wk'.pc = "identity" /\ wk'.target = 0 /\ wk'.epoch = snap.epoch
           /\ WorkerIdentity =>
                  /\ wk.pc = "identity"
                  /\ \/ wk'.pc = "rebuild" /\ wk'.target = 0
                     \/ wk'.pc = "republish" /\ wk'.target = 0 /\ wk.epoch = epoch
                     \/ /\ wk'.pc = "changes" /\ wk'.epoch = wk.epoch /\ wk.epoch = epoch
                        /\ wk'.lo = mirror.consumed /\ wk'.hi = Len(log) /\ mirror.consumed # -1 /\ mirror.consumed < Len(log)
           /\ WorkerChanges =>
                  /\ wk.pc = "changes"
                  /\ \/ wk' = Loop
                     \/ wk'.pc = "block"
                     \/ /\ wk'.pc = "write" /\ wk'.epoch = wk.epoch /\ wk'.lo = wk.lo /\ wk'.hi = wk.hi /\ wk.hi <= Len(log)
                        /\ wk'.tombs = RetractionsIn(log, wk.lo, wk.hi) /\ wk'.rows = CommitsIn(log, wk.lo, wk.hi) \ wk'.tombs
           /\ WorkerWrite => wk.pc = "write" /\ (wk' = Loop \/ wk'.pc = "publish")
           /\ WorkerPublish => wk.pc = "publish" /\ wk'.pc = "republish"
           /\ WorkerRepublish => wk.pc = "republish" /\ wk' = Loop
           /\ WorkerRecordBlock => wk.pc = "block" /\ wk'.pc = "blockset"
           /\ WorkerBlock => wk.pc = "blockset" /\ wk' = Loop
           /\ WorkerRebuild =>
                  /\ wk.pc = "rebuild" /\ wk'.target = wk.target
                  /\ \/ wk'.pc = "install" /\ wk'.gen = G0 /\ G0 \in gens /\ (wk.target = 0 => epoch = 1) /\ wk.target \in {0, 1}
                     \/ wk'.pc = "build" /\ (wk.target = 0 /\ epoch = 1 => G0 \notin gens)
           /\ WorkerBuild =>
                  /\ wk.pc = "build"
                  /\ wk' = Loop \/ wk'.pc = "block" \/ (wk'.pc = "rename" /\ wk'.gen = Target /\ wk'.target = wk.target)
           /\ WorkerRename =>
                  /\ wk.pc = "rename"
                  /\ wk' = Loop \/ (wk'.pc = "install" /\ wk'.gen = wk.gen /\ wk'.target = wk.target)
           /\ WorkerInstall =>
                  /\ wk.pc = "install" /\ (wk'.pc = "complete" => wk.target # 0)
                  /\ wk' = Loop \/ (wk'.pc \in {"complete", "sweep"} /\ wk'.gen = wk.gen /\ wk'.target = wk.target)
           /\ WorkerComplete => wk.pc = "complete" /\ wk'.pc = "sweep"
           /\ WorkerSweep => wk.pc = "sweep" /\ wk' = Loop
           /\ WorkerFault => wk' = Loop \/ wk'.pc = "blockset"
<1>1. WorkerCycle =>
          /\ wk.pc = "loop"
          /\ \/ wk' = Loop
             \/ wk'.pc = "rebuild" /\ wk'.target = pending /\ pending # 0
             \/ wk'.pc = "identity" /\ wk'.target = 0 /\ wk'.epoch = snap.epoch
  BY Constants, LoopFields DEF DeltaTypeOK, Cycles, FactTypes, MachineTypes, Mirrors, WorkerCycle, At
<1>2. WorkerIdentity =>
          /\ wk.pc = "identity"
          /\ \/ wk'.pc = "rebuild" /\ wk'.target = 0
             \/ wk'.pc = "republish" /\ wk'.target = 0 /\ wk.epoch = epoch
             \/ /\ wk'.pc = "changes" /\ wk'.epoch = wk.epoch /\ wk.epoch = epoch
                /\ wk'.lo = mirror.consumed /\ wk'.hi = Len(log) /\ mirror.consumed # -1 /\ mirror.consumed < Len(log)
  BY Constants, LoopFields DEF DeltaTypeOK, Cycles, FactTypes, MachineTypes, Mirrors, WorkerIdentity, At
<1>3. WorkerChanges =>
          /\ wk.pc = "changes"
          /\ \/ wk' = Loop
             \/ wk'.pc = "block"
             \/ /\ wk'.pc = "write" /\ wk'.epoch = wk.epoch /\ wk'.lo = wk.lo /\ wk'.hi = wk.hi /\ wk.hi <= Len(log)
                /\ wk'.tombs = RetractionsIn(log, wk.lo, wk.hi) /\ wk'.rows = CommitsIn(log, wk.lo, wk.hi) \ wk'.tombs
  BY Constants, LoopFields DEF DeltaTypeOK, Cycles, FactTypes, MachineTypes, Mirrors, WorkerChanges, At
<1>4. WorkerWrite => wk.pc = "write" /\ (wk' = Loop \/ wk'.pc = "publish")
  BY Constants, LoopFields DEF DeltaTypeOK, Cycles, FactTypes, MachineTypes, Mirrors, WorkerWrite, At
<1>5. WorkerPublish => wk.pc = "publish" /\ wk'.pc = "republish"
  BY Constants, LoopFields DEF DeltaTypeOK, Cycles, FactTypes, MachineTypes, Mirrors, WorkerPublish, At
<1>6. WorkerRepublish => wk.pc = "republish" /\ wk' = Loop
  BY Constants, LoopFields DEF DeltaTypeOK, Cycles, FactTypes, MachineTypes, Mirrors, WorkerRepublish, At
<1>7. WorkerRecordBlock => wk.pc = "block" /\ wk'.pc = "blockset"
  BY Constants, LoopFields DEF DeltaTypeOK, Cycles, FactTypes, MachineTypes, Mirrors, WorkerRecordBlock, At
<1>8. WorkerBlock => wk.pc = "blockset" /\ wk' = Loop
  BY Constants, LoopFields DEF DeltaTypeOK, Cycles, FactTypes, MachineTypes, Mirrors, WorkerBlock, At
<1>9. WorkerRebuild =>
          /\ wk.pc = "rebuild" /\ wk'.target = wk.target
          /\ \/ wk'.pc = "install" /\ wk'.gen = G0 /\ G0 \in gens /\ (wk.target = 0 => epoch = 1) /\ wk.target \in {0, 1}
             \/ wk'.pc = "build" /\ (wk.target = 0 /\ epoch = 1 => G0 \notin gens)
  BY Constants, LoopFields DEF DeltaTypeOK, Cycles, FactTypes, MachineTypes, Mirrors, WorkerRebuild, At
<1>10. WorkerBuild =>
           /\ wk.pc = "build"
           /\ wk' = Loop \/ wk'.pc = "block" \/ (wk'.pc = "rename" /\ wk'.gen = Target /\ wk'.target = wk.target)
  <2>1. ASSUME WorkerBuild
        PROVE  wk.pc = "build" /\ wk' \in {Loop, [wk EXCEPT !.pc = "block"], [wk EXCEPT !.pc = "rename", !.gen = Target]}
    BY <2>1 DEF WorkerBuild, At
  <2> QED BY <2>1, LoopFields DEF DeltaTypeOK, Cycles
<1>11. WorkerRename =>
           /\ wk.pc = "rename"
           /\ wk' = Loop \/ (wk'.pc = "install" /\ wk'.gen = wk.gen /\ wk'.target = wk.target)
  BY Constants, LoopFields DEF DeltaTypeOK, Cycles, FactTypes, MachineTypes, Mirrors, WorkerRename, At
<1>12. WorkerInstall =>
           /\ wk.pc = "install" /\ (wk'.pc = "complete" => wk.target # 0)
           /\ wk' = Loop \/ (wk'.pc \in {"complete", "sweep"} /\ wk'.gen = wk.gen /\ wk'.target = wk.target)
  BY Constants, LoopFields DEF DeltaTypeOK, Cycles, FactTypes, MachineTypes, Mirrors, WorkerInstall, At
<1>13. WorkerComplete => wk.pc = "complete" /\ wk'.pc = "sweep"
  BY Constants, LoopFields DEF DeltaTypeOK, Cycles, FactTypes, MachineTypes, Mirrors, WorkerComplete, At
<1>14. WorkerSweep => wk.pc = "sweep" /\ wk' = Loop
  BY Constants, LoopFields DEF DeltaTypeOK, Cycles, FactTypes, MachineTypes, Mirrors, WorkerSweep, At
<1>15. WorkerFault => wk' = Loop \/ wk'.pc = "blockset"
  BY Constants, LoopFields DEF DeltaTypeOK, Cycles, FactTypes, MachineTypes, Mirrors, WorkerFault, At
<1> QED BY <1>1, <1>2, <1>3, <1>4, <1>5, <1>6, <1>7, <1>8, <1>9, <1>10, <1>11, <1>12, <1>13, <1>14, <1>15

\* A daemon that is down takes no step.
LEMMA Down ==
    ASSUME [Next]_vars, ~up PROVE FactCommit \/ FactRetract \/ ReplaceFacts \/ Start \/ UNCHANGED vars
<1>1. ~Worker
  BY DEF Worker, At, WorkerPark, WorkerCycle, WorkerIdentity, WorkerChanges, WorkerWrite, WorkerPublish, WorkerRepublish,
      WorkerRecordBlock, WorkerBlock, WorkerRebuild, WorkerBuild, WorkerRename, WorkerInstall, WorkerComplete, WorkerSweep
<1>2. ~(StartupSweep \/ Crash \/ WorkerFault \/ RetryClean \/ RetryClear)
  BY DEF StartupSweep, Crash, WorkerFault, RetryClean, RetryClear
<1>3. ~(PrepareBegin \/ PrepareTimeout \/ Coordinator)
  BY DEF PrepareBegin, PrepareTimeout, Coordinator, PrepareIdle, Reopen, Invalidate, InvalidateDrop, RequestRebuild
<1>4. ~(QueryBegin \/ QueryAnswer \/ QueryEnd)
  BY DEF QueryBegin, QueryAnswer, QueryEnd
<1> QED BY <1>1, <1>2, <1>3, <1>4 DEF Next

\* A daemon goes down by a crash.
LEMMA DownStep ==
    ASSUME DeltaTypeOK, DownInv, [Next]_vars PROVE DownInv'
<1>1. CASE up
  <2>1. CASE Crash
    BY <2>1 DEF Crash, DownInv
  <2>2. CASE ~Crash
    <3>1. up'
      BY <1>1, <2>2, Frames DEF Start, StartDaemon
    <3> QED BY <3>1 DEF DownInv
  <2> QED BY <2>1, <2>2
<1>2. CASE ~up
  <2>1. CASE Start
    BY <2>1 DEF Start, StartDaemon, DownInv
  <2>2. CASE ~Start
    BY <1>2, <2>2, Down, Leaves DEF vars, DownInv
  <2> QED BY <2>1, <2>2
<1> QED BY <1>1, <1>2

\* Every step keeps the rounds.
LEMMA RoundStep ==
    ASSUME DeltaTypeOK, CoordInv, [Next]_vars
    PROVE  RoundInv'
<1>1. CASE FactCommit
  BY <1>1, Leaves DEF CoordInv, RoundInv
<1>2. CASE FactRetract
  BY <1>2, Leaves DEF CoordInv, RoundInv
<1>3. CASE ReplaceFacts
  BY <1>3, Leaves DEF CoordInv, RoundInv, DeltaTypeOK, FactTypes, ReplaceFacts
<1>4. CASE Start
  BY <1>4, Leaves DEF CoordInv, RoundInv, DeltaTypeOK, FactTypes, Start, StartDaemon
<1>5. CASE Crash
  BY <1>5, Leaves DEF CoordInv, RoundInv, DeltaTypeOK, FactTypes, Crash
<1>6. CASE WorkerRebuild
  BY <1>6, Leaves DEF CoordInv, RoundInv, DeltaTypeOK, FactTypes, WorkerRebuild, At
<1>7. CASE WorkerComplete
  BY <1>7, Leaves DEF CoordInv, RoundInv, DeltaTypeOK, FactTypes, WorkerComplete, At, TargetInv
<1>8. CASE PrepareBegin
  <2>1. coord = "serving" /\ coord' \in {"stopping", "prepared"} /\ (coord' = "prepared" => prepEpoch' = epoch)
    BY <1>8 DEF PrepareBegin
  <2>2. UNCHANGED <<epoch, pending>> /\ epoch \in 1..epoch
    BY <1>8, Leaves DEF DeltaTypeOK, FactTypes
  <2> QED BY <2>1, <2>2 DEF CoordInv, RoundInv
<1>9. CASE PrepareTimeout
  BY <1>9, Leaves DEF CoordInv, RoundInv, DeltaTypeOK, FactTypes, PrepareTimeout
<1>10. CASE PrepareIdle
  BY <1>10, Leaves DEF CoordInv, RoundInv, DeltaTypeOK, FactTypes, PrepareIdle
<1>11. CASE Reopen
  BY <1>11, Leaves DEF CoordInv, RoundInv, DeltaTypeOK, FactTypes, Reopen
<1>12. CASE Invalidate
  BY <1>12, Leaves DEF CoordInv, RoundInv, DeltaTypeOK, FactTypes, Invalidate
<1>13. CASE InvalidateDrop
  BY <1>13, Leaves DEF CoordInv, RoundInv, DeltaTypeOK, FactTypes, InvalidateDrop
<1>14. CASE RequestRebuild
  BY <1>14, Leaves DEF CoordInv, RoundInv, DeltaTypeOK, FactTypes, RequestRebuild
<1>15. CASE UNCHANGED <<epoch, log, coord, prepEpoch, pending>>
  BY <1>15 DEF CoordInv, RoundInv
<1> QED BY <1>1, <1>2, <1>3, <1>4, <1>5, <1>6, <1>7, <1>8, <1>9, <1>10, <1>11, <1>12, <1>13, <1>14, <1>15, Frames

\* Every step keeps the rebuild to its round.
LEMMA TargetStep ==
    ASSUME DeltaTypeOK, CoordInv, [Next]_vars
    PROVE  TargetInv'
<1>1. CASE Start
  BY <1>1, Leaves, LoopFields, Turns DEF CoordInv, TargetInv, Start, StartDaemon
<1>2. CASE Crash
  BY <1>2, Leaves, LoopFields, Turns DEF CoordInv, TargetInv, Crash
<1>3. CASE WorkerCycle
  BY <1>3, Leaves, Turns, LoopFields DEF CoordInv, RoundInv, TargetInv
<1>4. CASE WorkerIdentity
  BY <1>4, Leaves, Turns, LoopFields DEF CoordInv, RoundInv, TargetInv
<1>5. CASE WorkerChanges
  BY <1>5, Leaves, Turns, LoopFields DEF CoordInv, RoundInv, TargetInv
<1>6. CASE WorkerWrite
  BY <1>6, Leaves, Turns, LoopFields DEF CoordInv, RoundInv, TargetInv
<1>7. CASE WorkerPublish
  BY <1>7, Leaves, Turns, LoopFields DEF CoordInv, RoundInv, TargetInv
<1>8. CASE WorkerRepublish
  BY <1>8, Leaves, Turns, LoopFields DEF CoordInv, RoundInv, TargetInv
<1>9. CASE WorkerRecordBlock
  BY <1>9, Leaves, Turns, LoopFields DEF CoordInv, RoundInv, TargetInv
<1>10. CASE WorkerBlock
  BY <1>10, Leaves, Turns, LoopFields DEF CoordInv, RoundInv, TargetInv
<1>11. CASE WorkerRebuild
  BY <1>11, Leaves, LoopFields, Turns DEF CoordInv, TargetInv, WorkerRebuild, At
<1>12. CASE WorkerBuild
  BY <1>12, Leaves, Turns, LoopFields DEF CoordInv, RoundInv, TargetInv
<1>13. CASE WorkerRename
  BY <1>13, Leaves, Turns, LoopFields DEF CoordInv, RoundInv, TargetInv
<1>14. CASE WorkerInstall
  BY <1>14, Leaves, Turns, LoopFields DEF CoordInv, RoundInv, TargetInv
<1>15. CASE WorkerComplete
  BY <1>15, Leaves, LoopFields, Turns DEF CoordInv, TargetInv, WorkerComplete, At
<1>16. CASE WorkerSweep
  BY <1>16, Leaves, Turns, LoopFields DEF CoordInv, RoundInv, TargetInv
<1>17. CASE WorkerFault
  BY <1>17, Leaves, LoopFields, Turns DEF CoordInv, TargetInv, WorkerFault
<1>18. CASE PrepareBegin
  BY <1>18, Leaves, LoopFields, Turns DEF CoordInv, TargetInv, PrepareBegin
<1>19. CASE PrepareTimeout
  BY <1>19, Leaves, LoopFields, Turns DEF CoordInv, TargetInv, PrepareTimeout
<1>20. CASE PrepareIdle
  BY <1>20, Leaves, LoopFields, Turns DEF CoordInv, TargetInv, PrepareIdle
<1>21. CASE Reopen
  BY <1>21, Leaves, LoopFields, Turns DEF CoordInv, TargetInv, Reopen
<1>22. CASE Invalidate
  BY <1>22, Leaves, LoopFields, Turns DEF CoordInv, TargetInv, Invalidate
<1>23. CASE InvalidateDrop
  BY <1>23, Leaves, LoopFields, Turns DEF CoordInv, TargetInv, InvalidateDrop
<1>24. CASE RequestRebuild
  BY <1>24, Leaves, LoopFields, Turns DEF CoordInv, TargetInv, RequestRebuild
<1>25. CASE UNCHANGED <<coord, wk, pending>>
  BY <1>25 DEF CoordInv, TargetInv
<1> QED BY <1>1, <1>2, <1>3, <1>4, <1>5, <1>6, <1>7, <1>8, <1>9, <1>10, <1>11, <1>12, <1>13, <1>14, <1>15, <1>16,
    <1>17, <1>18, <1>19, <1>20, <1>21, <1>22, <1>23, <1>24, <1>25, Frames

\* Every step keeps the coordinator and the worker apart.
LEMMA CoordStep == ASSUME DeltaTypeOK, CoordInv, [Next]_vars PROVE CoordInv'
  BY DownStep, RoundStep, TargetStep DEF CoordInv

\* The coordinator does not mend a mirror it has dropped: a start, a crash and
\* the worker's install do.
LEMMA CleanStep ==
    ASSUME DeltaTypeOK, CoordInv, [Next]_vars, Clean'
    PROVE  Clean \/ Start \/ Crash \/ WorkerInstall
<1>1. CASE FactCommit
  BY <1>1, Leaves, Turns, LoopFields, ReplaceFields DEF Clean, FactCommit, Append1
<1>2. CASE FactRetract
  BY <1>2, Leaves, Turns, LoopFields, ReplaceFields DEF Clean, FactRetract, Append1
<1>3. CASE ReplaceFacts
  BY <1>3, Leaves, Turns, LoopFields, ReplaceFields DEF Clean, ReplaceFacts, CoordInv, RoundInv, TargetInv,
      FactTypes, DeltaTypeOK
<1>4. CASE Start
  BY <1>4
<1>5. CASE Crash
  BY <1>5
<1>6. CASE WorkerCycle
  BY <1>6, Leaves, Turns, LoopFields DEF Clean
<1>7. CASE WorkerIdentity
  BY <1>7, Leaves, Turns, LoopFields DEF Clean
<1>8. CASE WorkerChanges
  BY <1>8, Leaves, Turns, LoopFields DEF Clean
<1>9. CASE WorkerWrite
  BY <1>9, Leaves, Turns, LoopFields DEF Clean
<1>10. CASE WorkerPublish
  BY <1>10, Leaves, Turns, LoopFields DEF Clean
<1>11. CASE WorkerRepublish
  BY <1>11, Leaves, Turns, LoopFields DEF Clean
<1>12. CASE WorkerRecordBlock
  BY <1>12, Leaves, Turns, LoopFields DEF Clean
<1>13. CASE WorkerBlock
  BY <1>13, Leaves, Turns, LoopFields DEF Clean
<1>14. CASE WorkerRebuild
  BY <1>14, Leaves, Turns, LoopFields DEF Clean
<1>15. CASE WorkerBuild
  BY <1>15, Leaves, Turns, LoopFields DEF Clean
<1>16. CASE WorkerRename
  BY <1>16, Leaves, Turns, LoopFields DEF Clean
<1>17. CASE WorkerInstall
  BY <1>17
<1>18. CASE WorkerComplete
  BY <1>18, Leaves, Turns, LoopFields, ReplaceFields DEF Clean, WorkerComplete, At, CoordInv, RoundInv, TargetInv,
      FactTypes, DeltaTypeOK
<1>19. CASE WorkerSweep
  BY <1>19, Leaves, Turns, LoopFields DEF Clean
<1>20. CASE WorkerFault
  BY <1>20, Leaves, Turns, LoopFields DEF Clean
<1>21. CASE PrepareBegin
  BY <1>21, Leaves, Turns, LoopFields, ReplaceFields DEF Clean, PrepareBegin, CoordInv, RoundInv, TargetInv,
      FactTypes, DeltaTypeOK
<1>22. CASE PrepareTimeout
  BY <1>22, Leaves, Turns, LoopFields, ReplaceFields DEF Clean, PrepareTimeout
<1>23. CASE PrepareIdle
  BY <1>23, Leaves, Turns, LoopFields, ReplaceFields DEF Clean, PrepareIdle, CoordInv, RoundInv, TargetInv,
      FactTypes, DeltaTypeOK
<1>24. CASE Reopen
  BY <1>24, Leaves, Turns, LoopFields, ReplaceFields DEF Clean, Reopen, CoordInv, RoundInv, TargetInv, FactTypes,
      DeltaTypeOK
<1>25. CASE Invalidate
  BY <1>25, Leaves, Turns, LoopFields, ReplaceFields DEF Clean, Invalidate
<1>26. CASE InvalidateDrop
  BY <1>26, Leaves, Turns, LoopFields, ReplaceFields DEF Clean, InvalidateDrop
<1>27. CASE RequestRebuild
  BY <1>27, Leaves, Turns, LoopFields, ReplaceFields DEF Clean, RequestRebuild
<1>28. CASE UNCHANGED <<epoch, log, coord, wk>>
  BY <1>28 DEF Clean
<1> QED BY <1>1, <1>2, <1>3, <1>4, <1>5, <1>6, <1>7, <1>8, <1>9, <1>10, <1>11, <1>12, <1>13, <1>14, <1>15, <1>16,
    <1>17, <1>18, <1>19, <1>20, <1>21, <1>22, <1>23, <1>24, <1>25, <1>26, <1>27, <1>28, Frames


-----------------------------------------------------------------------------
(* The build.                                                              *)

\* Every step keeps the machine unpublished while the worker builds.
LEMMA BuildSnapStep ==
    ASSUME DeltaTypeOK, BuildInv, [Next]_vars
    PROVE  BuildSnap'
<1>1. CASE Start
  BY <1>1, Leaves, LoopFields, Turns DEF BuildInv, BuildSnap, Start, StartDaemon
<1>2. CASE Crash
  BY <1>2, Leaves, LoopFields, Turns DEF BuildInv, BuildSnap, Crash
<1>3. CASE WorkerCycle
  BY <1>3, Leaves, Turns, LoopFields DEF BuildInv, BuildSnap
<1>4. CASE WorkerIdentity
  BY <1>4, Leaves, Turns, LoopFields DEF BuildInv, BuildSnap
<1>5. CASE WorkerChanges
  BY <1>5, Leaves, Turns, LoopFields DEF BuildInv, BuildSnap
<1>6. CASE WorkerWrite
  BY <1>6, Leaves, Turns, LoopFields DEF BuildInv, BuildSnap
<1>7. CASE WorkerPublish
  BY <1>7, Leaves, Turns, LoopFields DEF BuildInv, BuildSnap
<1>8. CASE WorkerRepublish
  BY <1>8, Leaves, Turns, LoopFields DEF BuildInv, BuildSnap
<1>9. CASE WorkerRecordBlock
  BY <1>9, Leaves, Turns, LoopFields DEF BuildInv, BuildSnap
<1>10. CASE WorkerBlock
  BY <1>10, Leaves, Turns, LoopFields DEF BuildInv, BuildSnap
<1>11. CASE WorkerRebuild
  BY <1>11 DEF WorkerRebuild, BuildSnap
<1>12. CASE WorkerBuild
  BY <1>12, Leaves, Turns, LoopFields DEF BuildInv, BuildSnap
<1>13. CASE WorkerRename
  BY <1>13, Leaves, Turns, LoopFields DEF BuildInv, BuildSnap
<1>14. CASE WorkerInstall
  BY <1>14, Leaves, Turns, LoopFields DEF BuildInv, BuildSnap
<1>15. CASE WorkerComplete
  BY <1>15, Leaves, Turns, LoopFields DEF BuildInv, BuildSnap
<1>16. CASE WorkerSweep
  BY <1>16, Leaves, Turns, LoopFields DEF BuildInv, BuildSnap
<1>17. CASE WorkerFault
  BY <1>17, Leaves, Turns, LoopFields DEF BuildInv, BuildSnap
<1>18. CASE Invalidate
  BY <1>18, Leaves, LoopFields, Turns DEF BuildInv, BuildSnap, Invalidate
<1>19. CASE UNCHANGED <<snap, wk>>
  BY <1>19 DEF BuildInv, BuildSnap
<1> QED BY <1>1, <1>2, <1>3, <1>4, <1>5, <1>6, <1>7, <1>8, <1>9, <1>10, <1>11, <1>12, <1>13, <1>14, <1>15, <1>16,
    <1>17, <1>18, <1>19, Frames

\* An empty store of the first epoch is what the declared generation holds.
LEMMA TargetDeclared == ASSUME DeltaTypeOK, epoch = 1, Target # G0 PROVE Len(log) > 0
<1>1. Len(log) \in Nat
  BY DEF DeltaTypeOK, FactTypes
<1>2. Len(log) = 0 => Active(log, Len(log)) = {}
  BY EmptyWindow DEF Active
<1>3. Len(log) = 0 => Target = [epoch |-> 1, h0 |-> 0, rows |-> {}]
  BY <1>2 DEF Target
<1> QED BY <1>1, <1>3 DEF G0

\* Every step keeps the declared generation out of a first epoch's build.
LEMMA BuildGensStep ==
    ASSUME DeltaTypeOK, BuildInv, CoordInv, [Next]_vars
    PROVE  BuildGens'
<1>1. CASE FactCommit
  BY <1>1, AppendFields DEF BuildInv, BuildGens, DeltaTypeOK, FactTypes
<1>2. CASE FactRetract
  BY <1>2, AppendFields DEF BuildInv, BuildGens, DeltaTypeOK, FactTypes
<1>3. CASE ReplaceFacts
  BY <1>3, ReplaceFields DEF BuildInv, BuildGens, DeltaTypeOK, FactTypes
<1>4. CASE Start
  BY <1>4, Leaves, LoopFields, Turns DEF BuildInv, BuildGens, Start, StartDaemon
<1>5. CASE StartupSweep
  BY <1>5, Leaves, LoopFields, Turns DEF BuildInv, BuildGens, StartupSweep, SweptGens
<1>6. CASE Crash
  BY <1>6, Leaves, LoopFields, Turns DEF BuildInv, BuildGens, Crash
<1>7. CASE WorkerCycle
  BY <1>7, Leaves, Turns, LoopFields DEF BuildInv, BuildGens
<1>8. CASE WorkerIdentity
  BY <1>8, Leaves, Turns, LoopFields DEF BuildInv, BuildGens
<1>9. CASE WorkerChanges
  BY <1>9, Leaves, Turns, LoopFields DEF BuildInv, BuildGens
<1>10. CASE WorkerWrite
  BY <1>10, Leaves, Turns, LoopFields DEF BuildInv, BuildGens
<1>11. CASE WorkerPublish
  BY <1>11, Leaves, Turns, LoopFields DEF BuildInv, BuildGens
<1>12. CASE WorkerRepublish
  BY <1>12, Leaves, Turns, LoopFields DEF BuildInv, BuildGens
<1>13. CASE WorkerRecordBlock
  BY <1>13, Leaves, Turns, LoopFields DEF BuildInv, BuildGens
<1>14. CASE WorkerBlock
  BY <1>14, Leaves, Turns, LoopFields DEF BuildInv, BuildGens
<1>15. CASE WorkerRebuild
  <2>1. wk.target # 0 => epoch > 1
    BY <1>15, Turns DEF CoordInv, RoundInv, TargetInv
  <2> QED BY <1>15, <2>1, Leaves, Turns, Constants DEF BuildGens
<1>16. CASE WorkerBuild
  BY <1>16, Leaves, Turns, LoopFields, TargetTyped, TargetDeclared DEF BuildInv, BuildGens
<1>17. CASE WorkerRename
  BY <1>17, Leaves, Turns, LoopFields DEF WorkerRename, BuildInv, BuildGens
<1>18. CASE WorkerInstall
  BY <1>18, Leaves, Turns, LoopFields DEF BuildInv, BuildGens
<1>19. CASE WorkerComplete
  BY <1>19, Leaves, Turns, LoopFields DEF BuildInv, BuildGens
<1>20. CASE WorkerSweep
  BY <1>20, Leaves, Turns, LoopFields DEF BuildInv, BuildGens
<1>21. CASE WorkerFault
  BY <1>21, Leaves, Turns, LoopFields DEF BuildInv, BuildGens
<1>22. CASE UNCHANGED <<epoch, log, gens, wk>>
  BY <1>22 DEF BuildInv, BuildGens
<1> QED BY <1>1, <1>2, <1>3, <1>4, <1>5, <1>6, <1>7, <1>8, <1>9, <1>10, <1>11, <1>12, <1>13, <1>14, <1>15, <1>16,
    <1>17, <1>18, <1>19, <1>20, <1>21, <1>22, Frames

\* The files of other directories are what they were.
LEMMA FileAtKept ==
    ASSUME NEW p, p \in DOMAIN ckpt' => (p \in DOMAIN ckpt /\ ckpt'[p] = ckpt[p]) \/ ckpt'[p] = NoFile, Bare(FileAt(p))
    PROVE  Bare(FileAt(p))'
  BY LoopFields DEF FileAt, Bare

\* A directory of the target holds nothing but the target.
LEMMA TargetBare == ASSUME DeltaTypeOK, FileInv PROVE Bare(FileAt(Target))
<1>1. CASE Target \in DOMAIN ckpt /\ ckpt[Target] # NoFile
  <2> DEFINE c == ckpt[Target]
  <2>1. FileOK(Target, c) /\ c.base \in Gen /\ c.consumed \in Nat
    BY <1>1, FilePlaces DEF FileInv
  <2>2. Len(log) \in Nat /\ epoch \in Nat /\ Target.epoch = epoch /\ Target.h0 = Len(log)
    BY TargetSound DEF DeltaTypeOK, FactTypes
  <2>3. c.base.h0 \in Nat /\ c.base.epoch \in 1..MaxEpoch
    BY <2>1, GenFields DEF Gen
  <2>4. c.epoch = epoch /\ c.base.h0 = Len(log)
    <3>1. CASE Target # G0
      BY <2>1, <2>2, <3>1 DEF FileOK
    <3>2. CASE Target = G0
      <4>1. epoch = 1 /\ Len(log) = 0
        BY <2>2, <3>2, LoopFields
      <4>2. c.base.epoch = epoch /\ c.epoch = epoch
        BY <2>1, <2>3, <4>1 DEF FileOK, Sound
      <4> QED BY <2>1, <2>3, <4>1, <4>2 DEF FileOK, Sound
    <3> QED BY <3>1, <3>2
  <2>5. c.consumed = c.base.h0
    BY <2>1, <2>2, <2>3, <2>4 DEF FileOK
  <2> QED BY <1>1, <2>1, <2>5 DEF FileOK, FileAt
<1>2. CASE ~(Target \in DOMAIN ckpt /\ ckpt[Target] # NoFile)
  BY <1>2, LoopFields DEF FileAt, Bare
<1> QED BY <1>1, <1>2

\* Every step keeps the directory the worker builds for empty.
LEMMA BuildFileStep ==
    ASSUME DeltaTypeOK, FileInv, PathInv, BuildInv, CoordInv, [Next]_vars
    PROVE  BuildFile'
<1>1. CASE Start
  BY <1>1, Leaves, LoopFields, Turns DEF BuildInv, BuildFile, Start, StartDaemon
<1>2. CASE StartupSweep
  <2>1. UNCHANGED wk /\ \A p \in DOMAIN ckpt' : p \in DOMAIN ckpt /\ ckpt'[p] = ckpt[p]
    BY <1>2, Leaves, FilesLeft DEF StartupSweep
  <2> QED BY <2>1, LoopFields DEF BuildInv, BuildFile, FileAt, Bare
<1>3. CASE Crash
  BY <1>3, Leaves, LoopFields, Turns DEF BuildInv, BuildFile, Crash
<1>4. CASE WorkerCycle
  BY <1>4, Leaves, Turns, LoopFields DEF BuildInv, BuildFile
<1>5. CASE WorkerIdentity
  BY <1>5, Leaves, Turns, LoopFields DEF BuildInv, BuildFile
<1>6. CASE WorkerChanges
  BY <1>6, Leaves, Turns, LoopFields DEF BuildInv, BuildFile
<1>7. CASE WorkerWrite
  BY <1>7, Leaves, Turns, LoopFields DEF BuildInv, BuildFile
<1>8. CASE WorkerPublish
  BY <1>8, Leaves, Turns, LoopFields DEF BuildInv, BuildFile
<1>9. CASE WorkerRepublish
  BY <1>9, Leaves, Turns, LoopFields DEF BuildInv, BuildFile
<1>10. CASE WorkerRecordBlock
  BY <1>10, Leaves, Turns, LoopFields DEF BuildInv, BuildFile
<1>11. CASE WorkerBlock
  BY <1>11, Leaves, Turns, LoopFields DEF BuildInv, BuildFile
<1>12. CASE WorkerRebuild
  <2>1. CASE wk'.pc = "install"
    <3>0. wk.pc = "rebuild" /\ wk'.gen = G0 /\ G0 \in gens /\ (wk.target = 0 => epoch = 1) /\ wk.target \in {0, 1}
      BY <1>12, <2>1, Turns
    <3>1. G0 \in gens /\ epoch = 1 /\ ckpt' = Dropped(path)
      BY <1>12, <3>0 DEF WorkerRebuild, CoordInv, TargetInv
    <3>2. path = G0
      BY <3>1 DEF PathInv, PathFirst
    <3>3. FileAt(G0)' = NoFile
      BY <3>1, <3>2 DEF FileAt, Dropped
    <3> QED BY <3>0, <3>3, LoopFields DEF BuildFile, Bare
  <2>2. CASE wk'.pc # "install"
    BY <1>12, <2>2, Turns DEF BuildFile
  <2> QED BY <2>1, <2>2
<1>13. CASE WorkerBuild
  <2>1. ckpt' = ckpt
    BY <1>13, Leaves
  <2>2. wk'.pc \in {"rename", "install"} => wk'.gen = Target
    BY <1>13, Turns, LoopFields
  <2>3. Bare(FileAt(Target))
    BY TargetBare
  <2> QED BY <2>1, <2>2, <2>3 DEF BuildFile, FileAt, Bare
<1>14. CASE WorkerRename
  <2>1. ckpt' = ckpt
    BY <1>14, Leaves
  <2>2. wk'.pc \in {"rename", "install"} => wk'.gen = wk.gen /\ wk.pc = "rename"
    BY <1>14, Turns, LoopFields
  <2> QED BY <2>1, <2>2 DEF BuildInv, BuildFile, FileAt, Bare
<1>15. CASE WorkerInstall
  BY <1>15, Leaves, Turns, LoopFields DEF BuildInv, BuildFile
<1>16. CASE WorkerComplete
  BY <1>16, Leaves, Turns, LoopFields DEF BuildInv, BuildFile
<1>17. CASE WorkerSweep
  BY <1>17, Leaves, Turns, LoopFields DEF BuildInv, BuildFile
<1>18. CASE WorkerFault
  BY <1>18, Leaves, Turns, LoopFields DEF BuildInv, BuildFile
<1>19. CASE RetryClean
  <2>1. wk' = wk /\ DOMAIN ckpt' = DOMAIN ckpt
    BY <1>19, Leaves DEF RetryClean
  <2>2. \A p \in DOMAIN ckpt : ckpt'[p].rows = ckpt[p].rows /\ ckpt'[p].tombs = ckpt[p].tombs
    <3> SUFFICES ASSUME NEW p \in DOMAIN ckpt PROVE ckpt'[p].rows = ckpt[p].rows /\ ckpt'[p].tombs = ckpt[p].tombs
      OBVIOUS
    <3>1. ckpt'[p] = ckpt[p] \/ (ckpt[p] # NoFile /\ ckpt'[p] = [ckpt[p] EXCEPT !.blocked = FALSE])
      BY <1>19 DEF RetryClean, FileAt
    <3>2. ckpt[p] # NoFile => ckpt[p] \in Checkpoint
      BY FilePlaces
    <3> QED BY <3>1, <3>2 DEF Checkpoint
  <2> QED BY <2>1, <2>2 DEF BuildInv, BuildFile, FileAt, Bare
<1>20. CASE InvalidateDrop
  BY <1>20, Leaves,  FileAtKept DEF InvalidateDrop, Dropped, BuildInv, BuildFile
<1>21. CASE UNCHANGED <<ckpt, wk>>
  BY <1>21 DEF BuildInv, BuildFile, FileAt, Bare
<1> QED BY <1>1, <1>2, <1>3, <1>4, <1>5, <1>6, <1>7, <1>8, <1>9, <1>10, <1>11, <1>12, <1>13, <1>14, <1>15, <1>16,
    <1>17, <1>18, <1>19, <1>20, <1>21, Frames

\* Every step keeps the build.
LEMMA BuildStep == ASSUME DeltaInv, [Next]_vars PROVE BuildInv'
  BY BuildSnapStep, BuildGensStep, BuildFileStep DEF DeltaInv, BuildInv

-----------------------------------------------------------------------------
(* The checkpoint directory of the machine.                                *)

\* What a start makes of the machine and of its directory.
LEMMA Starts ==
    ASSUME Start
    PROVE  /\ path' = G0 /\ wk' = Loop /\ coord' = "serving" /\ pending' = 0 /\ query' = NoQuery
           /\ \/ gen' = NoGen /\ mirror' = NoMirror /\ snap' = NoSnap
              \/ gen' \in {G0, Target} /\ StartWith(gen') /\ (gen' = G0 => G0.epoch = epoch)
  BY DEF Start, StartDaemon, StartOpen, StartBuild, StartBlocked, StartRefused, StartEmpty, StartWith, Target

\* The mirror of a start is what the checkpoint in its directory holds.
LEMMA StartFile ==
    ASSUME NEW g, StartWith(g) PROVE G0 \in DOMAIN ckpt' => ckpt'[G0].rows = mirror'.rows /\ ckpt'[G0].tombs = mirror'.tombs
<1> DEFINE c == FileAt(G0)
<1>1. CASE Loads(c, g)
  <2>1. mirror' = MirrorOf(c) /\ ckpt' = WithDir(ckpt, G0)
    BY <1>1 DEF StartWith
  <2>2. ckpt'[G0] = c
    BY <1>1, <2>1 DEF Loads, Accepts, FileAt, WithDir
  <2> QED BY <2>1, <2>2 DEF MirrorOf
<1>2. CASE ~Loads(c, g)
  <2>1. mirror' = FreshMirror(g) /\ ckpt' = WithDir(Dropped(G0), G0)
    BY <1>2 DEF StartWith
  <2>2. ckpt'[G0] = NoFile
    BY <2>1 DEF Dropped, WithDir
  <2> QED BY <2>1, <2>2, LoopFields DEF FreshMirror, NoMirror
<1> QED BY <1>1, <1>2

\* Every step keeps the directory and the mirror together.
LEMMA PathFileStep ==
    ASSUME DeltaTypeOK, PathInv, BatchInv, BuildInv, [Next]_vars
    PROVE  PathFile'
<1>1. CASE Start
  BY <1>1, Starts, StartFile DEF PathFile
<1>2. CASE StartupSweep
  BY <1>2, Leaves DEF StartupSweep, SweptCkpt, PathInv, PathFile
<1>3. CASE Crash
  BY <1>3, Leaves, LoopFields DEF PathInv, PathFile, Crash
<1>4. CASE WorkerWrite
  <2>1. gen # NoGen /\ gen' = gen /\ path' = path
    BY <1>4, Leaves, Turns DEF BatchInv, BatchWindow
  <2>2. CASE ckpt' = ckpt /\ mirror' = mirror
    BY <2>1, <2>2 DEF PathInv, PathFile
  <2>3. CASE ~(ckpt' = ckpt /\ mirror' = mirror)
    <3> DEFINE f == [base |-> gen, epoch |-> wk.epoch, consumed |-> wk.hi, rows |-> FileAt(path).rows \cup wk.rows,
                     tombs |-> FileAt(path).tombs \cup wk.tombs, blocked |-> FileAt(path).blocked]
    <3>1. /\ path \in DOMAIN ckpt /\ ckpt' = [ckpt EXCEPT ![path] = f]
          /\ mirror' = [consumed |-> wk.hi, rows |-> mirror.rows \cup wk.rows, tombs |-> mirror.tombs \cup wk.tombs]
      BY <1>4, <2>3 DEF WorkerWrite
    <3>2. FileAt(path).rows = mirror.rows /\ FileAt(path).tombs = mirror.tombs
      BY <2>1, <3>1 DEF PathInv, PathFile, FileAt
    <3>3. ckpt'[path] = f
      BY <3>1
    <3> QED BY <2>1, <3>1, <3>2, <3>3 DEF PathFile
  <2> QED BY <2>2, <2>3
<1>5. CASE WorkerRecordBlock
  <2>1. UNCHANGED <<gen, path, mirror>>
    BY <1>5, Leaves
  <2>2. CASE ckpt' = ckpt
    BY <2>1, <2>2 DEF PathInv, PathFile
  <2>3. CASE ckpt' # ckpt
    <3> DEFINE f == [base |-> gen, epoch |-> gen.epoch, consumed |-> mirror.consumed, rows |-> FileAt(path).rows,
                     tombs |-> FileAt(path).tombs, blocked |-> TRUE]
    <3>1. path \in DOMAIN ckpt /\ ckpt' = [ckpt EXCEPT ![path] = f] /\ FileAt(path) = ckpt[path]
      BY <1>5, <2>3 DEF WorkerRecordBlock, FileAt
    <3>2. ckpt'[path] = f /\ f.rows = ckpt[path].rows /\ f.tombs = ckpt[path].tombs
      BY <3>1
    <3> HIDE DEF f
    <3> QED BY <2>1, <3>1, <3>2 DEF PathInv, PathFile
  <2> QED BY <2>2, <2>3
<1>6. CASE WorkerRebuild
  BY <1>6, Leaves, LoopFields DEF WorkerRebuild, Dropped, PathFile
<1>7. CASE WorkerInstall
  <2>1. path' = wk.gen /\ ckpt' = WithDir(ckpt, wk.gen) /\ mirror' = FreshMirror(wk.gen)
    BY <1>7 DEF WorkerInstall
  <2>2. Bare(FileAt(wk.gen)) /\ wk.gen \in Gen
    BY <1>7, Turns DEF BuildInv, BuildFile, BuildGens
  <2>3. ckpt'[wk.gen] = FileAt(wk.gen)
    BY <2>1 DEF WithDir, FileAt
  <2>4. mirror'.rows = {} /\ mirror'.tombs = {}
    BY <2>1, LoopFields DEF FreshMirror, NoMirror
  <2> QED BY <2>1, <2>2, <2>3, <2>4 DEF PathFile, Bare
<1>8. CASE WorkerSweep
  BY <1>8, Leaves DEF WorkerSweep, SweptCkpt, PathInv, PathFile
<1>9. CASE RetryClean
  <2>1. UNCHANGED <<gen, path, mirror>> /\ DOMAIN ckpt' = DOMAIN ckpt
    BY <1>9, Leaves DEF RetryClean
  <2>2. path \in DOMAIN ckpt => ckpt'[path].rows = ckpt[path].rows /\ ckpt'[path].tombs = ckpt[path].tombs
    <3> SUFFICES ASSUME path \in DOMAIN ckpt PROVE ckpt'[path].rows = ckpt[path].rows /\ ckpt'[path].tombs = ckpt[path].tombs
      OBVIOUS
    <3>1. ckpt'[path] = ckpt[path] \/ (ckpt[path] # NoFile /\ ckpt'[path] = [ckpt[path] EXCEPT !.blocked = FALSE])
      BY <1>9 DEF RetryClean, FileAt
    <3>2. ckpt[path] # NoFile => ckpt[path] \in Checkpoint
      BY FilePlaces
    <3> QED BY <3>1, <3>2 DEF Checkpoint
  <2> QED BY <2>1, <2>2 DEF PathInv, PathFile
<1>10. CASE InvalidateDrop
  BY <1>10, Leaves, LoopFields DEF InvalidateDrop, Dropped, PathFile
<1>11. CASE UNCHANGED <<gen, path, mirror, ckpt>>
  BY <1>11 DEF PathInv, PathFile
<1> QED BY <1>1, <1>2, <1>3, <1>4, <1>5, <1>6, <1>7, <1>8, <1>9, <1>10, <1>11, Frames

\* Every step keeps the machine's directory.
LEMMA PathStep ==
    ASSUME DeltaInv, [Next]_vars
    PROVE  PathInv'
<1>0. PathFile' /\ DeltaTypeOK
  BY PathFileStep DEF DeltaInv
<1>1. CASE FactCommit
  BY <1>1, <1>0, AppendFields, Leaves DEF DeltaInv, PathInv, PathGen, PathFirst
<1>2. CASE FactRetract
  BY <1>2, <1>0, AppendFields, Leaves DEF DeltaInv, PathInv, PathGen, PathFirst
<1>3. CASE ReplaceFacts
  BY <1>3, <1>0, ReplaceFields DEF DeltaInv, PathInv, PathGen, PathFirst
<1>4. CASE Start
  BY <1>4, <1>0, Starts DEF PathInv, PathGen, PathFirst
<1>5. CASE StartupSweep
  BY <1>5, <1>0, Leaves DEF DeltaInv, PathInv, PathGen, PathFirst, StartupSweep, SweptGens
<1>6. CASE Crash
  BY <1>6, <1>0 DEF Crash, PathInv, PathGen, PathFirst
<1>7. CASE WorkerRename
  <2>1. UNCHANGED <<epoch, log, gen, path>> /\ gens' \subseteq gens \cup {wk.gen} /\ (gens' # gens => wk.gen.h0 = Len(log))
    BY <1>7, Leaves DEF WorkerRename
  <2> QED BY <1>0, <2>1, LoopFields DEF DeltaInv, PathInv, PathGen, PathFirst
<1>8. CASE WorkerInstall
  <2>1. UNCHANGED <<epoch, log, gens>> /\ gen' = wk.gen /\ path' = wk.gen /\ wk.pc = "install"
    BY <1>8, <1>0, Leaves, Turns DEF WorkerInstall
  <2> QED BY <1>0, <2>1 DEF DeltaInv, BuildInv, BuildGens, PathInv, PathGen, PathFirst
<1>9. CASE WorkerSweep
  BY <1>9, <1>0, Leaves DEF DeltaInv, PathInv, PathGen, PathFirst, WorkerSweep, SweptGens
<1>10. CASE UNCHANGED <<epoch, log, gens, gen, path>>
  BY <1>10, <1>0 DEF DeltaInv, PathInv, PathGen, PathFirst
<1> QED BY <1>1, <1>2, <1>3, <1>4, <1>5, <1>6, <1>7, <1>8, <1>9, <1>10, Frames


-----------------------------------------------------------------------------
(* The mirror, the snapshot and the queries.                               *)

\* The declared generation is sound.
LEMMA DeclaredSound == ASSUME DeltaTypeOK PROVE Sound(G0)
<1>1. Active(log, 0) = {} /\ Len(log) \in Nat /\ epoch \in Nat /\ epoch >= 1
  BY EmptyWindow DEF Active, DeltaTypeOK, FactTypes
<1> QED BY <1>1, LoopFields DEF Sound

\* A fresh mirror projects to the facts.
LEMMA FreshExact ==
    ASSUME DeltaTypeOK, NEW g \in Gen, Sound(g)
    PROVE  /\ FreshMirror(g).consumed = g.h0 /\ g.h0 \in Nat /\ Bare(FreshMirror(g))
           /\ g.epoch = epoch => g.h0 <= Len(log) /\ Exact(g, FreshMirror(g))
<1>1. FreshMirror(g) = [consumed |-> g.h0, rows |-> {}, tombs |-> {}] /\ g.h0 \in Nat
  BY MirrorsTyped, GenFields
<1> QED BY <1>1 DEF Bare, Exact, Sound

\* A checkpoint the constructor loads projects to the facts, whether or not it
\* verifies it.
LEMMA LoadedExact ==
    ASSUME DeltaTypeOK, FileInv, NEW g \in {G0, Target}, Sound(g), g.epoch = epoch, Loads(FileAt(G0), g)
    PROVE  LET m == MirrorOf(FileAt(G0))
           IN  /\ m.consumed \in 0..Len(log) /\ g.h0 <= m.consumed /\ (m.consumed = g.h0 => Bare(m))
               /\ m.tombs \subseteq RetractionsIn(log, 0, m.consumed) /\ Exact(g, m)
<1> DEFINE c == FileAt(G0)
<1>1. /\ c # NoFile /\ c.base = g /\ c.epoch = epoch /\ g.h0 <= c.consumed /\ c.consumed <= Len(log)
      /\ c.blocked \/ Snapshot(g, MirrorOf(c)).active = Active(log, c.consumed)
  BY DEF Loads, Accepts
<1>2. FileOK(G0, c) /\ c.consumed \in Nat
  BY <1>1, FilePlaces DEF FileAt, FileInv
<1>3. MirrorOf(c).consumed = c.consumed /\ MirrorOf(c).rows = c.rows /\ MirrorOf(c).tombs = c.tombs
  BY DEF MirrorOf
<1>4. (g.rows \cup c.rows) \ c.tombs = Active(log, c.consumed)
  <2>1. CASE epoch = 1
    BY <1>1, <1>2, <2>1 DEF FileOK, Exact
  <2>2. CASE g = Target
    <3>1. c.consumed = g.h0 /\ g.rows = Active(log, g.h0)
      BY <1>1, <1>2, <2>2, TargetSound DEF DeltaTypeOK, FactTypes
    <3> QED BY <1>1, <1>2, <3>1 DEF FileOK, Bare
  <2> QED BY <2>1, <2>2, LoopFields
<1> HIDE DEF c
<1>5. c.tombs \subseteq RetractionsIn(log, 0, c.consumed) /\ (c.consumed = g.h0 => Bare(c))
  BY <1>1, <1>2 DEF FileOK
<1>6. c.consumed \in 0..Len(log)
  BY <1>1, <1>2 DEF DeltaTypeOK, FactTypes
<1> QED BY <1>1, <1>3, <1>4, <1>5, <1>6 DEF Exact, Bare, c

\* A start comes up with a machine that projects to the facts, or with none.
LEMMA StartExact ==
    ASSUME DeltaTypeOK, FileInv, Start
    PROVE  \/ gen' = NoGen /\ mirror' = NoMirror /\ snap' = NoSnap
           \/ /\ gen' \in Gen /\ gen'.epoch = epoch /\ snap' = Snapshot(gen', mirror')
              /\ mirror'.consumed \in 0..Len(log) /\ gen'.h0 <= mirror'.consumed /\ (mirror'.consumed = gen'.h0 => Bare(mirror'))
              /\ mirror'.tombs \subseteq RetractionsIn(log, 0, mirror'.consumed)
              /\ (gen'.rows \cup mirror'.rows) \ mirror'.tombs = Active(log, mirror'.consumed)
<1>1. CASE gen' = NoGen /\ mirror' = NoMirror /\ snap' = NoSnap
  BY <1>1
<1>2. CASE gen' \in {G0, Target} /\ StartWith(gen') /\ (gen' = G0 => G0.epoch = epoch)
  <2> DEFINE g == gen'
  <2>1. g \in Gen /\ Sound(g) /\ g.epoch = epoch
    BY <1>2, TargetTyped, TargetSound, DeclaredSound, Constants
  <2>2. snap' = Snapshot(g, mirror') /\ mirror' = IF Loads(FileAt(G0), g) THEN MirrorOf(FileAt(G0)) ELSE FreshMirror(g)
    BY <1>2 DEF StartWith
  <2>3. CASE Loads(FileAt(G0), g)
    BY <1>2, <2>1, <2>2, <2>3, LoadedExact DEF Exact
  <2>4. CASE ~Loads(FileAt(G0), g)
    <3>1. mirror' = FreshMirror(g)
      BY <2>2, <2>4
    <3>2. g.h0 \in 0..Len(log)
      BY <2>1, FreshExact DEF DeltaTypeOK, FactTypes
    <3> QED BY <2>1, <2>2, <3>1, <3>2, FreshExact DEF Exact, Bare
  <2> QED BY <2>3, <2>4
<1> QED BY <1>1, <1>2, Starts

\* What a committed batch makes of the mirror.
LEMMA BatchMirrors ==
    ASSUME DeltaInv, WorkerWrite, mirror' # mirror
    PROVE  /\ mirror'.consumed = wk.hi /\ wk.lo \in Nat /\ wk.hi \in Nat /\ wk.lo < wk.hi /\ gen # NoGen /\ gen.h0 < wk.hi
           /\ gen.epoch = epoch =>
                 /\ wk.hi <= Len(log) /\ mirror'.tombs \subseteq RetractionsIn(log, 0, wk.hi)
                 /\ mirror.consumed = wk.lo /\ Exact(gen, mirror) =>
                       (gen.rows \cup mirror'.rows) \ mirror'.tombs = Active(log, wk.hi)
<1>1. /\ wk.pc = "write"
      /\ mirror' = [consumed |-> wk.hi, rows |-> mirror.rows \cup wk.rows, tombs |-> mirror.tombs \cup wk.tombs]
  BY DEF WorkerWrite, At
<1>2. DeltaTypeOK /\ LogInv /\ BatchWindow /\ BatchRows /\ MirrorNone /\ MirrorFits
  BY DEF DeltaInv, BatchInv, MirrorInv
<1>3. wk.lo \in Nat /\ wk.hi \in Nat /\ wk.lo < wk.hi /\ gen # NoGen /\ gen.h0 <= wk.lo /\ gen.h0 \in Nat
  BY <1>1, <1>2, BoundsAssumption, GenFields DEF BatchWindow, DeltaTypeOK, MachineTypes, Cycles
<1>4. ASSUME gen.epoch = epoch
      PROVE  /\ wk.hi <= Len(log) /\ mirror'.tombs \subseteq RetractionsIn(log, 0, wk.hi)
             /\ mirror.consumed = wk.lo /\ Exact(gen, mirror) =>
                   (gen.rows \cup mirror'.rows) \ mirror'.tombs = Active(log, wk.hi)
  <2>1. /\ wk.hi <= Len(log) /\ wk.tombs = RetractionsIn(log, wk.lo, wk.hi)
        /\ wk.rows = CommitsIn(log, wk.lo, wk.hi) \ wk.tombs
    BY <1>1, <1>2, <1>4 DEF BatchWindow, BatchRows
  <2>2. RetractionsIn(log, 0, wk.hi) = RetractionsIn(log, 0, wk.lo) \cup RetractionsIn(log, wk.lo, wk.hi)
    BY <1>3, WindowSplit
  <2>3. mirror.consumed = wk.lo \/ (mirror = NoMirror /\ ~Clean)
    BY <1>1, <1>2 DEF BatchWindow
  <2>4. mirror.tombs \subseteq RetractionsIn(log, 0, wk.lo)
    BY <1>2, <1>3, <1>4, <2>3, LoopFields DEF MirrorFits
  <2>5. mirror'.tombs \subseteq RetractionsIn(log, 0, wk.hi)
    BY <1>1, <2>1, <2>2, <2>4
  <2>6. ASSUME mirror.consumed = wk.lo, Exact(gen, mirror)
        PROVE  (gen.rows \cup mirror'.rows) \ mirror'.tombs = Active(log, wk.hi)
    <3>2. log \in Seq(Change) /\ wk.lo <= wk.hi
      BY <1>2, <1>3 DEF DeltaTypeOK, FactTypes
    <3>3. (gen.rows \cup (mirror.rows \cup wk.rows)) \ (mirror.tombs \cup wk.tombs) = Active(log, wk.hi)
      BY <1>2, <1>3, <2>1, <2>4, <2>6, <3>2, BatchExact
    <3> QED BY <1>1, <3>3
  <2> QED BY <2>1, <2>5, <2>6
<1> QED BY <1>1, <1>3, <1>4

\* Every step keeps the mirror.
LEMMA MirrorStep ==
    ASSUME DeltaInv, [Next]_vars
    PROVE  MirrorInv'
<1>0. /\ DeltaTypeOK /\ GensInv /\ FileInv /\ MirrorInv /\ BatchInv /\ BuildInv
      /\ Clean' => Clean \/ Start \/ Crash \/ WorkerInstall
  BY CleanStep DEF DeltaInv
<1>1. CASE FactCommit
  <2>1. gen.h0 \in Nat /\ mirror.consumed \in -1..MaxLog
    BY <1>0, GenFields DEF DeltaTypeOK, MachineTypes, Mirrors
  <2>2. UNCHANGED <<epoch, gen, mirror, coord, wk>> /\ Len(log') = Len(log) + 1 /\ Len(log) \in Nat
    BY <1>0, <1>1, AppendFields
  <2>3. mirror.consumed # -1 /\ mirror.consumed <= Len(log) =>
            /\ RetractionsIn(log', 0, mirror.consumed) = RetractionsIn(log, 0, mirror.consumed)
            /\ Active(log', mirror.consumed) = Active(log, mirror.consumed)
    BY <1>0, <1>1, <2>1, AppendFields
  <2>4. Clean' = Clean
    BY <2>2 DEF Clean
  <2> QED BY <1>0, <2>1, <2>2, <2>3, <2>4 DEF MirrorInv, MirrorNone, MirrorFits, Exact, Bare
<1>2. CASE FactRetract
  <2>1. gen.h0 \in Nat /\ mirror.consumed \in -1..MaxLog
    BY <1>0, GenFields DEF DeltaTypeOK, MachineTypes, Mirrors
  <2>2. UNCHANGED <<epoch, gen, mirror, coord, wk>> /\ Len(log') = Len(log) + 1 /\ Len(log) \in Nat
    BY <1>0, <1>2, AppendFields
  <2>3. mirror.consumed # -1 /\ mirror.consumed <= Len(log) =>
            /\ RetractionsIn(log', 0, mirror.consumed) = RetractionsIn(log, 0, mirror.consumed)
            /\ Active(log', mirror.consumed) = Active(log, mirror.consumed)
    BY <1>0, <1>2, <2>1, AppendFields
  <2>4. Clean' = Clean
    BY <2>2 DEF Clean
  <2> QED BY <1>0, <2>1, <2>2, <2>3, <2>4 DEF MirrorInv, MirrorNone, MirrorFits, Exact, Bare
<1>3. CASE ReplaceFacts
  <2>1. gen.epoch <= epoch /\ gen.epoch \in Nat /\ epoch \in Nat
    BY <1>0, GenFields DEF GensInv, Sound, DeltaTypeOK, MachineTypes, FactTypes
  <2> QED BY <1>0, <1>3, <2>1, ReplaceFields DEF MirrorInv, MirrorNone, MirrorFits, Bare
<1>4. CASE Start
  <2>1. UNCHANGED <<epoch, log>>
    BY <1>4, Leaves
  <2> QED BY <1>0, <1>4, <2>1, StartExact, LoopFields, GenFields DEF MirrorInv, MirrorNone, MirrorFits, Exact
<1>5. CASE Crash
  BY <1>5, LoopFields DEF Crash, MirrorInv, MirrorNone, MirrorFits
<1>6. CASE WorkerWrite
  <2>1. UNCHANGED <<epoch, log, gen>> /\ (Clean' => Clean)
    BY <1>0, <1>6, Leaves, Turns, LoopFields DEF Clean
  <2>2. CASE mirror' = mirror
    BY <1>0, <2>1, <2>2 DEF MirrorInv, MirrorNone, MirrorFits, Exact, Bare
  <2>3. CASE mirror' # mirror
    <3>1. gen.h0 \in Nat
      BY <1>0, GenFields DEF DeltaTypeOK, MachineTypes
    <3>2. Clean /\ gen.epoch = epoch => mirror.consumed = wk.lo /\ Exact(gen, mirror)
      <4>1. wk.pc = "write" /\ wk.lo # -1
        BY <1>0, <1>6, Turns, BoundsAssumption DEF DeltaTypeOK, Cycles
      <4> QED BY <1>0, <4>1 DEF BatchInv, BatchWindow, MirrorInv, MirrorFits
    <3> QED BY <1>6, <2>1, <2>3, <3>1, <3>2, BatchMirrors DEF MirrorInv, MirrorNone, MirrorFits, Exact
  <2> QED BY <2>2, <2>3
<1>7. CASE WorkerRebuild
  BY <1>7, LoopFields DEF WorkerRebuild, MirrorInv, MirrorNone, MirrorFits
<1>8. CASE WorkerInstall
  <2>1. gen' = wk.gen /\ mirror' = FreshMirror(wk.gen) /\ UNCHANGED <<epoch, log>>
    BY <1>8, Leaves DEF WorkerInstall
  <2>2. wk.gen \in Gen /\ Sound(wk.gen)
    BY <1>0, <1>8, Turns DEF BuildInv, BuildGens, GensInv
  <2> QED BY <1>0, <2>1, <2>2, FreshExact, GenFields DEF MirrorInv, MirrorNone, MirrorFits, Exact, Bare
<1>9. CASE InvalidateDrop
  BY <1>9, LoopFields DEF InvalidateDrop, MirrorInv, MirrorNone, MirrorFits
<1>10. CASE UNCHANGED <<epoch, log, gen, path, mirror>> /\ ~(Start \/ Crash \/ WorkerInstall)
  BY <1>0, <1>10 DEF MirrorInv, MirrorNone, MirrorFits, Exact, Bare
<1> QED BY <1>1, <1>2, <1>3, <1>4, <1>5, <1>6, <1>7, <1>8, <1>9, <1>10, Frames


\* Every step keeps the epoch the cycle compares.
LEMMA BatchEpochStep ==
    ASSUME DeltaTypeOK, BatchInv, SnapInv, [Next]_vars
    PROVE  BatchEpoch'
<1>1. CASE Start
  BY <1>1, Starts, LoopFields DEF BatchEpoch
<1>2. CASE Crash
  BY <1>2, Leaves, LoopFields DEF BatchInv, BatchEpoch, Crash
<1>3. CASE WorkerCycle
  <2>1. gen' = gen /\ (wk'.pc = "identity" => wk'.epoch = snap.epoch)
    BY <1>3, Leaves, Turns, LoopFields
  <2> QED BY <2>1, LoopFields DEF SnapInv, SnapEpoch, BatchEpoch
<1>4. CASE WorkerIdentity
  BY <1>4, Leaves, Turns, LoopFields DEF BatchInv, BatchEpoch
<1>5. CASE WorkerChanges
  BY <1>5, Leaves, Turns, LoopFields DEF BatchInv, BatchEpoch
<1>6. CASE WorkerWrite
  BY <1>6, Leaves, Turns, LoopFields DEF BatchInv, BatchEpoch
<1>7. CASE WorkerPublish
  BY <1>7, Leaves, Turns, LoopFields DEF BatchInv, BatchEpoch
<1>8. CASE WorkerRepublish
  BY <1>8, Leaves, Turns, LoopFields DEF BatchInv, BatchEpoch
<1>9. CASE WorkerRecordBlock
  BY <1>9, Leaves, Turns, LoopFields DEF BatchInv, BatchEpoch
<1>10. CASE WorkerBlock
  BY <1>10, Leaves, Turns, LoopFields DEF BatchInv, BatchEpoch
<1>11. CASE WorkerRebuild
  BY <1>11, Leaves, Turns, LoopFields DEF BatchInv, BatchEpoch
<1>12. CASE WorkerBuild
  BY <1>12, Leaves, Turns, LoopFields DEF BatchInv, BatchEpoch
<1>13. CASE WorkerRename
  BY <1>13, Leaves, Turns, LoopFields DEF BatchInv, BatchEpoch
<1>14. CASE WorkerInstall
  BY <1>14, Leaves, Turns, LoopFields DEF BatchInv, BatchEpoch
<1>15. CASE WorkerComplete
  BY <1>15, Leaves, Turns, LoopFields DEF BatchInv, BatchEpoch
<1>16. CASE WorkerSweep
  BY <1>16, Leaves, Turns, LoopFields DEF BatchInv, BatchEpoch
<1>17. CASE WorkerFault
  BY <1>17, Leaves, Turns, LoopFields DEF BatchInv, BatchEpoch
<1>18. CASE UNCHANGED <<gen, path, wk>>
  BY <1>18 DEF BatchInv, BatchEpoch
<1> QED BY <1>1, <1>2, <1>3, <1>4, <1>5, <1>6, <1>7, <1>8, <1>9, <1>10, <1>11, <1>12, <1>13, <1>14, <1>15, <1>16,
    <1>17, <1>18, Frames

\* Every step keeps what a publication needs.
LEMMA BatchReadyStep ==
    ASSUME DeltaTypeOK, CoordInv, BatchInv, SnapInv, [Next]_vars
    PROVE  BatchReady'
<1>0. Clean' => Clean \/ Start \/ Crash \/ WorkerInstall
  BY CleanStep
<1>1. CASE Start
  BY <1>1, Starts, LoopFields DEF BatchReady
<1>2. CASE Crash
  BY <1>2, LoopFields DEF Crash, BatchReady
<1>3. CASE WorkerCycle
  <2>1. UNCHANGED <<epoch, coord, mirror>> /\ wk.pc = "loop" /\ (Clean' => Clean)
    BY <1>3, Leaves, Turns, LoopFields DEF Clean
  <2>2. wk'.pc = "identity" /\ wk'.epoch # 0 => snap # NoSnap
    BY <1>3, Turns, LoopFields
  <2>3. wk'.pc \notin {"publish", "republish"}
    BY <1>3, Turns, LoopFields
  <2> QED BY <2>1, <2>2, <2>3 DEF SnapInv, SnapFits, BatchReady
<1>4. CASE WorkerIdentity
  <2>1. UNCHANGED <<epoch, coord, mirror>> /\ wk.pc = "identity" /\ (Clean' => Clean)
    BY <1>4, Leaves, Turns, LoopFields DEF Clean
  <2>2. wk'.pc \in {"rebuild", "republish", "changes"} /\ (wk'.pc = "republish" => wk.epoch = epoch) /\ epoch # 0
    BY <1>4, Turns DEF DeltaTypeOK, FactTypes
  <2> QED BY <2>1, <2>2 DEF BatchInv, BatchReady
<1>5. CASE WorkerChanges
  BY <1>0, <1>5, Leaves, Turns, LoopFields DEF BatchInv, BatchReady
<1>6. CASE WorkerWrite
  <2>1. wk' = Loop \/ mirror'.consumed = wk.hi
    BY <1>6 DEF WorkerWrite
  <2>2. wk.hi # -1 /\ wk'.pc # "identity"
    BY <1>6, Turns, LoopFields, BoundsAssumption DEF DeltaTypeOK, Cycles
  <2> QED BY <2>1, <2>2, LoopFields DEF BatchReady
<1>7. CASE WorkerPublish
  <2>1. UNCHANGED <<epoch, coord, mirror>> /\ wk.pc = "publish" /\ wk'.pc = "republish" /\ (Clean' => Clean)
    BY <1>7, Leaves, Turns, LoopFields DEF Clean
  <2> QED BY <2>1 DEF BatchInv, BatchReady
<1>8. CASE WorkerRepublish
  BY <1>0, <1>8, Leaves, Turns, LoopFields DEF BatchInv, BatchReady
<1>9. CASE WorkerRecordBlock
  BY <1>0, <1>9, Leaves, Turns, LoopFields DEF BatchInv, BatchReady
<1>10. CASE WorkerBlock
  BY <1>0, <1>10, Leaves, Turns, LoopFields DEF BatchInv, BatchReady
<1>11. CASE WorkerRebuild
  BY <1>0, <1>11, Leaves, Turns, LoopFields DEF BatchInv, BatchReady
<1>12. CASE WorkerBuild
  BY <1>0, <1>12, Leaves, Turns, LoopFields DEF BatchInv, BatchReady
<1>13. CASE WorkerRename
  BY <1>0, <1>13, Leaves, Turns, LoopFields DEF BatchInv, BatchReady
<1>14. CASE WorkerInstall
  BY <1>0, <1>14, Leaves, Turns, LoopFields DEF BatchInv, BatchReady
<1>15. CASE WorkerComplete
  BY <1>0, <1>15, Leaves, Turns, LoopFields DEF BatchInv, BatchReady
<1>16. CASE WorkerSweep
  BY <1>0, <1>16, Leaves, Turns, LoopFields DEF BatchInv, BatchReady
<1>17. CASE WorkerFault
  BY <1>0, <1>17, Leaves, Turns, LoopFields DEF BatchInv, BatchReady
<1>18. CASE InvalidateDrop
  <2>1. coord' = "requesting" /\ wk' = wk /\ epoch' = epoch /\ epoch > 1
    BY <1>18, Leaves DEF InvalidateDrop, CoordInv, RoundInv
  <2> QED BY <2>1 DEF BatchReady, Clean
<1>19. CASE UNCHANGED <<mirror, wk>> /\ ~(Start \/ Crash \/ WorkerInstall)
  BY <1>0, <1>19 DEF BatchInv, BatchReady
<1> QED BY <1>1, <1>2, <1>3, <1>4, <1>5, <1>6, <1>7, <1>8, <1>9, <1>10, <1>11, <1>12, <1>13, <1>14, <1>15, <1>16,
    <1>17, <1>18, <1>19, Frames

\* Every step keeps the batch's window.
LEMMA BatchWindowStep ==
    ASSUME DeltaTypeOK, GensInv, MirrorInv, CoordInv, BatchInv, [Next]_vars
    PROVE  BatchWindow'
<1>0. Clean' => Clean \/ Start \/ Crash \/ WorkerInstall
  BY CleanStep
<1>1. CASE FactCommit
  <2>1. UNCHANGED <<epoch, gen, mirror, coord, wk>> /\ Len(log') = Len(log) + 1 /\ Len(log) \in Nat
    BY <1>1, AppendFields
  <2>2. Clean' = Clean
    BY <2>1 DEF Clean
  <2>3. wk.hi \in Nat
    BY BoundsAssumption DEF DeltaTypeOK, Cycles
  <2> QED BY <2>1, <2>2, <2>3 DEF BatchInv, BatchWindow
<1>2. CASE FactRetract
  <2>1. UNCHANGED <<epoch, gen, mirror, coord, wk>> /\ Len(log') = Len(log) + 1 /\ Len(log) \in Nat
    BY <1>2, AppendFields
  <2>2. Clean' = Clean
    BY <2>1 DEF Clean
  <2>3. wk.hi \in Nat
    BY BoundsAssumption DEF DeltaTypeOK, Cycles
  <2> QED BY <2>1, <2>2, <2>3 DEF BatchInv, BatchWindow
<1>3. CASE ReplaceFacts
  <2>1. gen.epoch <= epoch /\ gen.epoch \in Nat /\ epoch \in Nat
    BY GenFields DEF GensInv, Sound, DeltaTypeOK, MachineTypes, FactTypes
  <2>2. Clean' => Clean
    BY <1>0, <1>3, ReplaceFields, Leaves, CleanStep DEF Clean
  <2> QED BY <1>3, <2>1, <2>2, ReplaceFields DEF BatchInv, BatchWindow
<1>4. CASE Start
  BY <1>4, Starts, LoopFields DEF BatchWindow
<1>5. CASE Crash
  BY <1>5, LoopFields DEF Crash, BatchWindow
<1>6. CASE WorkerCycle
  BY <1>0, <1>6, Leaves, Turns, LoopFields DEF BatchInv, BatchWindow
<1>7. CASE WorkerIdentity
  <2>1. UNCHANGED <<epoch, log, gen, mirror>> /\ wk.pc = "identity"
    BY <1>7, Leaves, Turns
  <2>2. CASE wk'.pc = "changes"
    <3>1. /\ wk'.epoch = wk.epoch /\ wk.epoch = epoch /\ epoch # 0
          /\ wk'.lo = mirror.consumed /\ wk'.hi = Len(log) /\ mirror.consumed # -1 /\ mirror.consumed < Len(log)
      BY <1>7, <2>2, Turns DEF DeltaTypeOK, FactTypes
    <3>2. gen # NoGen /\ wk.epoch = gen.epoch
      BY <2>1, <3>1 DEF BatchInv, BatchEpoch
    <3>3. gen.h0 <= mirror.consumed /\ Len(log) \in Nat
      BY <3>1 DEF MirrorInv, MirrorFits, DeltaTypeOK, FactTypes
    <3> QED BY <2>1, <3>1, <3>2, <3>3 DEF BatchWindow
  <2>3. CASE wk'.pc # "changes"
    <3>1. wk'.pc \in {"rebuild", "republish"}
      BY <1>7, <2>3, Turns
    <3> QED BY <3>1 DEF BatchWindow
  <2> QED BY <2>2, <2>3
<1>8. CASE WorkerChanges
  <2>1. UNCHANGED <<epoch, log, gen, mirror, coord>> /\ wk.pc = "changes" /\ wk'.pc # "changes"
    BY <1>8, Leaves, Turns, LoopFields
  <2>2. wk'.pc = "write" => wk'.epoch = wk.epoch /\ wk'.lo = wk.lo /\ wk'.hi = wk.hi /\ (Clean' => Clean)
    BY <1>8, <2>1, Turns, LoopFields DEF Clean
  <2> QED BY <2>1, <2>2 DEF BatchInv, BatchWindow
<1>9. CASE WorkerWrite
  BY <1>0, <1>9, Leaves, Turns, LoopFields DEF BatchInv, BatchWindow
<1>10. CASE WorkerPublish
  BY <1>0, <1>10, Leaves, Turns, LoopFields DEF BatchInv, BatchWindow
<1>11. CASE WorkerRepublish
  BY <1>0, <1>11, Leaves, Turns, LoopFields DEF BatchInv, BatchWindow
<1>12. CASE WorkerRecordBlock
  BY <1>0, <1>12, Leaves, Turns, LoopFields DEF BatchInv, BatchWindow
<1>13. CASE WorkerBlock
  BY <1>0, <1>13, Leaves, Turns, LoopFields DEF BatchInv, BatchWindow
<1>14. CASE WorkerRebuild
  BY <1>0, <1>14, Leaves, Turns, LoopFields DEF BatchInv, BatchWindow
<1>15. CASE WorkerBuild
  BY <1>0, <1>15, Leaves, Turns, LoopFields DEF BatchInv, BatchWindow
<1>16. CASE WorkerRename
  BY <1>0, <1>16, Leaves, Turns, LoopFields DEF BatchInv, BatchWindow
<1>17. CASE WorkerInstall
  BY <1>0, <1>17, Leaves, Turns, LoopFields DEF BatchInv, BatchWindow
<1>18. CASE WorkerComplete
  BY <1>0, <1>18, Leaves, Turns, LoopFields DEF BatchInv, BatchWindow
<1>19. CASE WorkerSweep
  BY <1>0, <1>19, Leaves, Turns, LoopFields DEF BatchInv, BatchWindow
<1>20. CASE WorkerFault
  BY <1>0, <1>20, Leaves, Turns, LoopFields DEF BatchInv, BatchWindow
<1>21. CASE InvalidateDrop
  <2>1. coord' = "requesting" /\ UNCHANGED <<epoch, log, gen, wk>> /\ epoch > 1 /\ mirror' = NoMirror
    BY <1>21, Leaves DEF InvalidateDrop, CoordInv, RoundInv
  <2> QED BY <2>1 DEF BatchInv, BatchWindow, Clean
<1>22. CASE UNCHANGED <<epoch, log, gen, path, mirror, wk>> /\ ~(Start \/ Crash \/ WorkerInstall)
  BY <1>0, <1>22 DEF BatchInv, BatchWindow
<1> QED BY <1>1, <1>2, <1>3, <1>4, <1>5, <1>6, <1>7, <1>8, <1>9, <1>10, <1>11, <1>12, <1>13, <1>14, <1>15, <1>16,
    <1>17, <1>18, <1>19, <1>20, <1>21, <1>22, Frames

\* Every step keeps the batch.
LEMMA BatchRowsStep ==
    ASSUME DeltaTypeOK, GensInv, BatchInv, [Next]_vars
    PROVE  BatchRows'
<1>1. CASE FactCommit
  <2>1. UNCHANGED <<epoch, gen, wk>>
    BY <1>1, AppendFields
  <2>2. wk.lo \in Nat /\ wk.hi \in Nat
    BY BoundsAssumption DEF DeltaTypeOK, Cycles
  <2>3. wk.pc = "write" /\ gen.epoch = epoch =>
            CommitsIn(log', wk.lo, wk.hi) = CommitsIn(log, wk.lo, wk.hi) /\ RetractionsIn(log', wk.lo, wk.hi) = RetractionsIn(log, wk.lo, wk.hi)
    BY <1>1, <2>2, AppendFields DEF BatchInv, BatchWindow
  <2> QED BY <2>1, <2>3 DEF BatchInv, BatchRows
<1>2. CASE FactRetract
  <2>1. UNCHANGED <<epoch, gen, wk>>
    BY <1>2, AppendFields
  <2>2. wk.lo \in Nat /\ wk.hi \in Nat
    BY BoundsAssumption DEF DeltaTypeOK, Cycles
  <2>3. wk.pc = "write" /\ gen.epoch = epoch =>
            CommitsIn(log', wk.lo, wk.hi) = CommitsIn(log, wk.lo, wk.hi) /\ RetractionsIn(log', wk.lo, wk.hi) = RetractionsIn(log, wk.lo, wk.hi)
    BY <1>2, <2>2, AppendFields DEF BatchInv, BatchWindow
  <2> QED BY <2>1, <2>3 DEF BatchInv, BatchRows
<1>3. CASE ReplaceFacts
  <2>1. gen.epoch <= epoch /\ gen.epoch \in Nat /\ epoch \in Nat
    BY GenFields DEF GensInv, Sound, DeltaTypeOK, MachineTypes, FactTypes
  <2> QED BY <1>3, <2>1, ReplaceFields DEF BatchRows
<1>4. CASE Start
  BY <1>4, Starts, LoopFields DEF BatchRows
<1>5. CASE Crash
  BY <1>5, LoopFields DEF Crash, BatchRows
<1>6. CASE WorkerCycle
  BY <1>6, Leaves, Turns, LoopFields DEF BatchInv, BatchRows
<1>7. CASE WorkerIdentity
  BY <1>7, Leaves, Turns, LoopFields DEF BatchInv, BatchRows
<1>8. CASE WorkerChanges
  BY <1>8, Leaves, Turns, LoopFields DEF BatchInv, BatchRows
<1>9. CASE WorkerWrite
  BY <1>9, Leaves, Turns, LoopFields DEF BatchInv, BatchRows
<1>10. CASE WorkerPublish
  BY <1>10, Leaves, Turns, LoopFields DEF BatchInv, BatchRows
<1>11. CASE WorkerRepublish
  BY <1>11, Leaves, Turns, LoopFields DEF BatchInv, BatchRows
<1>12. CASE WorkerRecordBlock
  BY <1>12, Leaves, Turns, LoopFields DEF BatchInv, BatchRows
<1>13. CASE WorkerBlock
  BY <1>13, Leaves, Turns, LoopFields DEF BatchInv, BatchRows
<1>14. CASE WorkerRebuild
  BY <1>14, Leaves, Turns, LoopFields DEF BatchInv, BatchRows
<1>15. CASE WorkerBuild
  BY <1>15, Leaves, Turns, LoopFields DEF BatchInv, BatchRows
<1>16. CASE WorkerRename
  BY <1>16, Leaves, Turns, LoopFields DEF BatchInv, BatchRows
<1>17. CASE WorkerInstall
  BY <1>17, Leaves, Turns, LoopFields DEF BatchInv, BatchRows
<1>18. CASE WorkerComplete
  BY <1>18, Leaves, Turns, LoopFields DEF BatchInv, BatchRows
<1>19. CASE WorkerSweep
  BY <1>19, Leaves, Turns, LoopFields DEF BatchInv, BatchRows
<1>20. CASE WorkerFault
  BY <1>20, Leaves, Turns, LoopFields DEF BatchInv, BatchRows
<1>21. CASE UNCHANGED <<epoch, log, gen, path, wk>>
  BY <1>21 DEF BatchInv, BatchRows
<1> QED BY <1>1, <1>2, <1>3, <1>4, <1>5, <1>6, <1>7, <1>8, <1>9, <1>10, <1>11, <1>12, <1>13, <1>14, <1>15, <1>16,
    <1>17, <1>18, <1>19, <1>20, <1>21, Frames

\* Every step keeps what the worker carries.
LEMMA BatchStep == ASSUME DeltaInv, [Next]_vars PROVE BatchInv'
  BY BatchEpochStep, BatchReadyStep, BatchWindowStep, BatchRowsStep DEF DeltaInv, BatchInv


\* The snapshot of a machine without a generation is none.
LEMMA NoSnapshot == ASSUME MirrorInv, gen = NoGen PROVE Snapshot(gen, mirror) = NoSnap
  BY LoopFields DEF MirrorInv, MirrorNone, Snapshot, NoSnap, NoGen, NoMirror

\* The parts of a snapshot.
LEMMA SnapshotFields ==
    ASSUME NEW g, NEW m
    PROVE  /\ Snapshot(g, m).epoch = g.epoch /\ Snapshot(g, m).consumed = m.consumed
           /\ Snapshot(g, m).active = (g.rows \cup m.rows) \ m.tombs
  BY DEF Snapshot

\* The snapshot of the mirror projects to the facts.
LEMMA MirrorSnapshot ==
    ASSUME DeltaTypeOK, MirrorInv, Clean, mirror.consumed # -1, gen.epoch = epoch
    PROVE  Snapshot(gen, mirror).consumed \in 0..Len(log) /\ Snapshot(gen, mirror).active = Active(log, mirror.consumed)
<1>1. mirror.consumed \in Nat /\ Len(log) \in Nat
  BY BoundsAssumption DEF DeltaTypeOK, MachineTypes, Mirrors, FactTypes
<1>2. mirror.consumed <= Len(log) /\ (gen.rows \cup mirror.rows) \ mirror.tombs = Active(log, mirror.consumed)
  BY DEF MirrorInv, MirrorFits, Exact
<1>3. Snapshot(gen, mirror).consumed = mirror.consumed
      /\ Snapshot(gen, mirror).active = (gen.rows \cup mirror.rows) \ mirror.tombs
  BY SnapshotFields
<1> QED BY <1>1, <1>2, <1>3

\* Every step keeps the snapshot to the machine's generation.
LEMMA SnapEpochStep ==
    ASSUME DeltaTypeOK, FileInv, MirrorInv, SnapInv, BuildInv, [Next]_vars
    PROVE  SnapEpoch'
<1>1. CASE Start
  BY <1>1, StartExact, SnapshotFields, GenFields DEF SnapEpoch
<1>2. CASE Crash
  BY <1>2 DEF Crash, SnapEpoch
<1>3. CASE WorkerPublish
  BY <1>3, Leaves, NoSnapshot, SnapshotFields DEF WorkerPublish, SnapEpoch
<1>4. CASE WorkerRepublish
  BY <1>4, Leaves, NoSnapshot, SnapshotFields DEF WorkerRepublish, SnapInv, SnapEpoch
<1>5. CASE WorkerRebuild
  BY <1>5 DEF WorkerRebuild, SnapEpoch
<1>6. CASE WorkerInstall
  <2>1. wk.gen \in Gen /\ snap = NoSnap
    BY <1>6, Turns DEF BuildInv, BuildGens, BuildSnap
  <2>2. gen' = wk.gen /\ snap' \in {snap, Snapshot(wk.gen, FreshMirror(wk.gen))}
    BY <1>6 DEF WorkerInstall
  <2> QED BY <2>1, <2>2, SnapshotFields, GenFields DEF SnapEpoch
<1>7. CASE Invalidate
  BY <1>7 DEF Invalidate, SnapEpoch
<1>8. CASE UNCHANGED <<gen, path, snap>>
  BY <1>8 DEF SnapInv, SnapEpoch
<1> QED BY <1>1, <1>2, <1>3, <1>4, <1>5, <1>6, <1>7, <1>8, Frames

\* Every step keeps the snapshot to the facts.
LEMMA SnapFitsStep ==
    ASSUME DeltaInv, [Next]_vars
    PROVE  SnapFits'
<1>0. DeltaTypeOK /\ GensInv /\ FileInv /\ MirrorInv /\ BatchInv /\ BuildInv /\ SnapInv /\ CoordInv
  BY DEF DeltaInv
<1>00. Clean' => Clean \/ Start \/ Crash \/ WorkerInstall
  BY <1>0, CleanStep
<1>1. CASE FactCommit
  <2>1. UNCHANGED <<epoch, mirror, snap, coord, wk>> /\ Len(log') = Len(log) + 1 /\ Len(log) \in Nat
    BY <1>0, <1>1, AppendFields
  <2>2. Clean' = Clean
    BY <2>1 DEF Clean
  <2>3. \A h \in 0..Len(log) : Active(log', h) = Active(log, h)
    BY <1>0, <1>1, AppendFields
  <2> QED BY <1>0, <2>1, <2>2, <2>3 DEF SnapInv, SnapFits
<1>2. CASE FactRetract
  <2>1. UNCHANGED <<epoch, mirror, snap, coord, wk>> /\ Len(log') = Len(log) + 1 /\ Len(log) \in Nat
    BY <1>0, <1>2, AppendFields
  <2>2. Clean' = Clean
    BY <2>1 DEF Clean
  <2>3. \A h \in 0..Len(log) : Active(log', h) = Active(log, h)
    BY <1>0, <1>2, AppendFields
  <2> QED BY <1>0, <2>1, <2>2, <2>3 DEF SnapInv, SnapFits
<1>3. CASE ReplaceFacts
  <2>1. gen.epoch <= epoch /\ gen.epoch \in Nat /\ epoch \in Nat
    BY <1>0, GenFields DEF GensInv, Sound, DeltaTypeOK, MachineTypes, FactTypes
  <2>2. Clean' => Clean
    BY <1>0, <1>00, <1>3, ReplaceFields, Leaves DEF Clean
  <2>3. UNCHANGED <<mirror, snap>> /\ epoch' = epoch + 1
    BY <1>0, <1>3, ReplaceFields
  <2> QED BY <1>0, <2>1, <2>2, <2>3 DEF SnapInv, SnapEpoch, SnapFits
<1>4. CASE Start
  <2>1. UNCHANGED <<epoch, log>>
    BY <1>4, Leaves
  <2>2. \/ snap' = NoSnap
        \/ /\ snap'.consumed = mirror'.consumed /\ mirror'.consumed \in 0..Len(log)
           /\ snap'.active = Active(log, mirror'.consumed)
    BY <1>0, <1>4, StartExact, SnapshotFields
  <2>3. Len(log) \in Nat
    BY <1>0 DEF DeltaTypeOK, FactTypes
  <2> QED BY <2>1, <2>2, <2>3 DEF SnapFits
<1>5. CASE Crash
  BY <1>5 DEF Crash, SnapFits
<1>6. CASE WorkerWrite
  <2>1. UNCHANGED <<epoch, log, coord, snap>> /\ (Clean' => Clean)
    BY <1>0, <1>6, Leaves, Turns, LoopFields DEF Clean
  <2>2. mirror' = mirror \/ mirror'.consumed # -1
    BY <1>6, BatchMirrors
  <2> QED BY <1>0, <2>1, <2>2 DEF SnapInv, SnapFits
<1>7. CASE WorkerPublish
  <2>1. UNCHANGED <<epoch, log, coord, gen, mirror>> /\ wk.pc = "publish" /\ (Clean' => Clean)
    BY <1>0, <1>7, Leaves, Turns, LoopFields DEF Clean
  <2>2. snap' = Snapshot(gen, mirror)
    BY <1>7 DEF WorkerPublish
  <2> QED BY <1>0, <2>1, <2>2, MirrorSnapshot, SnapshotFields DEF BatchInv, BatchReady, SnapInv, SnapFits
<1>8. CASE WorkerRepublish
  <2>1. UNCHANGED <<epoch, log, coord, gen, mirror>> /\ wk.pc = "republish" /\ (Clean' => Clean)
    BY <1>0, <1>8, Leaves, Turns, LoopFields DEF Clean
  <2>2. snap' = snap \/ snap' = Snapshot(gen, mirror)
    BY <1>8 DEF WorkerRepublish
  <2> QED BY <1>0, <2>1, <2>2, MirrorSnapshot, SnapshotFields DEF BatchInv, BatchReady, SnapInv, SnapFits
<1>9. CASE WorkerRebuild
  BY <1>9 DEF WorkerRebuild, SnapFits
<1>10. CASE WorkerInstall
  <2>1. wk.gen \in Gen /\ snap = NoSnap /\ Sound(wk.gen)
    BY <1>0, <1>10, Turns DEF BuildInv, BuildGens, BuildSnap, GensInv
  <2>2. mirror' = FreshMirror(wk.gen) /\ snap' \in {snap, Snapshot(wk.gen, FreshMirror(wk.gen))} /\ UNCHANGED <<epoch, log>>
    BY <1>10, Leaves DEF WorkerInstall
  <2>3. mirror'.consumed # -1 /\ (snap' = NoSnap \/ wk.gen.epoch # epoch \/
            (snap'.consumed \in 0..Len(log) /\ snap'.active = Active(log, snap'.consumed)))
    <3>1. Len(log) \in Nat
      BY <1>0 DEF DeltaTypeOK, FactTypes
    <3>2. /\ FreshMirror(wk.gen).consumed = wk.gen.h0 /\ wk.gen.h0 \in Nat
          /\ wk.gen.epoch = epoch => wk.gen.h0 <= Len(log) /\ Exact(wk.gen, FreshMirror(wk.gen))
      BY <1>0, <2>1, FreshExact
    <3>3. /\ Snapshot(wk.gen, FreshMirror(wk.gen)).consumed = FreshMirror(wk.gen).consumed
          /\ Snapshot(wk.gen, FreshMirror(wk.gen)).active = (wk.gen.rows \cup FreshMirror(wk.gen).rows) \ FreshMirror(wk.gen).tombs
      BY SnapshotFields
    <3> DEFINE m == FreshMirror(wk.gen)
               s == Snapshot(wk.gen, m)
    <3>4. wk.gen.epoch = epoch => s.consumed \in 0..Len(log) /\ s.active = Active(log, s.consumed)
      BY <3>1, <3>2, <3>3 DEF Exact
    <3> HIDE DEF m, s
    <3> QED BY <2>1, <2>2, <3>2, <3>4 DEF m, s
  <2> QED BY <2>1, <2>2, <2>3, SnapshotFields DEF SnapFits
<1>11. CASE Invalidate
  BY <1>11 DEF Invalidate, SnapFits
<1>12. CASE InvalidateDrop
  <2>1. coord' = "requesting" /\ UNCHANGED <<epoch, log, wk, snap>> /\ epoch > 1
    BY <1>0, <1>12, Leaves DEF InvalidateDrop, CoordInv, RoundInv
  <2>2. wk.pc = "complete" => coord = "catching_up"
    BY <1>0 DEF CoordInv, TargetInv
  <2> QED BY <1>12, <2>1, <2>2 DEF InvalidateDrop, SnapFits, Clean
<1>13. CASE UNCHANGED <<epoch, log, mirror, snap>> /\ ~(Start \/ Crash \/ WorkerInstall)
  BY <1>0, <1>00, <1>13 DEF SnapInv, SnapFits
<1> QED BY <1>1, <1>2, <1>3, <1>4, <1>5, <1>6, <1>7, <1>8, <1>9, <1>10, <1>11, <1>12, <1>13, Frames

\* Every step keeps the snapshot.
LEMMA SnapStep == ASSUME DeltaInv, [Next]_vars PROVE SnapInv'
  BY SnapEpochStep, SnapFitsStep DEF DeltaInv, SnapInv

\* Every step keeps the query and its answer.
LEMMA QueryStep ==
    ASSUME DeltaInv, [Next]_vars
    PROVE  QueryInv'
<1>0. DeltaTypeOK /\ SnapInv /\ CoordInv /\ QueryInv
  BY DEF DeltaInv
<1>1. CASE FactCommit
  <2>1. UNCHANGED <<epoch, coord, query>> /\ Len(log') = Len(log) + 1 /\ Len(log) \in Nat
    BY <1>0, <1>1, AppendFields
  <2>2. query.hi \in Nat /\ (query.ans.consumed \in Nat \/ query.ans.consumed = -1)
    BY <1>0, BoundsAssumption DEF DeltaTypeOK, DriverTypes, Queries, Snaps
  <2>3. query.st = "served" => Active(log', query.ans.consumed) = Active(log, query.ans.consumed)
    BY <1>0, <1>1, <2>2, AppendFields DEF QueryInv
  <2> QED BY <1>0, <2>1, <2>2, <2>3 DEF QueryInv
<1>2. CASE FactRetract
  <2>1. UNCHANGED <<epoch, coord, query>> /\ Len(log') = Len(log) + 1 /\ Len(log) \in Nat
    BY <1>0, <1>2, AppendFields
  <2>2. query.hi \in Nat /\ (query.ans.consumed \in Nat \/ query.ans.consumed = -1)
    BY <1>0, BoundsAssumption DEF DeltaTypeOK, DriverTypes, Queries, Snaps
  <2>3. query.st = "served" => Active(log', query.ans.consumed) = Active(log, query.ans.consumed)
    BY <1>0, <1>2, <2>2, AppendFields DEF QueryInv
  <2> QED BY <1>0, <2>1, <2>2, <2>3 DEF QueryInv
<1>3. CASE ReplaceFacts
  <2>1. query.st = "idle" /\ query' = query
    BY <1>0, <1>3, Leaves, ReplaceFields, LoopFields DEF CoordInv, DownInv, QueryInv
  <2> QED BY <2>1 DEF QueryInv
<1>4. CASE Start
  BY <1>4, Starts, LoopFields DEF QueryInv
<1>5. CASE Crash
  BY <1>5, LoopFields DEF Crash, QueryInv
<1>6. CASE WorkerComplete
  <2>1. UNCHANGED <<epoch, log, query>> /\ coord = "catching_up"
    BY <1>0, <1>6, Leaves, Turns DEF CoordInv, TargetInv
  <2> QED BY <1>0, <2>1 DEF QueryInv
<1>7. CASE PrepareBegin
  BY <1>0, <1>7, Leaves, Turns DEF QueryInv, PrepareBegin
<1>8. CASE PrepareTimeout
  BY <1>0, <1>8, Leaves, Turns DEF QueryInv, PrepareTimeout
<1>9. CASE PrepareIdle
  BY <1>0, <1>9, Leaves, Turns DEF QueryInv, PrepareIdle
<1>10. CASE Reopen
  BY <1>0, <1>10, Leaves, Turns DEF QueryInv, Reopen
<1>11. CASE Invalidate
  BY <1>0, <1>11, Leaves, Turns DEF QueryInv, Invalidate
<1>12. CASE InvalidateDrop
  BY <1>0, <1>12, Leaves, Turns DEF QueryInv, InvalidateDrop
<1>13. CASE RequestRebuild
  BY <1>0, <1>13, Leaves, Turns DEF QueryInv, RequestRebuild
<1>14. CASE QueryBegin
  <2>1. query' = [NoQuery EXCEPT !.st = "wait", !.epoch = epoch, !.hi = Len(log)] /\ coord = "serving"
    BY <1>14 DEF QueryBegin
  <2>2. query'.st = "wait" /\ query'.epoch = epoch /\ query'.hi = Len(log)
    BY <2>1, Constants DEF Queries
  <2>3. UNCHANGED <<epoch, log, coord>> /\ Len(log) \in Nat
    BY <1>0, <1>14, Leaves DEF DeltaTypeOK, FactTypes
  <2> QED BY <2>1, <2>2, <2>3 DEF QueryInv
<1>15. CASE QueryAnswer
  <2>1. /\ query.st = "wait" /\ query' = [query EXCEPT !.st = "served", !.ans = snap] /\ UNCHANGED <<epoch, log, coord>>
        /\ snap # NoSnap /\ snap.epoch = query.epoch /\ snap.consumed >= query.hi
    BY <1>15, Leaves DEF QueryAnswer
  <2>2. query'.st = "served" /\ query'.epoch = query.epoch /\ query'.hi = query.hi /\ query'.ans = snap
    BY <1>0, <2>1 DEF DeltaTypeOK, DriverTypes, Queries
  <2>3. coord = "serving" /\ query.epoch = epoch /\ query.hi <= Len(log)
    BY <1>0, <2>1 DEF QueryInv
  <2>4. snap.consumed \in 0..Len(log) /\ snap.active = Active(log, snap.consumed)
    BY <1>0, <2>1, <2>3 DEF SnapInv, SnapFits, Clean
  <2>5. query.hi \in Nat /\ Len(log) \in Nat
    BY <1>0, BoundsAssumption DEF DeltaTypeOK, DriverTypes, Queries, FactTypes
  <2> QED BY <2>1, <2>2, <2>3, <2>4, <2>5 DEF QueryInv
<1>16. CASE QueryEnd
  BY <1>16, LoopFields DEF QueryEnd, QueryInv
<1>17. CASE UNCHANGED <<epoch, log, coord, query>>
  BY <1>0, <1>17 DEF QueryInv
<1> QED BY <1>1, <1>2, <1>3, <1>4, <1>5, <1>6, <1>7, <1>8, <1>9, <1>10, <1>11, <1>12, <1>13, <1>14, <1>15, <1>16,
    <1>17, Frames

-----------------------------------------------------------------------------
(* The invariant and what it shows.                                        *)

\* Nothing is on disk or in memory yet.
LEMMA InitInv == Init => DeltaInv
<1> SUFFICES ASSUME Init PROVE DeltaInv
  OBVIOUS
<1>1. DeltaTypeOK
  BY InitTyped
<1>2. LogInv /\ FileInv
  BY DEF Init, LogInv, FileInv
<1>3. GensInv
  <2>1. Sound(G0) /\ Sound(NoGen)
    BY <1>1, DeclaredSound, NoGenSound
  <2> QED BY <2>1, LoopFields DEF Init, GensInv
<1>4. MirrorInv /\ PathInv /\ SnapInv
  BY LoopFields DEF Init, MirrorInv, MirrorNone, MirrorFits, PathInv, PathGen, PathFile, PathFirst, SnapInv, SnapEpoch, SnapFits
<1>5. BatchInv /\ BuildInv
  BY LoopFields DEF Init, BatchInv, BatchEpoch, BatchReady, BatchWindow, BatchRows, BuildInv, BuildSnap, BuildGens, BuildFile
<1>6. CoordInv /\ QueryInv
  BY LoopFields DEF Init, CoordInv, DownInv, RoundInv, TargetInv, QueryInv
<1> QED BY <1>1, <1>2, <1>3, <1>4, <1>5, <1>6 DEF DeltaInv

\* The invariant is inductive.
LEMMA InvStep == ASSUME DeltaInv, [Next]_vars PROVE DeltaInv'
<1>1. DeltaTypeOK' /\ LogInv' /\ GensInv' /\ FileInv'
  BY TypeStep, LogStep, GensStep, FileStep DEF DeltaInv
<1>2. MirrorInv' /\ PathInv' /\ BatchInv' /\ BuildInv'
  BY MirrorStep, PathStep, BatchStep, BuildStep
<1>3. SnapInv' /\ CoordInv' /\ QueryInv'
  BY SnapStep, CoordStep, QueryStep DEF DeltaInv
<1> QED BY <1>1, <1>2, <1>3 DEF DeltaInv

\* Whatever fails, crashes or is replaced, the facts, the derived root, the
\* machine, its worker, the coordinator and the query stay together.
THEOREM DeltaInvHolds == Spec => []DeltaInv
<1>1. Init => DeltaInv
  BY InitInv
<1>2. DeltaInv /\ [Next]_vars => DeltaInv'
  BY InvStep
<1> QED BY <1>1, <1>2, PTL DEF Spec

\* ensure_caught_up never answers below the watermark its request read, and
\* what it answers with is the facts' own active set, in every store, with
\* any number of crashes, faults and maintenance rounds.
THEOREM ServedExactHolds == Spec => []ServedExact
<1>1. DeltaInv => ServedExact
  <2>1. ASSUME DeltaTypeOK, QueryInv PROVE ServedExact
    BY <2>1, BoundsAssumption DEF QueryInv, ServedExact, DeltaTypeOK, DriverTypes, Queries, Snaps
  <2> QED BY <2>1 DEF DeltaInv
<1> QED BY <1>1, DeltaInvHolds, PTL


-----------------------------------------------------------------------------
(* What is written to disk, when each round finds the machine registered.  *)

\* What each action leaves alone of the worker's flags and the registration.
LEMMA Flags ==
    /\ FactCommit => UNCHANGED <<stop, idle, registered, rounds>>
    /\ FactRetract => UNCHANGED <<stop, idle, registered, rounds>>
    /\ ReplaceFacts => UNCHANGED <<stop, idle, registered, rounds>>
    /\ Start => UNCHANGED rounds
    /\ StartupSweep => UNCHANGED <<stop, idle, registered, rounds>>
    /\ Crash => UNCHANGED rounds
    /\ WorkerPark => UNCHANGED <<stop, registered, rounds>>
    /\ WorkerCycle => UNCHANGED <<stop, registered, rounds>>
    /\ WorkerIdentity => UNCHANGED <<stop, idle, registered, rounds>>
    /\ WorkerChanges => UNCHANGED <<stop, idle, registered, rounds>>
    /\ WorkerWrite => UNCHANGED <<stop, idle, registered, rounds>>
    /\ WorkerPublish => UNCHANGED <<stop, idle, registered, rounds>>
    /\ WorkerRepublish => UNCHANGED <<stop, idle, registered, rounds>>
    /\ WorkerRecordBlock => UNCHANGED <<stop, idle, registered, rounds>>
    /\ WorkerBlock => UNCHANGED <<stop, idle, registered, rounds>>
    /\ WorkerRebuild => UNCHANGED <<stop, idle, registered, rounds>>
    /\ WorkerBuild => UNCHANGED <<stop, idle, registered, rounds>>
    /\ WorkerRename => UNCHANGED <<stop, idle, registered, rounds>>
    /\ WorkerInstall => UNCHANGED <<stop, idle, registered, rounds>>
    /\ WorkerComplete => UNCHANGED <<stop, idle, registered, rounds>>
    /\ WorkerSweep => UNCHANGED <<stop, idle, registered, rounds>>
    /\ WorkerFault => UNCHANGED <<stop, idle, registered, rounds>>
    /\ RetryClean => UNCHANGED <<stop, idle, registered, rounds>>
    /\ RetryClear => UNCHANGED <<stop, idle, registered, rounds>>
    /\ PrepareBegin => UNCHANGED <<idle, registered>>
    /\ PrepareTimeout => UNCHANGED <<stop, idle, rounds>>
    /\ PrepareIdle => UNCHANGED <<stop, idle, rounds>>
    /\ Reopen => UNCHANGED <<stop, idle, registered, rounds>>
    /\ Invalidate => UNCHANGED <<stop, idle, registered, rounds>>
    /\ InvalidateDrop => UNCHANGED <<stop, idle, registered, rounds>>
    /\ RequestRebuild => UNCHANGED <<idle, registered, rounds>>
    /\ QueryBegin => UNCHANGED <<stop, idle, registered, rounds>>
    /\ QueryAnswer => UNCHANGED <<stop, idle, registered, rounds>>
    /\ QueryEnd => UNCHANGED <<stop, idle, registered, rounds>>
<1>1. FactCommit => UNCHANGED <<stop, idle, registered, rounds>>
  BY DEF FactCommit, Append1, diskVars, ctlVars, coordVars
<1>2. FactRetract => UNCHANGED <<stop, idle, registered, rounds>>
  BY DEF FactRetract, Append1, diskVars, ctlVars, coordVars
<1>3. ReplaceFacts => UNCHANGED <<stop, idle, registered, rounds>>
  BY DEF ReplaceFacts, diskVars, ctlVars, coordVars
<1>4. Start => UNCHANGED rounds
  BY DEF Start, StartDaemon, factVars
<1>5. StartupSweep => UNCHANGED <<stop, idle, registered, rounds>>
  BY DEF StartupSweep, factVars, coordVars
<1>6. Crash => UNCHANGED rounds
  BY DEF Crash, factVars, diskVars
<1>7. WorkerPark => UNCHANGED <<stop, registered, rounds>>
  BY DEF WorkerPark, At, factVars, diskVars, ctlVars, coordVars
<1>8. WorkerCycle => UNCHANGED <<stop, registered, rounds>>
  BY DEF WorkerCycle, At, factVars, diskVars, ctlVars, coordVars
<1>9. WorkerIdentity => UNCHANGED <<stop, idle, registered, rounds>>
  BY DEF WorkerIdentity, At, factVars, diskVars, ctlVars, coordVars
<1>10. WorkerChanges => UNCHANGED <<stop, idle, registered, rounds>>
  BY DEF WorkerChanges, At, factVars, diskVars, ctlVars, coordVars
<1>11. WorkerWrite => UNCHANGED <<stop, idle, registered, rounds>>
  BY DEF WorkerWrite, At, factVars, diskVars, ctlVars, coordVars
<1>12. WorkerPublish => UNCHANGED <<stop, idle, registered, rounds>>
  BY DEF WorkerPublish, At, factVars, diskVars, ctlVars, coordVars
<1>13. WorkerRepublish => UNCHANGED <<stop, idle, registered, rounds>>
  BY DEF WorkerRepublish, At, factVars, diskVars, ctlVars, coordVars
<1>14. WorkerRecordBlock => UNCHANGED <<stop, idle, registered, rounds>>
  BY DEF WorkerRecordBlock, At, factVars, diskVars, ctlVars, coordVars
<1>15. WorkerBlock => UNCHANGED <<stop, idle, registered, rounds>>
  BY DEF WorkerBlock, At, factVars, diskVars, ctlVars, coordVars
<1>16. WorkerRebuild => UNCHANGED <<stop, idle, registered, rounds>>
  BY DEF WorkerRebuild, At, factVars, diskVars, ctlVars, coordVars
<1>17. WorkerBuild => UNCHANGED <<stop, idle, registered, rounds>>
  BY DEF WorkerBuild, At, factVars, diskVars, ctlVars, coordVars
<1>18. WorkerRename => UNCHANGED <<stop, idle, registered, rounds>>
  BY DEF WorkerRename, At, factVars, diskVars, ctlVars, coordVars
<1>19. WorkerInstall => UNCHANGED <<stop, idle, registered, rounds>>
  BY DEF WorkerInstall, At, factVars, diskVars, ctlVars, coordVars
<1>20. WorkerComplete => UNCHANGED <<stop, idle, registered, rounds>>
  BY DEF WorkerComplete, At, factVars, diskVars, ctlVars, coordVars
<1>21. WorkerSweep => UNCHANGED <<stop, idle, registered, rounds>>
  BY DEF WorkerSweep, At, factVars, diskVars, ctlVars, coordVars
<1>22. WorkerFault => UNCHANGED <<stop, idle, registered, rounds>>
  BY DEF WorkerFault, factVars, diskVars, ctlVars, coordVars
<1>23. RetryClean => UNCHANGED <<stop, idle, registered, rounds>>
  BY DEF RetryClean, factVars, coordVars
<1>24. RetryClear => UNCHANGED <<stop, idle, registered, rounds>>
  BY DEF RetryClear, factVars, diskVars, coordVars
<1>25. PrepareBegin => UNCHANGED <<idle, registered>>
  BY DEF PrepareBegin, factVars, diskVars, ctlVars, machineVars, coordVars
<1>26. PrepareTimeout => UNCHANGED <<stop, idle, rounds>>
  BY DEF PrepareTimeout, factVars, diskVars, ctlVars, machineVars, coordVars
<1>27. PrepareIdle => UNCHANGED <<stop, idle, rounds>>
  BY DEF PrepareIdle, factVars, diskVars, ctlVars, machineVars, coordVars
<1>28. Reopen => UNCHANGED <<stop, idle, registered, rounds>>
  BY DEF Reopen, factVars, diskVars, ctlVars, machineVars, coordVars
<1>29. Invalidate => UNCHANGED <<stop, idle, registered, rounds>>
  BY DEF Invalidate, factVars, diskVars, ctlVars, machineVars, coordVars
<1>30. InvalidateDrop => UNCHANGED <<stop, idle, registered, rounds>>
  BY DEF InvalidateDrop, factVars, diskVars, ctlVars, machineVars, coordVars
<1>31. RequestRebuild => UNCHANGED <<idle, registered, rounds>>
  BY DEF RequestRebuild, factVars, diskVars, ctlVars, machineVars, coordVars
<1>32. QueryBegin => UNCHANGED <<stop, idle, registered, rounds>>
  BY DEF QueryBegin, queryFrame, factVars, diskVars, ctlVars, machineVars, coordVars
<1>33. QueryAnswer => UNCHANGED <<stop, idle, registered, rounds>>
  BY DEF QueryAnswer, queryFrame, factVars, diskVars, ctlVars, machineVars, coordVars
<1>34. QueryEnd => UNCHANGED <<stop, idle, registered, rounds>>
  BY DEF QueryEnd, queryFrame, factVars, diskVars, ctlVars, machineVars, coordVars
<1> QED BY <1>1, <1>2, <1>3, <1>4, <1>5, <1>6, <1>7, <1>8, <1>9, <1>10, <1>11, <1>12, <1>13, <1>14, <1>15, <1>16,
    <1>17, <1>18, <1>19, <1>20, <1>21, <1>22, <1>23, <1>24, <1>25, <1>26, <1>27, <1>28, <1>29, <1>30, <1>31,
    <1>32, <1>33, <1>34

\* The actions that may change them.
LEMMA FlagFrames ==
    ASSUME [Next]_vars
    PROVE  /\ Start \/ Crash \/ PrepareBegin \/ RequestRebuild \/ UNCHANGED stop
           /\ Start \/ Crash \/ WorkerPark \/ WorkerCycle \/ UNCHANGED idle
           /\ Start \/ Crash \/ PrepareTimeout \/ PrepareIdle \/ UNCHANGED registered
           /\ PrepareBegin \/ UNCHANGED rounds
  BY Flags DEF Next, Worker, Coordinator, vars

\* Every step keeps the worker parked in a prepared round.
LEMMA QuietStep ==
    ASSUME DeltaInv, QuietInv, [Next]_vars, [PrepareBegin => registered]_vars
    PROVE  QuietInv'
<1>0. DeltaTypeOK
  BY DEF DeltaInv
<1>1. CASE Start
  BY <1>0, <1>1, Starts, LoopFields DEF Start, StartDaemon, QuietInv, Parked
<1>2. CASE Crash
  BY <1>0, <1>2, LoopFields DEF Crash, QuietInv, Parked
<1>3. CASE WorkerPark
  BY <1>0, <1>3, Leaves, Flags DEF WorkerPark, At, QuietInv, Parked
<1>4. CASE WorkerCycle
  BY <1>0, <1>4, Leaves, Flags, Turns, LoopFields DEF WorkerCycle, At, QuietInv, Parked
<1>5. CASE WorkerIdentity
  <2>1. wk.pc # "loop" /\ (wk' = Loop \/ wk'.pc # "loop") /\ UNCHANGED <<up, coord, stop, idle, registered>>
    BY <1>0, <1>5, Leaves, Flags, Turns, LoopFields
  <2> QED BY <2>1, LoopFields DEF QuietInv, Parked
<1>6. CASE WorkerChanges
  <2>1. wk.pc # "loop" /\ (wk' = Loop \/ wk'.pc # "loop") /\ UNCHANGED <<up, coord, stop, idle, registered>>
    BY <1>0, <1>6, Leaves, Flags, Turns, LoopFields
  <2> QED BY <2>1, LoopFields DEF QuietInv, Parked
<1>7. CASE WorkerWrite
  <2>1. wk.pc # "loop" /\ (wk' = Loop \/ wk'.pc # "loop") /\ UNCHANGED <<up, coord, stop, idle, registered>>
    BY <1>0, <1>7, Leaves, Flags, Turns, LoopFields
  <2> QED BY <2>1, LoopFields DEF QuietInv, Parked
<1>8. CASE WorkerPublish
  <2>1. wk.pc # "loop" /\ (wk' = Loop \/ wk'.pc # "loop") /\ UNCHANGED <<up, coord, stop, idle, registered>>
    BY <1>0, <1>8, Leaves, Flags, Turns, LoopFields
  <2> QED BY <2>1, LoopFields DEF QuietInv, Parked
<1>9. CASE WorkerRepublish
  <2>1. wk.pc # "loop" /\ (wk' = Loop \/ wk'.pc # "loop") /\ UNCHANGED <<up, coord, stop, idle, registered>>
    BY <1>0, <1>9, Leaves, Flags, Turns, LoopFields
  <2> QED BY <2>1, LoopFields DEF QuietInv, Parked
<1>10. CASE WorkerRecordBlock
  <2>1. wk.pc # "loop" /\ (wk' = Loop \/ wk'.pc # "loop") /\ UNCHANGED <<up, coord, stop, idle, registered>>
    BY <1>0, <1>10, Leaves, Flags, Turns, LoopFields
  <2> QED BY <2>1, LoopFields DEF QuietInv, Parked
<1>11. CASE WorkerBlock
  <2>1. wk.pc # "loop" /\ (wk' = Loop \/ wk'.pc # "loop") /\ UNCHANGED <<up, coord, stop, idle, registered>>
    BY <1>0, <1>11, Leaves, Flags, Turns, LoopFields
  <2> QED BY <2>1, LoopFields DEF QuietInv, Parked
<1>12. CASE WorkerRebuild
  <2>1. wk.pc # "loop" /\ (wk' = Loop \/ wk'.pc # "loop") /\ UNCHANGED <<up, coord, stop, idle, registered>>
    BY <1>0, <1>12, Leaves, Flags, Turns, LoopFields
  <2> QED BY <2>1, LoopFields DEF QuietInv, Parked
<1>13. CASE WorkerBuild
  <2>1. wk.pc # "loop" /\ (wk' = Loop \/ wk'.pc # "loop") /\ UNCHANGED <<up, coord, stop, idle, registered>>
    BY <1>0, <1>13, Leaves, Flags, Turns, LoopFields
  <2> QED BY <2>1, LoopFields DEF QuietInv, Parked
<1>14. CASE WorkerRename
  <2>1. wk.pc # "loop" /\ (wk' = Loop \/ wk'.pc # "loop") /\ UNCHANGED <<up, coord, stop, idle, registered>>
    BY <1>0, <1>14, Leaves, Flags, Turns, LoopFields
  <2> QED BY <2>1, LoopFields DEF QuietInv, Parked
<1>15. CASE WorkerInstall
  <2>1. wk.pc # "loop" /\ (wk' = Loop \/ wk'.pc # "loop") /\ UNCHANGED <<up, coord, stop, idle, registered>>
    BY <1>0, <1>15, Leaves, Flags, Turns, LoopFields
  <2> QED BY <2>1, LoopFields DEF QuietInv, Parked
<1>16. CASE WorkerComplete
  BY <1>0, <1>16, Leaves, Flags, Turns, LoopFields DEF WorkerComplete, At, QuietInv, Parked
<1>17. CASE WorkerSweep
  <2>1. wk.pc # "loop" /\ (wk' = Loop \/ wk'.pc # "loop") /\ UNCHANGED <<up, coord, stop, idle, registered>>
    BY <1>0, <1>17, Leaves, Flags, Turns, LoopFields
  <2> QED BY <2>1, LoopFields DEF QuietInv, Parked
<1>18. CASE WorkerFault
  <2>1. wk.pc # "loop" /\ (wk' = Loop \/ wk'.pc # "loop") /\ UNCHANGED <<up, coord, stop, idle, registered>>
    BY <1>0, <1>18, Leaves, Flags, Turns, LoopFields DEF WorkerFault
  <2> QED BY <2>1, LoopFields DEF QuietInv, Parked
<1>19. CASE PrepareBegin
  BY <1>0, <1>19, Leaves, Flags DEF PrepareBegin, QuietInv, Parked, vars
<1>20. CASE PrepareIdle
  BY <1>0, <1>20, Leaves, Flags DEF PrepareIdle, QuietInv, Parked
<1>21. CASE PrepareTimeout
  BY <1>0, <1>21, Leaves, Flags DEF PrepareTimeout, QuietInv, Parked
<1>22. CASE Reopen
  BY <1>0, <1>22, Leaves, Flags DEF Reopen, QuietInv, Parked
<1>23. CASE Invalidate
  BY <1>0, <1>23, Leaves, Flags DEF Invalidate, QuietInv, Parked
<1>24. CASE InvalidateDrop
  BY <1>0, <1>24, Leaves, Flags DEF InvalidateDrop, QuietInv, Parked
<1>25. CASE RequestRebuild
  BY <1>0, <1>25, Leaves, Flags DEF RequestRebuild, QuietInv, Parked
<1>26. CASE UNCHANGED <<up, wk, coord, stop, idle, registered>>
  BY <1>26 DEF QuietInv, Parked
<1> QED BY <1>1, <1>2, <1>3, <1>4, <1>5, <1>6, <1>7, <1>8, <1>9, <1>10, <1>11, <1>12, <1>13, <1>14, <1>15, <1>16,
    <1>17, <1>18, <1>19, <1>20, <1>21, <1>22, <1>23, <1>24, <1>25, <1>26, Frames, FlagFrames

\* Every step keeps what the mirror projects to.
LEMMA MirrorExactStep ==
    ASSUME DeltaInv, QuietInv, SoundInv, [Next]_vars
    PROVE  MirrorExact'
<1>0. /\ DeltaTypeOK /\ GensInv /\ FileInv /\ MirrorInv /\ BatchInv /\ BuildInv /\ CoordInv
      /\ MirrorExact /\ BatchKept /\ FilesExact
  BY DEF DeltaInv, SoundInv
<1>1. CASE FactCommit
  <2>1. gen.h0 \in Nat /\ mirror.consumed \in -1..MaxLog
    BY <1>0, GenFields DEF DeltaTypeOK, MachineTypes, Mirrors
  <2>2. UNCHANGED <<epoch, gen, mirror>> /\ Len(log) \in Nat
    BY <1>0, <1>1, AppendFields
  <2>3. mirror.consumed # -1 /\ mirror.consumed <= Len(log) => Active(log', mirror.consumed) = Active(log, mirror.consumed)
    BY <1>0, <1>1, <2>1, AppendFields
  <2> QED BY <1>0, <2>1, <2>2, <2>3 DEF MirrorInv, MirrorNone, MirrorFits, MirrorExact, Exact
<1>2. CASE FactRetract
  <2>1. gen.h0 \in Nat /\ mirror.consumed \in -1..MaxLog
    BY <1>0, GenFields DEF DeltaTypeOK, MachineTypes, Mirrors
  <2>2. UNCHANGED <<epoch, gen, mirror>> /\ Len(log) \in Nat
    BY <1>0, <1>2, AppendFields
  <2>3. mirror.consumed # -1 /\ mirror.consumed <= Len(log) => Active(log', mirror.consumed) = Active(log, mirror.consumed)
    BY <1>0, <1>2, <2>1, AppendFields
  <2> QED BY <1>0, <2>1, <2>2, <2>3 DEF MirrorInv, MirrorNone, MirrorFits, MirrorExact, Exact
<1>3. CASE ReplaceFacts
  <2>1. gen.epoch <= epoch /\ gen.epoch \in Nat /\ epoch \in Nat
    BY <1>0, GenFields DEF GensInv, Sound, DeltaTypeOK, MachineTypes, FactTypes
  <2> QED BY <1>0, <1>3, <2>1, ReplaceFields DEF MirrorExact
<1>4. CASE Start
  <2>1. UNCHANGED <<epoch, log>>
    BY <1>4, Leaves
  <2> QED BY <1>0, <1>4, <2>1, StartExact, LoopFields DEF MirrorExact, Exact
<1>5. CASE Crash
  BY <1>5, LoopFields DEF Crash, MirrorExact
<1>6. CASE WorkerWrite
  <2>1. UNCHANGED <<epoch, log, gen>> /\ wk.pc = "write"
    BY <1>0, <1>6, Leaves, Turns
  <2>2. CASE mirror' = mirror
    BY <1>0, <2>1, <2>2 DEF MirrorExact, Exact
  <2>3. CASE mirror' # mirror
    <3>1. wk.lo # -1 /\ mirror.consumed = wk.lo
      BY <1>0, <2>1, BoundsAssumption DEF DeltaTypeOK, Cycles, BatchKept
    <3> QED BY <1>0, <1>6, <2>1, <2>3, <3>1, BatchMirrors DEF MirrorExact, Exact
  <2> QED BY <2>2, <2>3
<1>7. CASE WorkerRebuild
  BY <1>7, LoopFields DEF WorkerRebuild, MirrorExact
<1>8. CASE WorkerInstall
  <2>1. gen' = wk.gen /\ mirror' = FreshMirror(wk.gen) /\ UNCHANGED <<epoch, log>>
    BY <1>8, Leaves DEF WorkerInstall
  <2>2. wk.gen \in Gen /\ Sound(wk.gen)
    BY <1>0, <1>8, Turns DEF BuildInv, BuildGens, GensInv
  <2> QED BY <1>0, <2>1, <2>2, FreshExact DEF MirrorExact, Exact
<1>9. CASE InvalidateDrop
  BY <1>9, LoopFields DEF InvalidateDrop, MirrorExact
<1>10. CASE UNCHANGED <<epoch, log, gen, path, mirror>>
  BY <1>0, <1>10 DEF MirrorExact, Exact
<1> QED BY <1>1, <1>2, <1>3, <1>4, <1>5, <1>6, <1>7, <1>8, <1>9, <1>10, Frames

\* No step drops the mirror under a batch.
LEMMA BatchKeptStep ==
    ASSUME DeltaInv, QuietInv, SoundInv, [Next]_vars
    PROVE  BatchKept'
<1>0. /\ DeltaTypeOK /\ GensInv /\ FileInv /\ MirrorInv /\ BatchInv /\ BuildInv /\ CoordInv
      /\ MirrorExact /\ BatchKept /\ FilesExact
  BY DEF DeltaInv, SoundInv
<1>1. CASE Start
  BY <1>1, Starts, LoopFields DEF BatchKept
<1>2. CASE Crash
  BY <1>2, LoopFields DEF Crash, BatchKept
<1>3. CASE WorkerCycle
  BY <1>0, <1>3, Leaves, Turns, LoopFields DEF BatchKept
<1>4. CASE WorkerIdentity
  BY <1>0, <1>4, Leaves, Turns, LoopFields DEF BatchKept
<1>5. CASE WorkerChanges
  BY <1>0, <1>5, Leaves, Turns, LoopFields DEF BatchKept
<1>6. CASE WorkerWrite
  BY <1>0, <1>6, Leaves, Turns, LoopFields DEF BatchKept
<1>7. CASE WorkerPublish
  BY <1>0, <1>7, Leaves, Turns, LoopFields DEF BatchKept
<1>8. CASE WorkerRepublish
  BY <1>0, <1>8, Leaves, Turns, LoopFields DEF BatchKept
<1>9. CASE WorkerRecordBlock
  BY <1>0, <1>9, Leaves, Turns, LoopFields DEF BatchKept
<1>10. CASE WorkerBlock
  BY <1>0, <1>10, Leaves, Turns, LoopFields DEF BatchKept
<1>11. CASE WorkerRebuild
  BY <1>0, <1>11, Leaves, Turns, LoopFields DEF BatchKept
<1>12. CASE WorkerBuild
  BY <1>0, <1>12, Leaves, Turns, LoopFields DEF BatchKept
<1>13. CASE WorkerRename
  BY <1>0, <1>13, Leaves, Turns, LoopFields DEF BatchKept
<1>14. CASE WorkerInstall
  BY <1>0, <1>14, Leaves, Turns, LoopFields DEF BatchKept
<1>15. CASE WorkerComplete
  BY <1>0, <1>15, Leaves, Turns, LoopFields DEF BatchKept
<1>16. CASE WorkerSweep
  BY <1>0, <1>16, Leaves, Turns, LoopFields DEF BatchKept
<1>17. CASE WorkerFault
  BY <1>0, <1>17, Leaves, Turns, LoopFields DEF BatchKept
<1>18. CASE InvalidateDrop
  BY <1>0, <1>18, Leaves, LoopFields DEF InvalidateDrop, QuietInv, Parked, BatchKept
<1>19. CASE UNCHANGED <<mirror, wk>>
  BY <1>0, <1>19 DEF BatchKept
<1> QED BY <1>1, <1>2, <1>3, <1>4, <1>5, <1>6, <1>7, <1>8, <1>9, <1>10, <1>11, <1>12, <1>13, <1>14, <1>15, <1>16,
    <1>17, <1>18, <1>19, Frames

\* Files that are kept or emptied still project to the facts.
LEMMA ExactKept ==
    ASSUME FilesExact, UNCHANGED <<epoch, log>>,
           \A p \in DOMAIN ckpt' : ckpt'[p] = NoFile \/ (p \in DOMAIN ckpt /\ ckpt'[p] = ckpt[p])
    PROVE  FilesExact'
<1>1. \A p \in DOMAIN ckpt' : ckpt'[p] # NoFile /\ ckpt'[p].epoch = epoch => Exact(ckpt'[p].base, ckpt'[p])
  BY DEF FilesExact
<1> QED BY <1>1 DEF FilesExact, Exact

\* One file is written, the others still project to the facts.
LEMMA ExactWritten ==
    ASSUME FilesExact, UNCHANGED <<epoch, log>>, NEW p \in DOMAIN ckpt, NEW f, ckpt' = [ckpt EXCEPT ![p] = f],
           f.epoch = epoch => Exact(f.base, f)
    PROVE  FilesExact'
<1>1. \A q \in DOMAIN ckpt' : ckpt'[q] # NoFile /\ ckpt'[q].epoch = epoch => Exact(ckpt'[q].base, ckpt'[q])
  BY DEF FilesExact
<1> QED BY <1>1 DEF FilesExact, Exact

\* Every step keeps what the checkpoint files project to.
LEMMA FilesExactStep ==
    ASSUME DeltaInv, QuietInv, SoundInv, MirrorExact', [Next]_vars
    PROVE  FilesExact'
<1>0. /\ DeltaTypeOK /\ GensInv /\ FileInv /\ MirrorInv /\ BatchInv /\ BuildInv /\ CoordInv
      /\ MirrorExact /\ BatchKept /\ FilesExact
  BY DEF DeltaInv, SoundInv
<1>1. CASE FactCommit
  <2>1. ASSUME NEW p \in DOMAIN ckpt, ckpt[p] # NoFile, ckpt[p].epoch = epoch
        PROVE  Active(log', ckpt[p].consumed) = Active(log, ckpt[p].consumed)
    <3>1. FileOK(p, ckpt[p]) /\ ckpt[p].consumed \in Nat
      BY <1>0, <2>1, FilePlaces DEF FileInv
    <3> QED BY <1>0, <1>1, <2>1, <3>1, AppendFields DEF FileOK
  <2>2. UNCHANGED <<epoch, ckpt>>
    BY <1>0, <1>1, AppendFields
  <2> QED BY <1>0, <2>1, <2>2 DEF FilesExact, Exact
<1>2. CASE FactRetract
  <2>1. ASSUME NEW p \in DOMAIN ckpt, ckpt[p] # NoFile, ckpt[p].epoch = epoch
        PROVE  Active(log', ckpt[p].consumed) = Active(log, ckpt[p].consumed)
    <3>1. FileOK(p, ckpt[p]) /\ ckpt[p].consumed \in Nat
      BY <1>0, <2>1, FilePlaces DEF FileInv
    <3> QED BY <1>0, <1>2, <2>1, <3>1, AppendFields DEF FileOK
  <2>2. UNCHANGED <<epoch, ckpt>>
    BY <1>0, <1>2, AppendFields
  <2> QED BY <1>0, <2>1, <2>2 DEF FilesExact, Exact
<1>3. CASE ReplaceFacts
  <2>1. ASSUME NEW p \in DOMAIN ckpt, ckpt[p] # NoFile PROVE ckpt[p].epoch # epoch'
    <3>1. FileOK(p, ckpt[p]) /\ ckpt[p].epoch \in Nat /\ epoch \in Nat
      BY <1>0, <2>1, FilePlaces DEF FileInv, DeltaTypeOK, FactTypes
    <3> QED BY <1>0, <1>3, <3>1, ReplaceFields DEF FileOK, Sound
  <2> QED BY <1>0, <1>3, <2>1, ReplaceFields DEF FilesExact
<1>4. CASE Start
  <2>1. UNCHANGED <<epoch, log>>
    BY <1>4, Leaves
  <2>2. ckpt' \in {WithDir(ckpt, G0), WithDir(Dropped(G0), G0)}
    BY <1>4 DEF Start, StartOpen, StartBuild, StartBlocked, StartRefused, StartEmpty, StartWith
  <2> QED BY <1>0, <2>1, <2>2, FilesLeft, ExactKept
<1>5. CASE StartupSweep
  <2>1. UNCHANGED <<epoch, log>> /\ ckpt' = SweptCkpt(IF Published THEN {G0} ELSE {})
    BY <1>5, Leaves DEF StartupSweep
  <2> QED BY <1>0, <2>1, FilesLeft, ExactKept
<1>6. CASE WorkerWrite
  <2>1. UNCHANGED <<epoch, log>>
    BY <1>6, Leaves
  <2>2. CASE ckpt' = ckpt
    BY <1>0, <2>1, <2>2, ExactKept
  <2>3. CASE ckpt' # ckpt
    <3> DEFINE f == [base |-> gen, epoch |-> wk.epoch, consumed |-> wk.hi, rows |-> FileAt(path).rows \cup wk.rows,
                     tombs |-> FileAt(path).tombs \cup wk.tombs, blocked |-> FileAt(path).blocked]
    <3>1. /\ path \in DOMAIN ckpt /\ ckpt' = [ckpt EXCEPT ![path] = f] /\ wk.pc = "write" /\ gen' = gen
          /\ mirror' = [consumed |-> wk.hi, rows |-> mirror.rows \cup wk.rows, tombs |-> mirror.tombs \cup wk.tombs]
      BY <1>6, <2>3 DEF WorkerWrite, At
    <3>2. gen # NoGen /\ wk.epoch = gen.epoch /\ wk.hi # -1
      BY <1>0, <3>1, BoundsAssumption DEF BatchInv, BatchWindow, DeltaTypeOK, Cycles
    <3>3. f.base = gen /\ f.epoch = gen.epoch /\ f.consumed = mirror'.consumed /\ f.rows = mirror'.rows /\ f.tombs = mirror'.tombs
      BY <3>1, <3>2 DEF DeltaInv, PathInv, PathFile, FileAt
    <3> HIDE DEF f
    <3>4. f.epoch = epoch => Exact(f.base, f)
      <4>1. mirror'.consumed # -1
        BY <3>1, <3>2
      <4> QED BY <2>1, <3>1, <3>3, <4>1 DEF MirrorExact, Exact
    <3> QED BY <1>0, <2>1, <3>1, <3>4, ExactWritten
  <2> QED BY <2>2, <2>3
<1>7. CASE WorkerRecordBlock
  <2>1. UNCHANGED <<epoch, log>>
    BY <1>7, Leaves
  <2>2. CASE ckpt' = ckpt
    BY <1>0, <2>1, <2>2, ExactKept
  <2>3. CASE ckpt' # ckpt
    <3> DEFINE f == [base |-> gen, epoch |-> gen.epoch, consumed |-> mirror.consumed, rows |-> FileAt(path).rows,
                     tombs |-> FileAt(path).tombs, blocked |-> TRUE]
    <3>1. gen # NoGen /\ mirror.consumed # -1 /\ path \in DOMAIN ckpt /\ ckpt' = [ckpt EXCEPT ![path] = f]
      BY <1>7, <2>3 DEF WorkerRecordBlock
    <3>2. f.base = gen /\ f.epoch = gen.epoch /\ f.consumed = mirror.consumed /\ f.rows = mirror.rows /\ f.tombs = mirror.tombs
      BY <3>1 DEF DeltaInv, PathInv, PathFile, FileAt
    <3> HIDE DEF f
    <3>3. f.epoch = epoch => Exact(f.base, f)
      BY <1>0, <3>1, <3>2 DEF MirrorExact, Exact
    <3> QED BY <1>0, <2>1, <3>1, <3>3, ExactWritten
  <2> QED BY <2>2, <2>3
<1>8. CASE WorkerRebuild
  <2>1. UNCHANGED <<epoch, log>> /\ ckpt' = Dropped(path)
    BY <1>8, Leaves DEF WorkerRebuild
  <2> QED BY <1>0, <2>1, FilesLeft, ExactKept
<1>9. CASE WorkerInstall
  <2>1. UNCHANGED <<epoch, log>> /\ ckpt' = WithDir(ckpt, wk.gen)
    BY <1>9, Leaves DEF WorkerInstall
  <2> QED BY <1>0, <2>1, FilesLeft, ExactKept
<1>10. CASE WorkerSweep
  <2>1. UNCHANGED <<epoch, log>> /\ ckpt' = SweptCkpt({wk.gen})
    BY <1>10, Leaves DEF WorkerSweep
  <2> QED BY <1>0, <2>1, FilesLeft, ExactKept
<1>11. CASE RetryClean
  <2>1. UNCHANGED <<epoch, log>>
    BY <1>11, Leaves
  <2>2. CASE ckpt' = ckpt
    BY <1>0, <2>1, <2>2, ExactKept
  <2>3. CASE ckpt' # ckpt
    <3> DEFINE f == [ckpt[path] EXCEPT !.blocked = FALSE]
    <3>1. path \in DOMAIN ckpt /\ ckpt[path] # NoFile /\ ckpt' = [ckpt EXCEPT ![path] = f]
      BY <1>11, <2>3 DEF RetryClean, FileAt
    <3>2. ckpt[path] \in Checkpoint
      BY <1>0, <3>1, FilePlaces
    <3>3. f.base = ckpt[path].base /\ f.epoch = ckpt[path].epoch /\ f.consumed = ckpt[path].consumed
          /\ f.rows = ckpt[path].rows /\ f.tombs = ckpt[path].tombs
      BY <3>2 DEF Checkpoint
    <3> HIDE DEF f
    <3>4. f.epoch = epoch => Exact(f.base, f)
      BY <1>0, <3>1, <3>3 DEF FilesExact, Exact
    <3> QED BY <1>0, <2>1, <3>1, <3>4, ExactWritten
  <2> QED BY <2>2, <2>3
<1>12. CASE InvalidateDrop
  <2>1. UNCHANGED <<epoch, log>> /\ ckpt' = Dropped(path)
    BY <1>12, Leaves DEF InvalidateDrop
  <2> QED BY <1>0, <2>1, FilesLeft, ExactKept
<1>13. CASE UNCHANGED <<epoch, log, ckpt>>
  BY <1>0, <1>13, ExactKept
<1> QED BY <1>1, <1>2, <1>3, <1>4, <1>5, <1>6, <1>7, <1>8, <1>9, <1>10, <1>11, <1>12, <1>13, Frames

\* In the states of the invariant, what the constructor accepts is the facts.
LEMMA SoundShows == ASSUME DeltaInv, SoundInv PROVE CheckpointSound
<1> SUFFICES ASSUME NEW p \in DOMAIN ckpt, ckpt[p] # NoFile, ckpt[p].epoch = epoch
             PROVE  /\ ckpt[p].consumed <= Len(log)
                    /\ Snapshot(ckpt[p].base, MirrorOf(ckpt[p])).active = Active(log, ckpt[p].consumed)
  BY DEF CheckpointSound
<1>1. FileOK(p, ckpt[p]) /\ Exact(ckpt[p].base, ckpt[p])
  BY DEF DeltaInv, SoundInv, FileInv, FilesExact
<1>2. MirrorOf(ckpt[p]).rows = ckpt[p].rows /\ MirrorOf(ckpt[p]).tombs = ckpt[p].tombs
  BY DEF MirrorOf
<1>3. Snapshot(ckpt[p].base, MirrorOf(ckpt[p])).active = (ckpt[p].base.rows \cup ckpt[p].rows) \ ckpt[p].tombs
  BY <1>2, SnapshotFields
<1>4. ckpt[p].consumed <= Len(log)
  BY <1>1 DEF FileOK
<1> QED BY <1>1, <1>3, <1>4 DEF Exact

\* When each maintenance round finds the machine registered, the worker stays
\* parked and what is written to disk is exact.
LEMMA RegisteredHolds == Spec /\ [][PrepareBegin => registered]_vars => [](DeltaInv /\ QuietInv /\ SoundInv)
<1>1. Init => DeltaInv /\ QuietInv /\ SoundInv
  <2>1. Init => QuietInv
    BY LoopFields DEF Init, QuietInv, Parked
  <2>2. Init => SoundInv
    BY LoopFields DEF Init, SoundInv, MirrorExact, BatchKept, FilesExact
  <2> QED BY <2>1, <2>2, InitInv
<1>2. ASSUME DeltaInv, QuietInv, SoundInv, [Next]_vars, [PrepareBegin => registered]_vars
      PROVE  (DeltaInv /\ QuietInv /\ SoundInv)'
  <2>1. DeltaInv' /\ QuietInv'
    BY <1>2, InvStep, QuietStep
  <2>2. MirrorExact' /\ BatchKept'
    BY <1>2, MirrorExactStep, BatchKeptStep
  <2>3. FilesExact'
    BY <1>2, <2>2, FilesExactStep
  <2> QED BY <2>1, <2>2, <2>3 DEF SoundInv
<1> QED BY <1>1, <1>2, PTL DEF Spec

\* "Callers must quiesce the worker first (maintenance prepare does)": as long
\* as every round finds the machine registered, derived state is only
\* discarded under a parked worker.
THEOREM InvalidateQuiescedHolds == Spec /\ [][PrepareBegin => registered]_vars => []InvalidateQuiesced
<1>1. QuietInv => InvalidateQuiesced
  BY DEF QuietInv, Parked, InvalidateQuiesced
<1> QED BY <1>1, RegisteredHolds, PTL

\* As long as every round finds the machine registered, a checkpoint that the
\* constructor would accept projects to the facts, in every store, with any
\* number of crashes, faults and restarts.
THEOREM CheckpointsSoundHold == Spec /\ [][PrepareBegin => registered]_vars => []CheckpointSound
<1>1. DeltaInv /\ SoundInv => CheckpointSound
  BY SoundShows
<1> QED BY <1>1, RegisteredHolds, PTL

\* The first round of all finds the machine registered.
LEMMA FirstRound == ASSUME MaxRounds <= 1 PROVE Spec => [][PrepareBegin => registered]_vars
<1> DEFINE Fresh == rounds \in Nat /\ (up /\ rounds = 0 => registered /\ coord = "serving")
<1>1. Init => Fresh
  BY DEF Init
<1>2. ASSUME Fresh, [Next]_vars PROVE Fresh'
  <2>1. CASE Start
    BY <1>2, <2>1 DEF Start, StartDaemon
  <2>2. CASE Crash
    BY <1>2, <2>2 DEF Crash
  <2>3. CASE PrepareBegin
    BY <1>2, <2>3 DEF PrepareBegin
  <2>4. CASE PrepareIdle
    BY <1>2, <2>4 DEF PrepareIdle, coordVars, ctlVars
  <2>5. CASE PrepareTimeout
    BY <1>2, <2>5 DEF PrepareTimeout, coordVars, ctlVars
  <2>6. CASE WorkerComplete
    BY <1>2, <2>6 DEF WorkerComplete, At, ctlVars
  <2>7. CASE Reopen \/ Invalidate \/ InvalidateDrop \/ RequestRebuild
    BY <1>2, <2>7 DEF Reopen, Invalidate, InvalidateDrop, RequestRebuild, ctlVars
  <2>8. CASE UNCHANGED <<rounds, up, registered, coord>>
    BY <1>2, <2>8
  <2> QED BY <1>2, <2>1, <2>2, <2>3, <2>4, <2>5, <2>6, <2>7, <2>8, Frames, FlagFrames
<1>3. Fresh /\ [Next]_vars => [PrepareBegin => registered]_vars
  BY BoundsAssumption DEF PrepareBegin
<1> HIDE DEF Fresh
<1> QED BY <1>1, <1>2, <1>3, PTL DEF Spec

\* The checkpoints of a daemon that goes through one maintenance round, with
\* any number of crashes, faults and restarts.
THEOREM CheckpointSoundHolds == ASSUME MaxRounds <= 1 PROVE Spec => []CheckpointSound
  BY FirstRound, CheckpointsSoundHold, PTL


=============================================================================
