------------------------- MODULE RecorderCoordinatorProofs -------------------------
(***************************************************************************)
(* Proofs about RecorderCoordinator, for every number of processes, items, *)
(* limits, crashes and leases.                                             *)
(*                                                                         *)
(* Whatever fails: the store receives the items of a process in the order  *)
(* of their submission (AcceptedInOrder), no count names an item that is   *)
(* stored or still queued (CountsHonest), and without failures the record  *)
(* is exact (GapExact). While at most three durable operations fail, a     *)
(* loss leaves evidence that no read misses (EvidenceHonest).              *)
(*                                                                         *)
(* The invariant is a conjunction of parts, each about one process or      *)
(* about the files all share. For every part there is one lemma about the  *)
(* process that moves and one about the others. The lemmas named <A>Does   *)
(* say what an action does to the process that takes it, so that the       *)
(* proofs above them need not open the action again.                       *)
(***************************************************************************)
EXTENDS RecorderCoordinator, SequenceTheorems, TLAPS
-----------------------------------------------------------------------------
(***************************************************************************)
(* The inductive invariant.                                                *)
(***************************************************************************)

Lives == {"new", "up", "stopping", "stopped", "crashed"}
Outcomes == {"buffered", "gap", "late"}
Results == {"pending", "none", "present", "unknown"}

\* The types of the variables, without the limits of the queue.
InputTypes ==
    /\ life \in [Procs -> Lives] /\ queue \in [Procs -> Seq(Item)]
    /\ submitted \in [Procs -> 0 .. MaxItems] /\ outcome \in [Procs -> Seq(Outcomes)]
    /\ pending \in [Procs -> SUBSET Lossy] /\ flushing \in [Procs -> SUBSET Lossy]
WorkerTypes ==
    /\ workerAt \in [Procs -> WorkerPCs] /\ started \in [Procs -> BOOLEAN]
    /\ ready \in [Procs -> BOOLEAN] /\ clean \in [Procs -> BOOLEAN]
    /\ gapReady \in [Procs -> BOOLEAN] /\ marker \in [Procs -> MarkerStates]
DiskTypes ==
    /\ intents \in SUBSET Procs /\ orphans \in BOOLEAN
    /\ gapLock \in LockStates /\ holder \in Procs \cup {NoProc}
    /\ gapJson \in [state : GapStates, counts : SUBSET Lossy]
    /\ stored \in Seq(Lossy)
BoundTypes ==
    /\ lease \in BOOLEAN /\ leases \in 0 .. MaxLeases
    /\ ioFaults \in 0 .. MaxIoFaults /\ processCrashes \in 0 .. MaxProcessCrashes
ReaderTypes ==
    reader \in [pc : ReaderPCs, unscanned : SUBSET Procs,
                 crashed : BOOLEAN, locked : BOOLEAN,
                 lockState : LockStates, json : GapStates,
                 result : Results, evident : BOOLEAN]
Types == InputTypes /\ WorkerTypes /\ DiskTypes /\ BoundTypes /\ ReaderTypes

Submits(p) == \E r \in Ids \cup {NoBatch} : Submit(p, r)

\* Control points: before the loop, while a gap is flushed, with the exclusive
\* flock on recording_gap.lock, with an intent on disk.
Preparing == {"marker", "ensure", "ensure_json"}
Flushing == {"begin_gap", "intent", "update_lock", "update_json", "publish_json",
             "publish_lock", "mark_lock", "mark_json", "remove_intent",
             "end_clean", "end_unknown"}
Holding == {"ensure_json", "update_json", "publish_json", "publish_lock", "mark_json"}
Announced == Flushing \ {"begin_gap", "intent"}

\* The worker: it runs while its process is alive, and at each control point it
\* has in hand what it is about to write.
WorkerInv(p) ==
    /\ workerAt[p] = "off" <=> ~ Alive(p)
    /\ ~ started[p] => workerAt[p] \in Preparing \cup {"off"} /\ ~ gapReady[p]
    /\ life[p] = "new" => ~ started[p]
    /\ workerAt[p] \in {"off", "wait", "persist"} \/ ~ started[p] => flushing[p] = {}
    /\ workerAt[p] \in Flushing => flushing[p] # {}
    /\ ~ Alive(p) => queue[p] = <<>>
    /\ (\/ workerAt[p] = "persist"
        \/ workerAt[p] \in Preparing /\ started[p] /\ flushing[p] = {})
       => queue[p] # <<>>

\* The marker: what the process believes of it is what is on disk.
MarkerInv(p) ==
    /\ ready[p] => Alive(p) /\ marker[p] # "absent"
    /\ Alive(p) /\ ~ ready[p] => marker[p] = "absent"
    /\ life[p] = "new" => marker[p] = "absent"
    /\ clean[p] => ready[p] /\ marker[p] = "clean"
    /\ workerAt[p] = "marker" => ~ ready[p]
    /\ p \in intents => workerAt[p] \in Announced
    /\ workerAt[p] \in {"update_lock", "update_json", "publish_json", "publish_lock"} => p \in intents
    /\ workerAt[p] = "end_clean" => p \notin intents

\* The record of the gap: it has one writer, it only grows, and it is made at
\* least "unknown" before the evidence of the update is taken back.
Recorded == gapJson.state \in {"present", "unknown"}
RecordInv(p) ==
    /\ holder = p <=> workerAt[p] \in Holding
    /\ workerAt[p] = "ensure_json" => gapJson.state = "missing"
    /\ workerAt[p] \in {"update_json", "publish_json"} => gapJson.counts \subseteq flushing[p]
    /\ workerAt[p] \in {"publish_json", "publish_lock", "remove_intent", "end_clean"} => Recorded
NoCountsYet == gapJson.state \in {"missing", "none"} => gapJson.counts = {}

\* The order of the items: what is queued is younger than what is stored.
OrderInv(p) ==
    /\ \A i \in DOMAIN queue[p] : queue[p][i].id \in 1 .. submitted[p]
    /\ \A i, j \in DOMAIN queue[p] : i < j => queue[p][i].id < queue[p][j].id
    /\ \A k \in DOMAIN stored : stored[k][1] = p =>
          /\ stored[k][2] \in 1 .. submitted[p]
          /\ \A i \in DOMAIN queue[p] : stored[k][2] < queue[p][i].id

\* The books: an item is in one place only.
Unstored(x) ==
    /\ x[2] \in 1 .. submitted[x[1]]
    /\ x \notin StoredSet
    /\ x \notin QueuedIds(x[1])
Dropped(x) == Unstored(x) /\ x \notin pending[x[1]]
BooksInv(p) ==
    /\ \A x \in flushing[p] : Dropped(x)
    /\ \A x \in pending[p] : x[1] = p /\ Unstored(x)
CountsInv == \A x \in gapJson.counts : Dropped(x)

\* What came after the worker stopped is pending, and nothing else.
LateInv(p) ==
    /\ Len(outcome[p]) = submitted[p]
    /\ life[p] = "new" => submitted[p] = 0
    /\ \A i \in 1 .. submitted[p] :
          outcome[p][i] = "late" => life[p] = "stopped" /\ <<p, i>> \in pending[p]
    /\ life[p] = "stopped" =>
          \A x \in pending[p] : outcome[p][x[2]] = "late"

\* Evidence: an item of a process that has not crashed is stored, held by the
\* process, or evident.
BadMarker(p) == marker[p] \in {"pending", "unknown", "torn"}
Evident(p) == Recorded \/ orphans \/ BadMarker(p)
Held(p) == StoredSet \cup QueuedIds(p) \cup pending[p] \cup flushing[p]
AccountInv(p) ==
    life[p] # "crashed" => \A i \in 1 .. submitted[p] : <<p, i>> \in Held(p) \/ Evident(p)

\* A gap that is not evident yet has already cost faults: every durable write
\* that failed counts one, a marker that could not be created two.
Cost(p, n) == Evident(p) \/ ioFaults >= (IF ready[p] THEN n ELSE n + 1)
CostInv(p) ==
    /\ Alive(p) /\ ~ ready[p] /\ (started[p] \/ workerAt[p] # "marker") => ioFaults >= 1
    /\ Alive(p) /\ ~ ready[p] /\ started[p] /\ workerAt[p] \notin {"marker", "wait"}
       => ioFaults >= 2
    /\ workerAt[p] = "intent" => Cost(p, 1)
    /\ workerAt[p] \in {"mark_lock", "mark_json"} => p \in intents \/ Cost(p, 2)
    /\ workerAt[p] = "end_unknown" => p \in intents \/ Cost(p, 3)

\* Without faults and crashes: every step succeeds, and the record and its lock
\* agree whenever nobody is writing them.
Faultless == ioFaults = 0 /\ processCrashes = 0
FaultlessInv(p) == Faultless =>
    /\ life[p] # "crashed"
    /\ life[p] = "stopped" => marker[p] = "absent"
    /\ workerAt[p] \notin {"mark_lock", "mark_json", "end_unknown"}
    /\ Alive(p) /\ workerAt[p] # "marker" => ready[p]
    /\ workerAt[p] \in {"ensure", "ensure_json", "wait", "begin_gap", "persist"} => clean[p]
    /\ started[p] => gapJson.state # "missing"
    /\ life[p] = "stopped" => started[p]
    /\ workerAt[p] = "ensure_json" => gapLock = "safe"
    /\ workerAt[p] = "update_json" => gapJson.state \in {"none", "present"}
    /\ workerAt[p] = "publish_lock" => gapJson.state = "present"
    /\ workerAt[p] \in {"publish_lock", "remove_intent", "end_clean"}
       => flushing[p] \subseteq gapJson.counts
CountedInv(p) == Faultless =>
    \A i \in 1 .. submitted[p] : <<p, i>> \in Held(p) \cup gapJson.counts
AtRestInv == Faultless =>
    /\ ~ orphans
    /\ holder = NoProc =>
          \/ gapJson.state = "missing" /\ gapLock = "missing"
          \/ gapJson.state = "none" /\ gapLock = "safe"
          \/ gapJson.state = "present" /\ gapLock = "present"
    /\ gapJson.state \in {"present", "unknown"} => gapJson.counts # {}

\* The reader: what was evident when it began it has still before it, or has
\* already noted.
Left(q) == BadMarker(q) \/ (life[q] \in {"crashed", "stopped"} /\ marker[q] # "absent")
ReaderInv == reader.evident =>
    /\ reader.pc = "markers" =>
          \/ Recorded \/ IntentOnDisk
          \/ \E q \in reader.unscanned : Left(q)
    /\ reader.pc = "intents" => reader.crashed \/ Recorded \/ IntentOnDisk
    /\ reader.pc \in {"lock", "recheck", "json"} => reader.crashed \/ Recorded
    /\ reader.pc = "decide" => reader.crashed \/ reader.json \in {"present", "unknown"}
    /\ reader.pc = "done" => reader.result # "none"
ReaderIdle == reader.pc = "idle" => ~ reader.evident

\* An item is queued, or becomes a gap.
LEMMA SubmitDoes ==
    ASSUME Types, NEW p \in Procs, NEW r, Submit(p, r)
    PROVE  /\ Alive(p) \/ life[p] = "stopped"
           /\ submitted[p] < MaxItems /\ submitted'[p] = submitted[p] + 1
           /\ \/ /\ life[p] = "up" /\ UNCHANGED pending
                 /\ outcome'[p] = Append(outcome[p], "buffered")
                 /\ queue'[p] = Append(queue[p], [id |-> submitted[p] + 1, retracts |-> r])
              \/ /\ UNCHANGED queue
                 /\ outcome'[p] = Append(outcome[p], IF life[p] = "stopped" THEN "late" ELSE "gap")
                 /\ pending'[p] = pending[p] \cup {<<p, submitted[p] + 1>>}
           /\ UNCHANGED <<life, flushing, workerAt, started, ready, clean, gapReady, marker, intents,
                          orphans, gapLock, holder, gapJson, stored, lease, leases, ioFaults,
                          processCrashes, reader>>
  BY DEF Submit, EnqueueOrGap, Types, InputTypes, WorkerTypes, disk, faultBounds


\* A process starts.
LEMMA StartDoes ==
    ASSUME Types, NEW p \in Procs, Start(p)
    PROVE  /\ life[p] = "new" /\ life'[p] = "up" /\ workerAt'[p] = "marker"
           /\ UNCHANGED <<queue, submitted, outcome, pending, flushing, started, ready, clean,
                          gapReady, marker, intents, orphans, gapLock, holder, gapJson, stored,
                          lease, leases, ioFaults, processCrashes, reader>>
  BY DEF Start, Types, InputTypes, WorkerTypes, Goto, disk, faultBounds

\* A process is told to stop.
LEMMA ShutdownDoes ==
    ASSUME Types, NEW p \in Procs, Shutdown(p)
    PROVE  /\ life[p] = "up" /\ life'[p] = "stopping"
           /\ UNCHANGED <<queue, submitted, outcome, pending, flushing, workerAt, started,
                          ready, clean, gapReady, marker, intents, orphans, gapLock, holder,
                          gapJson, stored, lease, leases, ioFaults, processCrashes, reader>>
  BY DEF Shutdown, Types, InputTypes, WorkerTypes, disk, faultBounds

\* The marker is created, or not.
LEMMA CreateMarkerDoes ==
    ASSUME Types, NEW p \in Procs, CreateMarker(p)
    PROVE  /\ workerAt[p] = "marker" /\ workerAt'[p] = AfterMarker(p)
           /\ \/ /\ ioFaults' = ioFaults
                 /\ marker'[p] = "clean" /\ ready'[p] /\ clean'[p]
              \/ /\ ioFaults < MaxIoFaults /\ ioFaults' = ioFaults + 1
                 /\ UNCHANGED <<marker, ready, clean>>
           /\ UNCHANGED <<life, queue, submitted, outcome, pending, flushing, started,
                          gapReady, intents, orphans, gapLock, holder, gapJson, stored, lease,
                          leases, processCrashes, reader>>
  BY
    DEF CreateMarker, Types, InputTypes, WorkerTypes, IoFault, NoIoFault, Goto, disk, faultBounds

\* The record is checked; the first process makes it.
LEMMA EnsureGapStateDoes ==
    ASSUME Types, NEW p \in Procs, EnsureGapState(p)
    PROVE  /\ workerAt[p] = "ensure" /\ LockFree
           /\ \/ /\ started'[p] /\ workerAt'[p] = Work(p) /\ holder' = holder
                 /\ \/ ioFaults < MaxIoFaults /\ ioFaults' = ioFaults + 1
                    \/ ioFaults' = ioFaults /\ IntentOnDisk /\ gapLock' = Opened
                    \/ /\ ioFaults' = ioFaults /\ ~ IntentOnDisk
                       /\ gapJson.state = "present" /\ Opened = "empty" /\ gapLock' = "present"
                    \/ /\ ioFaults' = ioFaults /\ ~ IntentOnDisk /\ gapLock' = Opened
                       /\ ~ (gapJson.state = "missing" /\ Opened = "empty")
              \/ /\ ioFaults' = ioFaults /\ ~ IntentOnDisk
                 /\ gapJson.state = "missing" /\ Opened = "empty" /\ gapLock' = "safe"
                 /\ holder' = p /\ workerAt'[p] = "ensure_json" /\ UNCHANGED <<started, gapReady>>
           /\ UNCHANGED <<life, queue, submitted, outcome, pending, flushing, ready, clean,
                          marker, intents, orphans, gapJson, stored, lease, leases,
                          processCrashes, reader>>
  BY
    DEF EnsureGapState, Types, InputTypes, WorkerTypes, IoFault, NoIoFault, Goto, EndEnsure,
    IntentOnDisk, disk, faultBounds

\* The first record is written, or not.
LEMMA EnsureWriteJsonDoes ==
    ASSUME Types, NEW p \in Procs, EnsureWriteJson(p)
    PROVE  /\ workerAt[p] = "ensure_json" /\ holder' = NoProc
           /\ started'[p] /\ workerAt'[p] = Work(p)
           /\ \/ ioFaults' = ioFaults /\ gapJson' = NoGap
              \/ /\ ioFaults < MaxIoFaults /\ ioFaults' = ioFaults + 1
                 /\ gapJson' \in {gapJson, NoGap}
           /\ UNCHANGED <<life, queue, submitted, outcome, pending, flushing, ready, clean,
                          marker, intents, orphans, gapLock, stored, lease, leases,
                          processCrashes, reader>>
  BY
    DEF EnsureWriteJson, Types, InputTypes, WorkerTypes, IoFault, NoIoFault, Goto, EndEnsure, disk,
    faultBounds

\* The worker takes what is pending, and what is queued when it stops.
LEMMA TakeGapDoes ==
    ASSUME Types, NEW p \in Procs, TakeGap(p)
    PROVE  /\ workerAt[p] = "wait" /\ workerAt'[p] = BeginWork(p)
           /\ pending'[p] = {} /\ flushing'[p] # {}
           /\ \/ /\ life[p] = "stopping" /\ queue'[p] = <<>>
                 /\ flushing'[p] = pending[p] \cup QueuedIds(p)
              \/ /\ life[p] # "stopping" /\ UNCHANGED queue
                 /\ flushing'[p] = pending[p]
           /\ UNCHANGED <<life, submitted, outcome, started, ready, clean, gapReady, marker,
                          intents, orphans, gapLock, holder, gapJson, stored, lease, leases,
                          ioFaults, processCrashes, reader>>
  BY DEF TakeGap, Types, InputTypes, WorkerTypes, Goto, disk, faultBounds

\* The worker turns to the item at the front.
LEMMA TakeItemDoes ==
    ASSUME Types, NEW p \in Procs, TakeItem(p)
    PROVE  /\ workerAt[p] = "wait" /\ workerAt'[p] = BeginWork(p)
           /\ life[p] = "up" /\ pending[p] = {} /\ queue[p] # <<>>
           /\ UNCHANGED <<life, queue, submitted, outcome, pending, flushing, started, ready,
                          clean, gapReady, marker, intents, orphans, gapLock, holder, gapJson,
                          stored, lease, leases, ioFaults, processCrashes, reader>>
  BY DEF TakeItem, Types, InputTypes, WorkerTypes, Goto, disk, faultBounds

\* The worker ends and takes its clean marker along.
LEMMA StopWorkerDoes ==
    ASSUME Types, NEW p \in Procs, StopWorker(p)
    PROVE  /\ workerAt[p] = "wait" /\ workerAt'[p] = "off"
           /\ life[p] = "stopping" /\ life'[p] = "stopped" /\ pending[p] = {} /\ queue[p] = <<>>
           /\ ~ ready'[p] /\ ~ clean'[p]
           /\ \/ /\ ioFaults' = ioFaults
                 /\ \/ ready[p] /\ clean[p] /\ marker'[p] = "absent"
                    \/ ~ (ready[p] /\ clean[p]) /\ UNCHANGED marker
              \/ /\ ioFaults < MaxIoFaults /\ ioFaults' = ioFaults + 1
                 /\ ready[p] /\ clean[p] /\ UNCHANGED marker
           /\ UNCHANGED <<queue, submitted, outcome, pending, flushing, started, gapReady,
                          intents, orphans, gapLock, holder, gapJson, stored, lease, leases,
                          processCrashes, reader>>
  BY DEF StopWorker, Types, InputTypes, WorkerTypes, IoFault, NoIoFault, Goto, disk, faultBounds

\* The marker announces the gap, or fails to.
LEMMA BeginGapDoes ==
    ASSUME Types, NEW p \in Procs, BeginGap(p)
    PROVE  /\ workerAt[p] = "begin_gap" /\ workerAt'[p] = "intent"
           /\ \/ ~ ready[p] /\ ioFaults' = ioFaults /\ UNCHANGED <<marker, clean>>
              \/ ready[p] /\ ioFaults' = ioFaults /\ marker'[p] = "pending" /\ ~ clean'[p]
              \/ /\ ready[p] /\ ioFaults < MaxIoFaults /\ ioFaults' = ioFaults + 1
                 /\ marker'[p] \in {marker[p], "torn", "pending"} /\ ~ clean'[p]
           /\ UNCHANGED <<life, queue, submitted, outcome, pending, flushing, started, ready,
                          gapReady, intents, orphans, gapLock, holder, gapJson, stored, lease,
                          leases, processCrashes, reader>>
  BY
    DEF BeginGap, Types, InputTypes, WorkerTypes, IoFault, NoIoFault, Goto, WriteMarker,
    GapStepUnchanged, disk, faultBounds

\* The intent announces the gap, or fails to.
LEMMA CreateGapIntentDoes ==
    ASSUME Types, NEW p \in Procs, CreateGapIntent(p)
    PROVE  /\ workerAt[p] = "intent"
           /\ \/ /\ ioFaults' = ioFaults /\ workerAt'[p] = "update_lock"
                 /\ intents' = intents \cup {p} /\ orphans' = orphans
              \/ /\ ioFaults < MaxIoFaults /\ ioFaults' = ioFaults + 1 /\ workerAt'[p] = "mark_lock"
                 /\ intents' = intents /\ orphans' \in {orphans, TRUE}
           /\ UNCHANGED <<life, queue, submitted, outcome, pending, flushing, started, ready,
                          clean, gapReady, marker, gapLock, holder, gapJson, stored, lease,
                          leases, processCrashes, reader>>
  BY
    DEF CreateGapIntent, Types, InputTypes, WorkerTypes, IoFault, NoIoFault, Goto, GapStepUnchanged,
    disk, faultBounds

\* The lock state is made unknown and the record is read.
LEMMA UpdateLockDoes ==
    ASSUME Types, NEW p \in Procs, UpdateLock(p)
    PROVE  /\ workerAt[p] = "update_lock" /\ LockFree
           /\ \/ /\ ioFaults' = ioFaults /\ gapLock' = "unknown" /\ gapJson.state = "unknown"
                 /\ workerAt'[p] = "remove_intent" /\ UNCHANGED <<flushing, holder>>
              \/ /\ ioFaults' = ioFaults /\ gapLock' = "unknown" /\ gapJson.state # "unknown"
                 /\ workerAt'[p] = "update_json" /\ holder' = p
                 /\ flushing'[p] = flushing[p] \cup gapJson.counts
              \/ /\ ioFaults < MaxIoFaults /\ ioFaults' = ioFaults + 1
                 /\ workerAt'[p] = "mark_lock" /\ UNCHANGED <<flushing, holder>>
           /\ UNCHANGED <<life, queue, submitted, outcome, pending, started, ready, clean,
                          gapReady, marker, intents, orphans, gapJson, stored, lease, leases,
                          processCrashes, reader>>
  BY
    DEF UpdateLock, Types, InputTypes, WorkerTypes, IoFault, NoIoFault, Goto, GapStepUnchanged,
    disk, faultBounds

\* The record is made unknown.
LEMMA UpdateJsonDoes ==
    ASSUME Types, NEW p \in Procs, UpdateJson(p)
    PROVE  /\ workerAt[p] = "update_json"
           /\ \/ /\ ioFaults' = ioFaults /\ gapJson' = UpdatedGap(p, "unknown")
                 /\ workerAt'[p] = "publish_json" /\ holder' = holder
              \/ /\ ioFaults < MaxIoFaults /\ ioFaults' = ioFaults + 1
                 /\ gapJson' \in {gapJson, UpdatedGap(p, "unknown")}
                 /\ workerAt'[p] = "mark_lock" /\ holder' = NoProc
           /\ UNCHANGED <<life, queue, submitted, outcome, pending, flushing, started, ready,
                          clean, gapReady, marker, intents, orphans, gapLock, stored, lease,
                          leases, processCrashes, reader>>
  BY
    DEF UpdateJson, Types, InputTypes, WorkerTypes, IoFault, NoIoFault, Goto, JsonWrite,
    GapStepUnchanged, disk, faultBounds

\* The record is published.
LEMMA PublishJsonDoes ==
    ASSUME Types, NEW p \in Procs, PublishJson(p)
    PROVE  /\ workerAt[p] = "publish_json"
           /\ \/ /\ ioFaults' = ioFaults /\ gapJson' = UpdatedGap(p, "present")
                 /\ workerAt'[p] = "publish_lock" /\ holder' = holder
              \/ /\ ioFaults < MaxIoFaults /\ ioFaults' = ioFaults + 1
                 /\ gapJson' \in {gapJson, UpdatedGap(p, "present")}
                 /\ workerAt'[p] = "mark_lock" /\ holder' = NoProc
           /\ UNCHANGED <<life, queue, submitted, outcome, pending, flushing, started, ready,
                          clean, gapReady, marker, intents, orphans, gapLock, stored, lease,
                          leases, processCrashes, reader>>
  BY
    DEF PublishJson, Types, InputTypes, WorkerTypes, IoFault, NoIoFault, Goto, JsonWrite,
    GapStepUnchanged, disk, faultBounds

\* The lock state is published.
LEMMA PublishLockDoes ==
    ASSUME Types, NEW p \in Procs, PublishLock(p)
    PROVE  /\ workerAt[p] = "publish_lock" /\ holder' = NoProc
           /\ \/ ioFaults' = ioFaults /\ gapLock' = "present" /\ workerAt'[p] = "remove_intent"
              \/ ioFaults < MaxIoFaults /\ ioFaults' = ioFaults + 1 /\ workerAt'[p] = "mark_lock"
           /\ UNCHANGED <<life, queue, submitted, outcome, pending, flushing, started, ready,
                          clean, gapReady, marker, intents, orphans, gapJson, stored, lease,
                          leases, processCrashes, reader>>
  BY
    DEF PublishLock, Types, InputTypes, WorkerTypes, IoFault, NoIoFault, Goto, GapStepUnchanged,
    disk, faultBounds

\* The gap was not recorded: the lock state.
LEMMA MarkLockDoes ==
    ASSUME Types, NEW p \in Procs, MarkLock(p)
    PROVE  /\ workerAt[p] = "mark_lock" /\ LockFree
           /\ \/ ioFaults' = ioFaults /\ holder' = p /\ workerAt'[p] = "mark_json"
              \/ /\ ioFaults < MaxIoFaults /\ ioFaults' = ioFaults + 1
                 /\ holder' = holder /\ workerAt'[p] = "end_unknown"
           /\ UNCHANGED <<life, queue, submitted, outcome, pending, flushing, started, ready,
                          clean, gapReady, marker, intents, orphans, gapJson, stored, lease,
                          leases, processCrashes, reader>>
  BY
    DEF MarkLock, Types, InputTypes, WorkerTypes, IoFault, NoIoFault, Goto, GapStepUnchanged, disk,
    faultBounds

\* The gap was not recorded: the record.
LEMMA MarkJsonDoes ==
    ASSUME Types, NEW p \in Procs, MarkJson(p)
    PROVE  /\ workerAt[p] = "mark_json" /\ workerAt'[p] = "end_unknown" /\ holder' = NoProc
           /\ gapJson'.counts = gapJson.counts
           /\ \/ ioFaults' = ioFaults /\ gapJson'.state = "unknown"
              \/ /\ ioFaults < MaxIoFaults /\ ioFaults' = ioFaults + 1
                 /\ gapJson'.state \in {gapJson.state, "unknown"}
           /\ UNCHANGED <<life, queue, submitted, outcome, pending, flushing, started, ready,
                          clean, gapReady, marker, intents, orphans, gapLock, stored, lease,
                          leases, processCrashes, reader>>
  BY
    DEF MarkJson, Types, InputTypes, WorkerTypes, DiskTypes, IoFault, NoIoFault, Goto,
    GapStepUnchanged, disk, faultBounds

\* The intent is removed, or not.
LEMMA RemoveGapIntentDoes ==
    ASSUME Types, NEW p \in Procs, RemoveGapIntent(p)
    PROVE  /\ workerAt[p] = "remove_intent"
           /\ \/ ioFaults' = ioFaults /\ intents' = intents \ {p} /\ workerAt'[p] = "end_clean"
              \/ /\ ioFaults < MaxIoFaults /\ ioFaults' = ioFaults + 1
                 /\ intents' \in {intents, intents \ {p}} /\ workerAt'[p] = "end_unknown"
           /\ UNCHANGED <<life, queue, submitted, outcome, pending, flushing, started, ready,
                          clean, gapReady, marker, orphans, gapLock, holder, gapJson, stored,
                          lease, leases, processCrashes, reader>>
  BY
    DEF RemoveGapIntent, Types, InputTypes, WorkerTypes, IoFault, NoIoFault, Goto, GapStepUnchanged,
    disk, faultBounds

\* The flush ends.
LEMMA EndGapDoes ==
    ASSUME Types, NEW p \in Procs, EndGap(p)
    PROVE  /\ workerAt'[p] = "wait" /\ flushing'[p] = {}
           /\ orphans' = (orphans \/ p \in intents) /\ intents' = intents \ {p}
           /\ \/ /\ workerAt[p] = "end_clean"
                 /\ \/ ~ ready[p] /\ ioFaults' = ioFaults /\ UNCHANGED <<marker, clean>>
                    \/ ready[p] /\ ioFaults' = ioFaults /\ marker'[p] = "clean" /\ clean'[p]
                    \/ /\ ready[p] /\ ioFaults < MaxIoFaults /\ ioFaults' = ioFaults + 1
                       /\ marker'[p] \in {marker[p], "torn", "clean"} /\ ~ clean'[p]
              \/ /\ workerAt[p] = "end_unknown"
                 /\ \/ ~ ready[p] /\ ioFaults' = ioFaults /\ UNCHANGED <<marker, clean>>
                    \/ ready[p] /\ ioFaults' = ioFaults /\ marker'[p] = "unknown" /\ ~ clean'[p]
                    \/ /\ ready[p] /\ ioFaults < MaxIoFaults /\ ioFaults' = ioFaults + 1
                       /\ marker'[p] \in {marker[p], "torn", "unknown"} /\ ~ clean'[p]
           /\ UNCHANGED <<life, queue, submitted, outcome, pending, started, ready, gapReady,
                          gapLock, holder, gapJson, stored, lease, leases, processCrashes,
                          reader>>
  BY
    DEF EndGap, Types, InputTypes, WorkerTypes, IoFault, NoIoFault, Goto, WriteMarker,
    GapStepUnchanged, disk, faultBounds

\* The store is leased: the item waits.
LEMMA PersistLockedDoes ==
    ASSUME Types, NEW p \in Procs, PersistLocked(p)
    PROVE  /\ workerAt[p] = "persist" /\ workerAt'[p] = "wait"
           /\ UNCHANGED <<life, queue, submitted, outcome, pending, flushing, started, ready,
                          clean, gapReady, marker, intents, orphans, gapLock, holder, gapJson,
                          stored, lease, leases, ioFaults, processCrashes, reader>>
  BY DEF PersistLocked, Types, InputTypes, WorkerTypes, Goto, disk, faultBounds

\* The store accepts the item at the front.
LEMMA PersistDoes ==
    ASSUME Types, NEW p \in Procs, Persist(p)
    PROVE  /\ workerAt[p] = "persist" /\ workerAt'[p] = "wait"
           /\ stored' = Append(stored, <<p, Head(queue[p]).id>>)
           /\ queue'[p] = (IF queue[p] = <<>> THEN <<>> ELSE Tail(queue[p]))
           /\ UNCHANGED <<life, submitted, outcome, pending, flushing, started, ready, clean,
                          gapReady, marker, intents, orphans, gapLock, holder, gapJson, lease,
                          leases, ioFaults, processCrashes, reader>>
  BY DEF Persist, Types, InputTypes, WorkerTypes, Goto, RemoveFront, disk, faultBounds

\* The item at the front is dropped.
LEMMA PersistFailsDoes ==
    ASSUME Types, NEW p \in Procs, PersistFails(p)
    PROVE  /\ workerAt[p] = "persist" /\ workerAt'[p] = "wait"
           /\ ioFaults < MaxIoFaults /\ ioFaults' = ioFaults + 1
           /\ pending'[p] = pending[p] \cup {<<p, Head(queue[p]).id>>}
           /\ queue'[p] = (IF queue[p] = <<>> THEN <<>> ELSE Tail(queue[p]))
           /\ UNCHANGED <<life, submitted, outcome, flushing, started, ready, clean, gapReady,
                          marker, intents, orphans, gapLock, holder, gapJson, stored, lease,
                          leases, processCrashes, reader>>
  BY
    DEF PersistFails, Types, InputTypes, WorkerTypes, Goto, RemoveFront, IoFault, disk, faultBounds

\* The process dies.
LEMMA CrashDoes ==
    ASSUME Types, NEW p \in Procs, Crash(p)
    PROVE  /\ Alive(p) /\ life'[p] = "crashed" /\ workerAt'[p] = "off"
           /\ processCrashes < MaxProcessCrashes /\ processCrashes' = processCrashes + 1
           /\ queue'[p] = <<>> /\ pending'[p] = {} /\ flushing'[p] = {} /\ ~ ready'[p] /\ ~ clean'[p]
           /\ holder' = (IF holder = p THEN NoProc ELSE holder)
           /\ orphans' = (orphans \/ p \in intents) /\ intents' = intents \ {p}
           /\ \/ UNCHANGED marker
              \/ ready[p] /\ marker'[p] = "torn"
           /\ UNCHANGED <<submitted, outcome, started, gapReady, gapJson, stored, lease,
                          leases, ioFaults, reader>>
  BY DEF Crash, Types, InputTypes, WorkerTypes, Goto, TornMarker, disk, faultBounds


\* A submission is that of a batch or of a retraction.
LEMMA Inputs ==
    ASSUME Types, NEW p \in Procs, Input(p)
    PROVE  Start(p) \/ Shutdown(p) \/ Submits(p)
<1>1. CASE SubmitRetraction(p)
  <2>1. PICK b \in 1 .. submitted[p] : Submit(p, b)
    BY <1>1 DEF SubmitRetraction
  <2>2. b \in Ids
    BY RecorderAssumption DEF Types, InputTypes, Ids
  <2> QED BY <2>1, <2>2 DEF Submits
<1> QED BY <1>1 DEF Input, SubmitBatch, Submits

\* The steps that may change a variable.
LEMMA Frames ==
    ASSUME Types, NEW p \in Procs, Input(p) \/ Worker(p) \/ Crash(p)
    PROVE  /\ Start(p) \/ Shutdown(p) \/ StopWorker(p) \/ Crash(p) \/ UNCHANGED life
           /\ Submits(p) \/ TakeGap(p) \/ Persist(p) \/ PersistFails(p) \/ Crash(p) \/
              UNCHANGED queue
           /\ Submits(p) \/ UNCHANGED submitted
           /\ Submits(p) \/ UNCHANGED outcome
           /\ Submits(p) \/ TakeGap(p) \/ PersistFails(p) \/ Crash(p) \/ UNCHANGED pending
           /\ TakeGap(p) \/ UpdateLock(p) \/ EndGap(p) \/ Crash(p) \/ UNCHANGED flushing
           /\ Start(p) \/ CreateMarker(p) \/ EnsureGapState(p) \/ EnsureWriteJson(p) \/
              TakeGap(p) \/ TakeItem(p) \/ StopWorker(p) \/ BeginGap(p) \/ CreateGapIntent(p) \/
              UpdateLock(p) \/ UpdateJson(p) \/ PublishJson(p) \/ PublishLock(p) \/ MarkLock(p) \/
              MarkJson(p) \/ RemoveGapIntent(p) \/ EndGap(p) \/ PersistLocked(p) \/ Persist(p) \/
              PersistFails(p) \/ Crash(p) \/ UNCHANGED workerAt
           /\ EnsureGapState(p) \/ EnsureWriteJson(p) \/ UNCHANGED started
           /\ CreateMarker(p) \/ StopWorker(p) \/ Crash(p) \/ UNCHANGED ready
           /\ CreateMarker(p) \/ StopWorker(p) \/ BeginGap(p) \/ EndGap(p) \/ Crash(p) \/
              UNCHANGED clean
           /\ EnsureGapState(p) \/ EnsureWriteJson(p) \/ UNCHANGED gapReady
           /\ CreateMarker(p) \/ StopWorker(p) \/ BeginGap(p) \/ EndGap(p) \/ Crash(p) \/
              UNCHANGED marker
           /\ CreateGapIntent(p) \/ RemoveGapIntent(p) \/ EndGap(p) \/ Crash(p) \/ UNCHANGED intents
           /\ CreateGapIntent(p) \/ EndGap(p) \/ Crash(p) \/ UNCHANGED orphans
           /\ EnsureGapState(p) \/ UpdateLock(p) \/ PublishLock(p) \/ MarkLock(p) \/ Crash(p) \/
              UNCHANGED gapLock
           /\ EnsureGapState(p) \/ EnsureWriteJson(p) \/ UpdateLock(p) \/ UpdateJson(p) \/
              PublishJson(p) \/ PublishLock(p) \/ MarkLock(p) \/ MarkJson(p) \/ Crash(p) \/
              UNCHANGED holder
           /\ EnsureWriteJson(p) \/ UpdateJson(p) \/ PublishJson(p) \/ MarkJson(p) \/
              UNCHANGED gapJson
           /\ Persist(p) \/ UNCHANGED stored
           /\ UNCHANGED lease
           /\ UNCHANGED leases
           /\ CreateMarker(p) \/ EnsureGapState(p) \/ EnsureWriteJson(p) \/ StopWorker(p) \/
              BeginGap(p) \/ CreateGapIntent(p) \/ UpdateLock(p) \/ UpdateJson(p) \/
              PublishJson(p) \/ PublishLock(p) \/ MarkLock(p) \/ MarkJson(p) \/
              RemoveGapIntent(p) \/ EndGap(p) \/ PersistFails(p) \/ UNCHANGED ioFaults
           /\ Crash(p) \/ UNCHANGED processCrashes
           /\ UNCHANGED reader
<1>1. CASE Start(p)
  BY <1>1, StartDoes
<1>2. CASE Submits(p)
  BY <1>2, SubmitDoes DEF Submits
<1>3. CASE Shutdown(p)
  BY <1>3, ShutdownDoes
<1>4. CASE CreateMarker(p)
  BY <1>4, CreateMarkerDoes
<1>5. CASE EnsureGapState(p)
  BY <1>5, EnsureGapStateDoes
<1>6. CASE EnsureWriteJson(p)
  BY <1>6, EnsureWriteJsonDoes
<1>7. CASE TakeGap(p)
  BY <1>7, TakeGapDoes
<1>8. CASE TakeItem(p)
  BY <1>8, TakeItemDoes
<1>9. CASE StopWorker(p)
  BY <1>9, StopWorkerDoes
<1>10. CASE BeginGap(p)
  BY <1>10, BeginGapDoes
<1>11. CASE CreateGapIntent(p)
  BY <1>11, CreateGapIntentDoes
<1>12. CASE UpdateLock(p)
  BY <1>12, UpdateLockDoes
<1>13. CASE UpdateJson(p)
  BY <1>13, UpdateJsonDoes
<1>14. CASE PublishJson(p)
  BY <1>14, PublishJsonDoes
<1>15. CASE PublishLock(p)
  BY <1>15, PublishLockDoes
<1>16. CASE MarkLock(p)
  BY <1>16, MarkLockDoes
<1>17. CASE MarkJson(p)
  BY <1>17, MarkJsonDoes
<1>18. CASE RemoveGapIntent(p)
  BY <1>18, RemoveGapIntentDoes
<1>19. CASE EndGap(p)
  BY <1>19, EndGapDoes
<1>20. CASE PersistLocked(p)
  BY <1>20, PersistLockedDoes
<1>21. CASE Persist(p)
  BY <1>21, PersistDoes
<1>22. CASE PersistFails(p)
  BY <1>22, PersistFailsDoes
<1>23. CASE Crash(p)
  BY <1>23, CrashDoes
<1> QED BY <1>1, <1>2, <1>3, <1>4, <1>5, <1>6, <1>7, <1>8, <1>9, <1>10, <1>11, <1>12, <1>13, <1>14,
      <1>15, <1>16, <1>17, <1>18, <1>19, <1>20, <1>21, <1>22, <1>23, Inputs DEF Worker

\* Only its own process changes under a step.
LEMMA Elsewhere ==
    ASSUME Types, NEW p \in Procs, NEW q \in Procs, q # p,
           Input(p) \/ Worker(p) \/ Crash(p)
    PROVE  UNCHANGED <<life[q], queue[q], submitted[q], outcome[q], pending[q], flushing[q], workerAt[q],
                       started[q], ready[q], clean[q], gapReady[q], marker[q]>>
<1>1. CASE Start(p)
  BY <1>1 DEF Start, Goto, Types, InputTypes, WorkerTypes, disk, faultBounds
<1>2. CASE Submits(p)
  BY <1>2 DEF Submits, Submit, EnqueueOrGap, Types, InputTypes, WorkerTypes, disk, faultBounds
<1>3. CASE Shutdown(p)
  BY <1>3 DEF Shutdown, Types, InputTypes, WorkerTypes, disk, faultBounds
<1>4. CASE CreateMarker(p)
  BY <1>4
    DEF CreateMarker, IoFault, NoIoFault, Goto, Types, InputTypes, WorkerTypes, disk, faultBounds
<1>5. CASE EnsureGapState(p)
  BY <1>5
    DEF EnsureGapState, IoFault, NoIoFault, Goto, EndEnsure, IntentOnDisk,
    Types, InputTypes, WorkerTypes, disk, faultBounds
<1>6. CASE EnsureWriteJson(p)
  BY <1>6
    DEF EnsureWriteJson, IoFault, NoIoFault, Goto, EndEnsure,
    Types, InputTypes, WorkerTypes, disk, faultBounds
<1>7. CASE TakeGap(p)
  BY <1>7 DEF TakeGap, Goto, Types, InputTypes, WorkerTypes, disk, faultBounds
<1>8. CASE TakeItem(p)
  BY <1>8 DEF TakeItem, Goto, Types, InputTypes, WorkerTypes, disk, faultBounds
<1>9. CASE StopWorker(p)
  BY <1>9
    DEF StopWorker, IoFault, NoIoFault, Goto, Types, InputTypes, WorkerTypes, disk, faultBounds
<1>10. CASE BeginGap(p)
  BY <1>10
    DEF BeginGap, IoFault, NoIoFault, Goto, WriteMarker, GapStepUnchanged,
    Types, InputTypes, WorkerTypes, disk, faultBounds
<1>11. CASE CreateGapIntent(p)
  BY <1>11
    DEF CreateGapIntent, IoFault, NoIoFault, Goto, GapStepUnchanged,
    Types, InputTypes, WorkerTypes, disk, faultBounds
<1>12. CASE UpdateLock(p)
  BY <1>12
    DEF UpdateLock, IoFault, NoIoFault, Goto, GapStepUnchanged,
    Types, InputTypes, WorkerTypes, disk, faultBounds
<1>13. CASE UpdateJson(p)
  BY <1>13
    DEF UpdateJson, IoFault, NoIoFault, Goto, JsonWrite, GapStepUnchanged,
    Types, InputTypes, WorkerTypes, disk, faultBounds
<1>14. CASE PublishJson(p)
  BY <1>14
    DEF PublishJson, IoFault, NoIoFault, Goto, JsonWrite, GapStepUnchanged,
    Types, InputTypes, WorkerTypes, disk, faultBounds
<1>15. CASE PublishLock(p)
  BY <1>15
    DEF PublishLock, IoFault, NoIoFault, Goto, GapStepUnchanged,
    Types, InputTypes, WorkerTypes, disk, faultBounds
<1>16. CASE MarkLock(p)
  BY <1>16
    DEF MarkLock, IoFault, NoIoFault, Goto, GapStepUnchanged,
    Types, InputTypes, WorkerTypes, disk, faultBounds
<1>17. CASE MarkJson(p)
  BY <1>17
    DEF MarkJson, IoFault, NoIoFault, Goto, GapStepUnchanged,
    Types, InputTypes, WorkerTypes, disk, faultBounds
<1>18. CASE RemoveGapIntent(p)
  BY <1>18
    DEF RemoveGapIntent, IoFault, NoIoFault, Goto, GapStepUnchanged,
    Types, InputTypes, WorkerTypes, disk, faultBounds
<1>19. CASE EndGap(p)
  BY <1>19
    DEF EndGap, IoFault, NoIoFault, Goto, WriteMarker, GapStepUnchanged,
    Types, InputTypes, WorkerTypes, disk, faultBounds
<1>20. CASE PersistLocked(p)
  BY <1>20 DEF PersistLocked, Goto, Types, InputTypes, WorkerTypes, disk, faultBounds
<1>21. CASE Persist(p)
  BY <1>21 DEF Persist, Goto, RemoveFront, Types, InputTypes, WorkerTypes, disk, faultBounds
<1>22. CASE PersistFails(p)
  BY <1>22
    DEF PersistFails, Goto, RemoveFront, IoFault, Types, InputTypes, WorkerTypes, disk, faultBounds
<1>23. CASE Crash(p)
  BY <1>23 DEF Crash, Goto, TornMarker, Types, InputTypes, WorkerTypes, disk, faultBounds
<1> QED BY <1>1, <1>2, <1>3, <1>4, <1>5, <1>6, <1>7, <1>8, <1>9, <1>10, <1>11, <1>12, <1>13, <1>14,
      <1>15, <1>16, <1>17, <1>18, <1>19, <1>20, <1>21, <1>22, <1>23, Inputs DEF Worker


\* The control points and the states of the files are what they are meant to be.
LEMMA Known ==
    /\ "new" \in Lives /\ "up" \in Lives /\ "stopping" \in Lives /\ "stopped" \in Lives /\ "crashed" \in Lives
    /\ "buffered" \in Outcomes /\ "gap" \in Outcomes /\ "late" \in Outcomes
    /\ "off" \in WorkerPCs /\ "marker" \in WorkerPCs /\ "ensure" \in WorkerPCs
    /\ "ensure_json" \in WorkerPCs /\ "wait" \in WorkerPCs /\ "begin_gap" \in WorkerPCs
    /\ "intent" \in WorkerPCs /\ "update_lock" \in WorkerPCs /\ "update_json" \in WorkerPCs
    /\ "publish_json" \in WorkerPCs /\ "publish_lock" \in WorkerPCs /\ "mark_lock" \in WorkerPCs
    /\ "mark_json" \in WorkerPCs /\ "remove_intent" \in WorkerPCs /\ "end_clean" \in WorkerPCs
    /\ "end_unknown" \in WorkerPCs /\ "persist" \in WorkerPCs
    /\ "absent" \in MarkerStates /\ "clean" \in MarkerStates /\ "pending" \in MarkerStates
    /\ "unknown" \in MarkerStates /\ "torn" \in MarkerStates
    /\ "missing" \in GapStates /\ "none" \in GapStates /\ "present" \in GapStates
    /\ "unknown" \in GapStates
    /\ "missing" \in LockStates /\ "empty" \in LockStates /\ "safe" \in LockStates
    /\ "present" \in LockStates /\ "unknown" \in LockStates
    /\ "idle" \in ReaderPCs /\ "markers" \in ReaderPCs /\ "intents" \in ReaderPCs
    /\ "lock" \in ReaderPCs /\ "recheck" \in ReaderPCs /\ "json" \in ReaderPCs
    /\ "decide" \in ReaderPCs /\ "done" \in ReaderPCs
    /\ "pending" \in Results /\ "none" \in Results /\ "present" \in Results /\ "unknown" \in Results
  BY DEF Lives, Outcomes, WorkerPCs, MarkerStates, GapStates, LockStates, ReaderPCs, Results

\* The queue of a process.
LEMMA QueueTyped == ASSUME Types, NEW p \in Procs PROVE queue[p] \in Seq(Item) /\ QueuedIds(p) \subseteq Lossy
<1> DEFINE s == queue[p]
<1>1. s \in Seq(Item)
  BY DEF Types, InputTypes
<1> HIDE DEF s
<1>2. \A i \in DOMAIN s : s[i] \in Item
  BY <1>1
<1>3. \A i \in DOMAIN s : <<p, s[i].id>> \in Lossy
  BY <1>2 DEF Item, Lossy
<1>4. QueuedIds(p) \subseteq Lossy
  BY <1>3 DEF QueuedIds, s
<1> QED BY <1>1, <1>4 DEF s

\* Where the worker may go on.
LEMMA Goes == \A p \in Procs : Work(p) \in WorkerPCs /\ AfterMarker(p) \in WorkerPCs /\ BeginWork(p) \in WorkerPCs
  BY Known DEF Work, AfterMarker, BeginWork

\* The item at the front of the queue.
LEMMA Front ==
    ASSUME Types, NEW p \in Procs, queue[p] # <<>>
    PROVE  /\ 1 \in DOMAIN queue[p] /\ Head(queue[p]) = queue[p][1] /\ <<p, Head(queue[p]).id>> \in Lossy
           /\ Tail(queue[p]) \in Seq(Item)
           /\ DOMAIN Tail(queue[p]) = 1 .. Len(queue[p]) - 1 /\ Len(queue[p]) \in Nat \ {0}
           /\ \A i \in 1 .. Len(queue[p]) - 1 : Tail(queue[p])[i] = queue[p][i + 1]
<1> DEFINE s == queue[p]
<1>1. s \in Seq(Item) /\ s # <<>>
  BY DEF Types, InputTypes
<1> HIDE DEF s
<1>2. /\ 1 \in DOMAIN s /\ Head(s) = s[1] /\ Tail(s) \in Seq(Item)
      /\ DOMAIN Tail(s) = 1 .. Len(s) - 1 /\ Len(s) \in Nat \ {0}
      /\ \A i \in 1 .. Len(s) - 1 : Tail(s)[i] = s[i + 1]
  BY <1>1
<1>3. s[1] \in Item
  BY <1>1, <1>2
<1>4. <<p, s[1].id>> \in Lossy
  BY <1>3 DEF Item, Lossy
<1> QED BY <1>2, <1>4 DEF s

\* Types: what the input thread and the worker hand each other.
LEMMA InputTypesStep ==
    ASSUME Types, NEW p \in Procs, WorkerInv(p),
           Input(p) \/ Worker(p) \/ Crash(p)
    PROVE  InputTypes'
<1>1. CASE Start(p)
  BY <1>1, Known DEF Start, Goto, Types, InputTypes, WorkerTypes, DiskTypes, disk, faultBounds
<1>2. CASE Submits(p)
  <2>1. PICK r \in Ids \cup {NoBatch} : Submit(p, r)
    BY <1>2 DEF Submits
  <2>2. [id |-> submitted[p] + 1, retracts |-> r] \in Item /\ <<p, submitted[p] + 1>> \in Lossy
    BY <2>1, RecorderAssumption DEF Submit, Types, InputTypes, Item, Ids, NoBatch, Lossy
  <2>3. /\ Append(queue[p], [id |-> submitted[p] + 1, retracts |-> r]) \in Seq(Item)
        /\ \A o \in Outcomes : Append(outcome[p], o) \in Seq(Outcomes)
    BY <2>2 DEF Types, InputTypes
  <2>4. submitted[p] + 1 \in 0 .. MaxItems
    BY <2>1, RecorderAssumption DEF Submit, Types, InputTypes
  <2>5. /\ submitted' \in [Procs -> 0 .. MaxItems]
        /\ life' \in [Procs -> Lives] /\ flushing' \in [Procs -> SUBSET Lossy]
    BY <2>1, <2>4 DEF Submit, Types, InputTypes
  <2>6. outcome' \in [Procs -> Seq(Outcomes)]
    BY <2>1, <2>3, Known DEF Submit, EnqueueOrGap, Types, InputTypes
  <2>7. queue' \in [Procs -> Seq(Item)]
    BY <2>1, <2>3 DEF Submit, EnqueueOrGap, Types, InputTypes
  <2>8. pending' \in [Procs -> SUBSET Lossy]
    <3>1. \/ pending' = pending
          \/ pending' = [pending EXCEPT ![p] = pending[p] \cup {<<p, submitted[p] + 1>>}]
      BY <2>1 DEF Submit, EnqueueOrGap
    <3>2. pending[p] \cup {<<p, submitted[p] + 1>>} \in SUBSET Lossy
      BY <2>2 DEF Types, InputTypes
    <3> QED BY <3>1, <3>2 DEF Types, InputTypes
  <2> QED BY <2>5, <2>6, <2>7, <2>8 DEF InputTypes
<1>3. CASE Shutdown(p)
  BY <1>3, Known DEF Shutdown, Types, InputTypes, WorkerTypes, DiskTypes, disk, faultBounds
<1>4. CASE TakeGap(p)
  <2>1. QueuedIds(p) \subseteq Lossy /\ <<>> \in Seq(Item)
    BY QueueTyped
  <2> QED BY <1>4, <2>1 DEF TakeGap, Types, InputTypes, disk, faultBounds
<1>5. CASE StopWorker(p)
  BY <1>5, Known
    DEF StopWorker, IoFault, NoIoFault, Goto, Types, InputTypes, WorkerTypes, DiskTypes, disk,
    faultBounds
<1>6. CASE UpdateLock(p)
  <2>1. flushing[p] \cup gapJson.counts \subseteq Lossy
    BY DEF Types, InputTypes, DiskTypes
  <2> QED BY <1>6, <2>1 DEF UpdateLock, GapStepUnchanged, Types, InputTypes
<1>7. CASE EndGap(p)
  BY <1>7, Known
    DEF EndGap, IoFault, NoIoFault, Goto, WriteMarker, GapStepUnchanged, Types, InputTypes,
    WorkerTypes, DiskTypes, disk, faultBounds
<1>8. CASE Persist(p)
  <2>1. queue[p] # <<>>
    BY <1>8, PersistDoes DEF WorkerInv
  <2> QED BY <1>8, <2>1, Front DEF Persist, RemoveFront, Types, InputTypes, disk, faultBounds
<1>9. CASE PersistFails(p)
  <2>1. queue[p] # <<>>
    BY <1>9, PersistFailsDoes DEF WorkerInv
  <2> QED BY <1>9, <2>1, Front DEF PersistFails, RemoveFront, Types, InputTypes, disk, faultBounds
<1>10. CASE Crash(p)
  BY <1>10, Known
    DEF Crash, Goto, TornMarker, TornMarker, Types, InputTypes, WorkerTypes, DiskTypes, disk,
    faultBounds
<1>11. CASE UNCHANGED <<life, queue, submitted, outcome, pending, flushing>>
  BY <1>11 DEF Types, InputTypes
<1> QED BY <1>1, <1>2, <1>3, <1>4, <1>5, <1>6, <1>7, <1>8, <1>9, <1>10, <1>11, Frames

\* Types: the control point.
LEMMA PointTyped ==
    ASSUME Types, NEW p \in Procs, WorkerInv(p),
           Input(p) \/ Worker(p) \/ Crash(p)
    PROVE  workerAt' \in [Procs -> WorkerPCs]
<1>1. CASE Start(p)
  BY <1>1, Known, Goes DEF Start, Goto, Types, WorkerTypes, disk, faultBounds
<1>2. CASE CreateMarker(p)
  BY <1>2, Known, Goes
    DEF CreateMarker, IoFault, NoIoFault, Goto, Types, WorkerTypes, disk, faultBounds
<1>3. CASE EnsureGapState(p)
  BY <1>3, Known, Goes
    DEF EnsureGapState, IoFault, NoIoFault, Goto, EndEnsure, IntentOnDisk, Types, WorkerTypes, disk,
    faultBounds
<1>4. CASE EnsureWriteJson(p)
  BY <1>4, Known, Goes
    DEF EnsureWriteJson, IoFault, NoIoFault, Goto, EndEnsure, Types, WorkerTypes, disk, faultBounds
<1>5. CASE TakeGap(p)
  BY <1>5, Known, Goes DEF TakeGap, Goto, Types, WorkerTypes, disk, faultBounds
<1>6. CASE TakeItem(p)
  BY <1>6, Known, Goes DEF TakeItem, Goto, Types, WorkerTypes, disk, faultBounds
<1>7. CASE StopWorker(p)
  BY <1>7, Known, Goes
    DEF StopWorker, IoFault, NoIoFault, Goto, Types, WorkerTypes, disk, faultBounds
<1>8. CASE BeginGap(p)
  BY <1>8, Known, Goes
    DEF BeginGap, IoFault, NoIoFault, Goto, WriteMarker, GapStepUnchanged, Types, WorkerTypes, disk,
    faultBounds
<1>9. CASE CreateGapIntent(p)
  BY <1>9, Known, Goes
    DEF CreateGapIntent, IoFault, NoIoFault, Goto, GapStepUnchanged, Types, WorkerTypes, disk,
    faultBounds
<1>10. CASE UpdateLock(p)
  BY <1>10, Known, Goes
    DEF UpdateLock, IoFault, NoIoFault, Goto, GapStepUnchanged, Types, WorkerTypes, disk,
    faultBounds
<1>11. CASE UpdateJson(p)
  BY <1>11, Known, Goes
    DEF UpdateJson, IoFault, NoIoFault, Goto, JsonWrite, GapStepUnchanged, Types, WorkerTypes, disk,
    faultBounds
<1>12. CASE PublishJson(p)
  BY <1>12, Known, Goes
    DEF PublishJson, IoFault, NoIoFault, Goto, JsonWrite, GapStepUnchanged, Types, WorkerTypes,
    disk, faultBounds
<1>13. CASE PublishLock(p)
  BY <1>13, Known, Goes
    DEF PublishLock, IoFault, NoIoFault, Goto, GapStepUnchanged, Types, WorkerTypes, disk,
    faultBounds
<1>14. CASE MarkLock(p)
  BY <1>14, Known, Goes
    DEF MarkLock, IoFault, NoIoFault, Goto, GapStepUnchanged, Types, WorkerTypes, disk, faultBounds
<1>15. CASE MarkJson(p)
  BY <1>15, Known, Goes
    DEF MarkJson, IoFault, NoIoFault, Goto, GapStepUnchanged, Types, WorkerTypes, disk, faultBounds
<1>16. CASE RemoveGapIntent(p)
  BY <1>16, Known, Goes
    DEF RemoveGapIntent, IoFault, NoIoFault, Goto, GapStepUnchanged, Types, WorkerTypes, disk,
    faultBounds
<1>17. CASE EndGap(p)
  BY <1>17, Known, Goes
    DEF EndGap, IoFault, NoIoFault, Goto, WriteMarker, GapStepUnchanged, Types, WorkerTypes, disk,
    faultBounds
<1>18. CASE PersistLocked(p)
  BY <1>18, Known, Goes DEF PersistLocked, Goto, Types, WorkerTypes, disk, faultBounds
<1>19. CASE Persist(p)
  BY <1>19, Known, Goes DEF Persist, Goto, RemoveFront, Types, WorkerTypes, disk, faultBounds
<1>20. CASE PersistFails(p)
  BY <1>20, Known, Goes
    DEF PersistFails, Goto, RemoveFront, IoFault, Types, WorkerTypes, disk, faultBounds
<1>21. CASE Crash(p)
  BY <1>21, Known, Goes DEF Crash, Goto, TornMarker, Types, WorkerTypes, disk, faultBounds
<1>22. CASE UNCHANGED workerAt
  BY <1>22 DEF Types, WorkerTypes
<1> QED BY <1>1, <1>2, <1>3, <1>4, <1>5, <1>6, <1>7, <1>8, <1>9, <1>10, <1>11, <1>12, <1>13, <1>14,
      <1>15, <1>16, <1>17, <1>18, <1>19, <1>20, <1>21, <1>22, Frames

\* Types: the marker.
LEMMA MarkerTyped ==
    ASSUME Types, NEW p \in Procs, WorkerInv(p),
           Input(p) \/ Worker(p) \/ Crash(p)
    PROVE  marker' \in [Procs -> MarkerStates]
<1>1. CASE CreateMarker(p)
  BY <1>1, Known
    DEF CreateMarker, IoFault, NoIoFault, Goto, Types, WorkerTypes, disk, faultBounds
<1>2. CASE StopWorker(p)
  BY <1>2, Known DEF StopWorker, IoFault, NoIoFault, Goto, Types, WorkerTypes, disk, faultBounds
<1>3. CASE BeginGap(p)
  BY <1>3, Known
    DEF BeginGap, IoFault, NoIoFault, Goto, WriteMarker, GapStepUnchanged, Types, WorkerTypes, disk,
    faultBounds
<1>4. CASE EndGap(p)
  BY <1>4, Known
    DEF EndGap, IoFault, NoIoFault, Goto, WriteMarker, GapStepUnchanged, Types, WorkerTypes, disk,
    faultBounds
<1>5. CASE Crash(p)
  BY <1>5, Known DEF Crash, Goto, TornMarker, TornMarker, Types, WorkerTypes, disk, faultBounds
<1>6. CASE UNCHANGED marker
  BY <1>6 DEF Types, WorkerTypes
<1> QED BY <1>1, <1>2, <1>3, <1>4, <1>5, <1>6, Frames

\* Types: what the worker knows of its files.
LEMMA FlagsTyped ==
    ASSUME Types, NEW p \in Procs, WorkerInv(p),
           Input(p) \/ Worker(p) \/ Crash(p)
    PROVE  /\ started' \in [Procs -> BOOLEAN] /\ ready' \in [Procs -> BOOLEAN]
           /\ clean' \in [Procs -> BOOLEAN] /\ gapReady' \in [Procs -> BOOLEAN]
<1>1. CASE CreateMarker(p)
  BY <1>1, Known
    DEF CreateMarker, IoFault, NoIoFault, Goto, Types, WorkerTypes, disk, faultBounds
<1>2. CASE EnsureGapState(p)
  BY <1>2, Known
    DEF EnsureGapState, IoFault, NoIoFault, Goto, EndEnsure, IntentOnDisk, GapStateConsistent,
    Types, WorkerTypes, disk, faultBounds
<1>3. CASE EnsureWriteJson(p)
  BY <1>3, Known
    DEF EnsureWriteJson, IoFault, NoIoFault, Goto, EndEnsure, Types, WorkerTypes, disk, faultBounds
<1>4. CASE StopWorker(p)
  BY <1>4, Known DEF StopWorker, IoFault, NoIoFault, Goto, Types, WorkerTypes, disk, faultBounds
<1>5. CASE BeginGap(p)
  BY <1>5, Known
    DEF BeginGap, IoFault, NoIoFault, Goto, WriteMarker, GapStepUnchanged, Types, WorkerTypes, disk,
    faultBounds
<1>6. CASE EndGap(p)
  BY <1>6, Known
    DEF EndGap, IoFault, NoIoFault, Goto, WriteMarker, GapStepUnchanged, Types, WorkerTypes, disk,
    faultBounds
<1>7. CASE Crash(p)
  BY <1>7, Known DEF Crash, Goto, TornMarker, Types, WorkerTypes, disk, faultBounds
<1>8. CASE UNCHANGED <<started, ready, clean, gapReady>>
  BY <1>8 DEF Types, WorkerTypes
<1> QED BY <1>1, <1>2, <1>3, <1>4, <1>5, <1>6, <1>7, <1>8, Frames

\* Types: the files.
LEMMA DiskTypesStep ==
    ASSUME Types, NEW p \in Procs, WorkerInv(p),
           Input(p) \/ Worker(p) \/ Crash(p)
    PROVE  DiskTypes'
<1>1. CASE EnsureGapState(p)
  BY <1>1, Known
    DEF EnsureGapState, IoFault, NoIoFault, Goto, EndEnsure, IntentOnDisk, Work, Opened, Types,
    InputTypes, WorkerTypes, DiskTypes, disk, faultBounds
<1>2. CASE EnsureWriteJson(p)
  BY <1>2, Known
    DEF EnsureWriteJson, IoFault, NoIoFault, Goto, EndEnsure, Work, NoGap, Types, InputTypes,
    WorkerTypes, DiskTypes, disk, faultBounds
<1>3. CASE CreateGapIntent(p)
  BY <1>3, Known
    DEF CreateGapIntent, IoFault, NoIoFault, Goto, GapStepUnchanged, Types, InputTypes, WorkerTypes,
    DiskTypes, disk, faultBounds
<1>4. CASE UpdateLock(p)
  BY <1>4, Known
    DEF UpdateLock, IoFault, NoIoFault, Goto, GapStepUnchanged, FailedLock, Opened, Types,
    InputTypes, WorkerTypes, DiskTypes, disk, faultBounds
<1>5. CASE UpdateJson(p)
  BY <1>5, Known
    DEF UpdateJson, IoFault, NoIoFault, Goto, JsonWrite, GapStepUnchanged, UpdatedGap, Types,
    InputTypes, WorkerTypes, DiskTypes, disk, faultBounds
<1>6. CASE PublishJson(p)
  BY <1>6, Known
    DEF PublishJson, IoFault, NoIoFault, Goto, JsonWrite, GapStepUnchanged, UpdatedGap, Types,
    InputTypes, WorkerTypes, DiskTypes, disk, faultBounds
<1>7. CASE PublishLock(p)
  BY <1>7, Known
    DEF PublishLock, IoFault, NoIoFault, Goto, GapStepUnchanged, FailedLock, Opened, Types,
    InputTypes, WorkerTypes, DiskTypes, disk, faultBounds
<1>8. CASE MarkLock(p)
  BY <1>8, Known
    DEF MarkLock, IoFault, NoIoFault, Goto, GapStepUnchanged, FailedLock, Opened, Types, InputTypes,
    WorkerTypes, DiskTypes, disk, faultBounds
<1>9. CASE MarkJson(p)
  BY <1>9, Known
    DEF MarkJson, IoFault, NoIoFault, Goto, GapStepUnchanged, Types, InputTypes, WorkerTypes,
    DiskTypes, disk, faultBounds
<1>10. CASE RemoveGapIntent(p)
  BY <1>10, Known
    DEF RemoveGapIntent, IoFault, NoIoFault, Goto, GapStepUnchanged, Types, InputTypes, WorkerTypes,
    DiskTypes, disk, faultBounds
<1>11. CASE EndGap(p)
  BY <1>11, Known
    DEF EndGap, IoFault, NoIoFault, Goto, WriteMarker, GapStepUnchanged, Types, InputTypes,
    WorkerTypes, DiskTypes, disk, faultBounds
<1>12. CASE Persist(p)
  <2>1. queue[p] # <<>>
    BY <1>12, PersistDoes DEF WorkerInv
  <2>2. Append(stored, <<p, Head(queue[p]).id>>) \in Seq(Lossy)
    BY <2>1, Front DEF Types, DiskTypes
  <2> QED BY <1>12, <2>2, PersistDoes DEF Types, DiskTypes
<1>13. CASE Crash(p)
  BY <1>13, Known
    DEF Crash, Goto, TornMarker, TornLock, Types, InputTypes, WorkerTypes, DiskTypes, disk,
    faultBounds
<1>14. CASE UNCHANGED <<intents, orphans, gapLock, holder, gapJson, stored>>
  BY <1>14 DEF Types, DiskTypes
<1> QED BY <1>1, <1>2, <1>3, <1>4, <1>5, <1>6, <1>7, <1>8, <1>9, <1>10, <1>11, <1>12, <1>13, <1>14,
      Frames

\* A step of a process costs at most one fault or one crash.
LEMMA Faults ==
    ASSUME Types, NEW p \in Procs,
           Input(p) \/ Worker(p) \/ Crash(p)
    PROVE  /\ \/ ioFaults' = ioFaults
              \/ ioFaults < MaxIoFaults /\ ioFaults' = ioFaults + 1
           /\ \/ processCrashes' = processCrashes
              \/ processCrashes < MaxProcessCrashes /\ processCrashes' = processCrashes + 1
           /\ UNCHANGED <<lease, leases>>
<1>1. CASE CreateMarker(p)
  BY <1>1, CreateMarkerDoes
<1>2. CASE EnsureGapState(p)
  BY <1>2, EnsureGapStateDoes
<1>3. CASE EnsureWriteJson(p)
  BY <1>3, EnsureWriteJsonDoes
<1>4. CASE StopWorker(p)
  BY <1>4, StopWorkerDoes
<1>5. CASE BeginGap(p)
  BY <1>5, BeginGapDoes
<1>6. CASE CreateGapIntent(p)
  BY <1>6, CreateGapIntentDoes
<1>7. CASE UpdateLock(p)
  BY <1>7, UpdateLockDoes
<1>8. CASE UpdateJson(p)
  BY <1>8, UpdateJsonDoes
<1>9. CASE PublishJson(p)
  BY <1>9, PublishJsonDoes
<1>10. CASE PublishLock(p)
  BY <1>10, PublishLockDoes
<1>11. CASE MarkLock(p)
  BY <1>11, MarkLockDoes
<1>12. CASE MarkJson(p)
  BY <1>12, MarkJsonDoes
<1>13. CASE RemoveGapIntent(p)
  BY <1>13, RemoveGapIntentDoes
<1>14. CASE EndGap(p)
  BY <1>14, EndGapDoes
<1>15. CASE PersistFails(p)
  BY <1>15, PersistFailsDoes
<1>16. CASE Crash(p)
  BY <1>16, CrashDoes
<1>17. CASE UNCHANGED <<lease, leases, ioFaults, processCrashes>>
  BY <1>17
<1> QED BY <1>1, <1>2, <1>3, <1>4, <1>5, <1>6, <1>7, <1>8, <1>9, <1>10, <1>11, <1>12, <1>13, <1>14,
      <1>15, <1>16, <1>17, Frames

\* Types: what bounds the model.
LEMMA BoundTypesStep ==
    ASSUME Types, NEW p \in Procs, Input(p) \/ Worker(p) \/ Crash(p)
    PROVE  BoundTypes'
  BY Faults, RecorderAssumption DEF Types, BoundTypes

\* The steps of a process keep the types.
LEMMA ProcessTypes ==
    ASSUME Types, NEW p \in Procs, WorkerInv(p), Input(p) \/ Worker(p) \/ Crash(p)
    PROVE  Types'
<1>1. WorkerTypes'
  BY PointTyped, MarkerTyped, FlagsTyped DEF WorkerTypes
<1>2. ReaderTypes'
  <2>1. UNCHANGED reader
    BY Frames
  <2> QED BY <2>1 DEF Types, ReaderTypes
<1> QED BY <1>1, <1>2, InputTypesStep, DiskTypesStep, BoundTypesStep DEF Types


\* What is added to a queue.
LEMMA QueueAppend ==
    ASSUME Types, NEW p \in Procs, NEW e
    PROVE  /\ Append(queue[p], e) # <<>>
           /\ DOMAIN Append(queue[p], e) = 1 .. Len(queue[p]) + 1
           /\ DOMAIN queue[p] = 1 .. Len(queue[p]) /\ Len(queue[p]) \in Nat
           /\ \A i \in DOMAIN queue[p] : Append(queue[p], e)[i] = queue[p][i]
           /\ Append(queue[p], e)[Len(queue[p]) + 1] = e
<1> DEFINE s == queue[p]
<1>1. s \in Seq(Item)
  BY DEF Types, InputTypes
<1> HIDE DEF s
<1>2. /\ Append(s, e) # <<>>
      /\ DOMAIN Append(s, e) = 1 .. Len(s) + 1
      /\ DOMAIN s = 1 .. Len(s) /\ Len(s) \in Nat
      /\ \A i \in DOMAIN s : Append(s, e)[i] = s[i]
      /\ Append(s, e)[Len(s) + 1] = e
  BY <1>1
<1> QED BY <1>2 DEF s

\* A submission, as the queue and the pending gap see it.
LEMMA Submitted ==
    ASSUME Types, NEW p \in Procs, Submits(p)
    PROVE  /\ Alive(p) \/ life[p] = "stopped"
           /\ submitted'[p] = submitted[p] + 1
           /\ \/ /\ life[p] = "up" /\ UNCHANGED pending
                 /\ queue'[p] # <<>>
                 /\ DOMAIN queue[p] = 1 .. Len(queue[p]) /\ Len(queue[p]) \in Nat
                 /\ DOMAIN queue'[p] = 1 .. Len(queue[p]) + 1
                 /\ \A i \in DOMAIN queue[p] : queue'[p][i] = queue[p][i]
                 /\ queue'[p][Len(queue[p]) + 1].id = submitted[p] + 1
              \/ UNCHANGED queue /\ pending'[p] = pending[p] \cup {<<p, submitted[p] + 1>>}
           /\ UNCHANGED <<life, flushing, workerAt, started, ready, clean, gapReady, marker, intents,
                          orphans, gapLock, holder, gapJson, stored, lease, leases, ioFaults,
                          processCrashes, reader>>
<1>1. PICK r \in Ids \cup {NoBatch} : Submit(p, r)
  BY DEF Submits
<1> DEFINE e == [id |-> submitted[p] + 1, retracts |-> r]
<1>2. e.id = submitted[p] + 1
  OBVIOUS
<1>3. \/ /\ life[p] = "up" /\ UNCHANGED pending
         /\ queue'[p] = Append(queue[p], e)
      \/ UNCHANGED queue /\ pending'[p] = pending[p] \cup {<<p, submitted[p] + 1>>}
  BY <1>1, SubmitDoes
<1> HIDE DEF e
<1>4. /\ Append(queue[p], e) # <<>>
      /\ DOMAIN Append(queue[p], e) = 1 .. Len(queue[p]) + 1
      /\ DOMAIN queue[p] = 1 .. Len(queue[p]) /\ Len(queue[p]) \in Nat
      /\ \A i \in DOMAIN queue[p] : Append(queue[p], e)[i] = queue[p][i]
      /\ Append(queue[p], e)[Len(queue[p]) + 1] = e
  BY QueueAppend
<1>5. /\ Alive(p) \/ life[p] = "stopped"
      /\ submitted'[p] = submitted[p] + 1
      /\ UNCHANGED <<life, flushing, workerAt, started, ready, clean, gapReady, marker, intents,
                     orphans, gapLock, holder, gapJson, stored, lease, leases, ioFaults,
                     processCrashes, reader>>
  BY <1>1, SubmitDoes
<1> QED BY <1>2, <1>3, <1>4, <1>5

\* The worker has in hand what it is about to write.
LEMMA WorkerSelf ==
    ASSUME Types, NEW p \in Procs, WorkerInv(p),
           Input(p) \/ Worker(p) \/ Crash(p)
    PROVE  WorkerInv(p)'
<1>1. CASE Start(p)
  BY SMTT(30), <1>1, StartDoes DEF WorkerInv, Alive, Preparing, Flushing
<1>2. CASE Submits(p)
  <2>1. /\ Alive(p) \/ life[p] = "stopped"
        /\ queue'[p] = queue[p] \/ (life[p] = "up" /\ queue'[p] # <<>>)
        /\ UNCHANGED <<life, workerAt, started, flushing, gapReady>>
    BY <1>2, Submitted
  <2> QED BY <2>1 DEF WorkerInv, Alive
<1>3. CASE Shutdown(p)
  BY SMTT(30), <1>3, ShutdownDoes DEF WorkerInv, Alive, Preparing, Flushing
<1>4. CASE CreateMarker(p)
  BY SMTT(30), <1>4, CreateMarkerDoes
    DEF WorkerInv, AfterMarker, Work, Alive, Preparing, Flushing
<1>5. CASE EnsureGapState(p)
  BY SMTT(30), <1>5, EnsureGapStateDoes DEF WorkerInv, Work, Alive, Preparing, Flushing
<1>6. CASE EnsureWriteJson(p)
  BY <1>6, EnsureWriteJsonDoes DEF WorkerInv, Work, Alive, Preparing, Flushing
<1>7. CASE TakeGap(p)
  BY <1>7, TakeGapDoes DEF WorkerInv, BeginWork, Alive, Preparing, Flushing
<1>8. CASE TakeItem(p)
  BY <1>8, TakeItemDoes DEF WorkerInv, BeginWork, Alive, Preparing, Flushing
<1>9. CASE StopWorker(p)
  BY <1>9, StopWorkerDoes DEF WorkerInv, Alive, Preparing, Flushing
<1>10. CASE BeginGap(p)
  BY <1>10, BeginGapDoes DEF WorkerInv, Alive, Preparing, Flushing
<1>11. CASE CreateGapIntent(p)
  BY <1>11, CreateGapIntentDoes DEF WorkerInv, Alive, Preparing, Flushing
<1>12. CASE UpdateLock(p)
  BY <1>12, UpdateLockDoes DEF WorkerInv, Alive, Preparing, Flushing
<1>13. CASE UpdateJson(p)
  BY <1>13, UpdateJsonDoes DEF WorkerInv, Alive, Preparing, Flushing
<1>14. CASE PublishJson(p)
  BY <1>14, PublishJsonDoes DEF WorkerInv, Alive, Preparing, Flushing
<1>15. CASE PublishLock(p)
  BY <1>15, PublishLockDoes DEF WorkerInv, Alive, Preparing, Flushing
<1>16. CASE MarkLock(p)
  BY <1>16, MarkLockDoes DEF WorkerInv, Alive, Preparing, Flushing
<1>17. CASE MarkJson(p)
  BY <1>17, MarkJsonDoes DEF WorkerInv, Alive, Preparing, Flushing
<1>18. CASE RemoveGapIntent(p)
  BY <1>18, RemoveGapIntentDoes DEF WorkerInv, Alive, Preparing, Flushing
<1>19. CASE EndGap(p)
  BY <1>19, EndGapDoes DEF WorkerInv, Alive, Preparing, Flushing
<1>20. CASE PersistLocked(p)
  BY <1>20, PersistLockedDoes DEF WorkerInv, Alive, Preparing, Flushing
<1>21. CASE Persist(p)
  BY <1>21, PersistDoes DEF WorkerInv, Alive, Preparing, Flushing
<1>22. CASE PersistFails(p)
  BY <1>22, PersistFailsDoes DEF WorkerInv, Alive, Preparing, Flushing
<1>23. CASE Crash(p)
  BY <1>23, CrashDoes DEF WorkerInv, Alive, Preparing, Flushing
<1> QED BY <1>1, <1>2, <1>3, <1>4, <1>5, <1>6, <1>7, <1>8, <1>9, <1>10, <1>11, <1>12, <1>13, <1>14,
      <1>15, <1>16, <1>17, <1>18, <1>19, <1>20, <1>21, <1>22, <1>23, Inputs DEF Worker

\* The process knows its marker.
LEMMA MarkerSelf ==
    ASSUME Types, NEW p \in Procs, WorkerInv(p), MarkerInv(p),
           Input(p) \/ Worker(p) \/ Crash(p)
    PROVE  MarkerInv(p)'
<1>1. CASE Start(p)
  BY <1>1, StartDoes DEF MarkerInv, WorkerInv, Alive, Preparing, Announced, Flushing
<1>2. CASE Shutdown(p)
  BY <1>2, ShutdownDoes DEF MarkerInv, WorkerInv, Alive, Preparing, Announced, Flushing
<1>3. CASE CreateMarker(p)
  BY <1>3, CreateMarkerDoes
    DEF MarkerInv, AfterMarker, Work, WorkerInv, Alive, Preparing, Announced, Flushing
<1>4. CASE EnsureGapState(p)
  BY <1>4, EnsureGapStateDoes
    DEF MarkerInv, Work, WorkerInv, Alive, Preparing, Announced, Flushing
<1>5. CASE EnsureWriteJson(p)
  BY <1>5, EnsureWriteJsonDoes
    DEF MarkerInv, Work, WorkerInv, Alive, Preparing, Announced, Flushing
<1>6. CASE TakeGap(p)
  BY <1>6, TakeGapDoes DEF MarkerInv, BeginWork, WorkerInv, Alive, Preparing, Announced, Flushing
<1>7. CASE TakeItem(p)
  BY <1>7, TakeItemDoes
    DEF MarkerInv, BeginWork, WorkerInv, Alive, Preparing, Announced, Flushing
<1>8. CASE StopWorker(p)
  BY <1>8, StopWorkerDoes DEF MarkerInv, WorkerInv, Alive, Preparing, Announced, Flushing
<1>9. CASE BeginGap(p)
  BY <1>9, BeginGapDoes DEF MarkerInv, WorkerInv, Alive, Preparing, Announced, Flushing
<1>10. CASE CreateGapIntent(p)
  <2>1. /\ workerAt[p] = "intent"
        /\ \/ workerAt'[p] = "update_lock" /\ p \in intents'
           \/ workerAt'[p] = "mark_lock" /\ (p \in intents' => p \in intents)
        /\ UNCHANGED <<life, started, ready, clean, marker>>
    BY <1>10, CreateGapIntentDoes
  <2> QED BY <2>1 DEF MarkerInv, Alive, Announced, Flushing
<1>11. CASE UpdateLock(p)
  BY SMTT(30), <1>11, UpdateLockDoes
    DEF MarkerInv, WorkerInv, Alive, Preparing, Announced, Flushing
<1>12. CASE UpdateJson(p)
  BY <1>12, UpdateJsonDoes DEF MarkerInv, WorkerInv, Alive, Preparing, Announced, Flushing
<1>13. CASE PublishJson(p)
  BY <1>13, PublishJsonDoes DEF MarkerInv, WorkerInv, Alive, Preparing, Announced, Flushing
<1>14. CASE PublishLock(p)
  BY <1>14, PublishLockDoes DEF MarkerInv, WorkerInv, Alive, Preparing, Announced, Flushing
<1>15. CASE MarkLock(p)
  BY <1>15, MarkLockDoes DEF MarkerInv, WorkerInv, Alive, Preparing, Announced, Flushing
<1>16. CASE MarkJson(p)
  BY <1>16, MarkJsonDoes DEF MarkerInv, WorkerInv, Alive, Preparing, Announced, Flushing
<1>17. CASE RemoveGapIntent(p)
  BY <1>17, RemoveGapIntentDoes DEF MarkerInv, WorkerInv, Alive, Preparing, Announced, Flushing
<1>18. CASE EndGap(p)
  BY <1>18, EndGapDoes DEF MarkerInv, WorkerInv, Alive, Preparing, Announced, Flushing
<1>19. CASE PersistLocked(p)
  BY <1>19, PersistLockedDoes DEF MarkerInv, WorkerInv, Alive, Preparing, Announced, Flushing
<1>20. CASE Persist(p)
  BY <1>20, PersistDoes DEF MarkerInv, WorkerInv, Alive, Preparing, Announced, Flushing
<1>21. CASE PersistFails(p)
  BY <1>21, PersistFailsDoes DEF MarkerInv, WorkerInv, Alive, Preparing, Announced, Flushing
<1>22. CASE Crash(p)
  BY <1>22, CrashDoes DEF MarkerInv, WorkerInv, Alive, Preparing, Announced, Flushing
<1>23. CASE UNCHANGED <<life, started, workerAt, ready, clean, marker, intents>>
  BY <1>23 DEF MarkerInv, WorkerInv, Alive, Preparing, Announced, Flushing
<1> QED BY <1>1, <1>2, <1>3, <1>4, <1>5, <1>6, <1>7, <1>8, <1>9, <1>10, <1>11, <1>12, <1>13, <1>14,
      <1>15, <1>16, <1>17, <1>18, <1>19, <1>20, <1>21, <1>22, <1>23, Frames

\* The record has one writer.
LEMMA RecordSelf ==
    ASSUME Types, NEW p \in Procs, WorkerInv(p), MarkerInv(p), RecordInv(p),
           Input(p) \/ Worker(p) \/ Crash(p)
    PROVE  RecordInv(p)'
<1>1. CASE Start(p)
  BY <1>1, StartDoes, RecorderAssumption
    DEF RecordInv, WorkerInv, Alive, LockFree, Recorded, Holding
<1>2. CASE CreateMarker(p)
  BY <1>2, CreateMarkerDoes, RecorderAssumption
    DEF RecordInv, AfterMarker, Work, Preparing, WorkerInv, Alive, LockFree, Recorded, Holding
<1>3. CASE EnsureGapState(p)
  BY <1>3, EnsureGapStateDoes, RecorderAssumption
    DEF RecordInv, Work, WorkerInv, Alive, LockFree, Recorded, Holding
<1>4. CASE EnsureWriteJson(p)
  BY <1>4, EnsureWriteJsonDoes, RecorderAssumption
    DEF RecordInv, Work, WorkerInv, Alive, LockFree, Recorded, Holding
<1>5. CASE TakeGap(p)
  BY <1>5, TakeGapDoes, RecorderAssumption
    DEF RecordInv, BeginWork, WorkerInv, Alive, LockFree, Recorded, Holding
<1>6. CASE TakeItem(p)
  BY <1>6, TakeItemDoes, RecorderAssumption
    DEF RecordInv, BeginWork, WorkerInv, Alive, LockFree, Recorded, Holding
<1>7. CASE StopWorker(p)
  BY <1>7, StopWorkerDoes, RecorderAssumption
    DEF RecordInv, WorkerInv, Alive, LockFree, Recorded, Holding
<1>8. CASE BeginGap(p)
  BY <1>8, BeginGapDoes, RecorderAssumption
    DEF RecordInv, WorkerInv, Alive, LockFree, Recorded, Holding
<1>9. CASE CreateGapIntent(p)
  BY <1>9, CreateGapIntentDoes, RecorderAssumption
    DEF RecordInv, WorkerInv, Alive, LockFree, Recorded, Holding
<1>10. CASE UpdateLock(p)
  BY <1>10, UpdateLockDoes, RecorderAssumption
    DEF RecordInv, WorkerInv, Alive, LockFree, Recorded, Holding
<1>11. CASE UpdateJson(p)
  BY <1>11, UpdateJsonDoes, RecorderAssumption
    DEF RecordInv, UpdatedGap, WorkerInv, Alive, LockFree, Recorded, Holding
<1>12. CASE PublishJson(p)
  BY <1>12, PublishJsonDoes, RecorderAssumption
    DEF RecordInv, UpdatedGap, WorkerInv, Alive, LockFree, Recorded, Holding
<1>13. CASE PublishLock(p)
  BY <1>13, PublishLockDoes, RecorderAssumption
    DEF RecordInv, WorkerInv, Alive, LockFree, Recorded, Holding
<1>14. CASE MarkLock(p)
  BY <1>14, MarkLockDoes, RecorderAssumption
    DEF RecordInv, WorkerInv, Alive, LockFree, Recorded, Holding
<1>15. CASE MarkJson(p)
  BY <1>15, MarkJsonDoes, RecorderAssumption
    DEF RecordInv, WorkerInv, Alive, LockFree, Recorded, Holding
<1>16. CASE RemoveGapIntent(p)
  BY <1>16, RemoveGapIntentDoes, RecorderAssumption
    DEF RecordInv, WorkerInv, Alive, LockFree, Recorded, Holding
<1>17. CASE EndGap(p)
  BY <1>17, EndGapDoes, RecorderAssumption
    DEF RecordInv, WorkerInv, Alive, LockFree, Recorded, Holding
<1>18. CASE PersistLocked(p)
  BY <1>18, PersistLockedDoes, RecorderAssumption
    DEF RecordInv, WorkerInv, Alive, LockFree, Recorded, Holding
<1>19. CASE Persist(p)
  BY <1>19, PersistDoes, RecorderAssumption
    DEF RecordInv, WorkerInv, Alive, LockFree, Recorded, Holding
<1>20. CASE PersistFails(p)
  BY <1>20, PersistFailsDoes, RecorderAssumption
    DEF RecordInv, WorkerInv, Alive, LockFree, Recorded, Holding
<1>21. CASE Crash(p)
  BY <1>21, CrashDoes, RecorderAssumption
    DEF RecordInv, WorkerInv, Alive, LockFree, Recorded, Holding
<1>22. CASE UNCHANGED <<workerAt, flushing, holder, gapJson>>
  BY <1>22 DEF RecordInv, WorkerInv, Alive, LockFree, Recorded, Holding
<1> QED BY <1>1, <1>2, <1>3, <1>4, <1>5, <1>6, <1>7, <1>8, <1>9, <1>10, <1>11, <1>12, <1>13, <1>14,
      <1>15, <1>16, <1>17, <1>18, <1>19, <1>20, <1>21, <1>22, Frames


\* The record and the flock change only under the hand of their holder.
LEMMA OneWriter ==
    ASSUME Types, NEW p \in Procs, WorkerInv(p), MarkerInv(p), RecordInv(p),
           Input(p) \/ Worker(p) \/ Crash(p)
    PROVE  /\ holder = p \/ UNCHANGED gapJson
           /\ \/ holder' = holder
              \/ holder = NoProc /\ holder' = p
              \/ holder = p /\ holder' = NoProc
           /\ holder = p \/ (holder = NoProc /\ ~ reader.locked) \/ UNCHANGED gapLock
<1>1. CASE EnsureGapState(p)
  BY <1>1, EnsureGapStateDoes DEF RecordInv, Holding, LockFree
<1>2. CASE EnsureWriteJson(p)
  BY <1>2, EnsureWriteJsonDoes DEF RecordInv, Holding, LockFree
<1>3. CASE UpdateLock(p)
  BY <1>3, UpdateLockDoes DEF RecordInv, Holding, LockFree
<1>4. CASE UpdateJson(p)
  BY <1>4, UpdateJsonDoes DEF RecordInv, Holding, LockFree
<1>5. CASE PublishJson(p)
  BY <1>5, PublishJsonDoes DEF RecordInv, Holding, LockFree
<1>6. CASE PublishLock(p)
  BY <1>6, PublishLockDoes DEF RecordInv, Holding, LockFree
<1>7. CASE MarkLock(p)
  BY <1>7, MarkLockDoes DEF RecordInv, Holding, LockFree
<1>8. CASE MarkJson(p)
  BY <1>8, MarkJsonDoes DEF RecordInv, Holding, LockFree
<1>9. CASE Crash(p)
  <2>1. holder = p \/ UNCHANGED gapLock \/ LockFree
    BY <1>9 DEF Crash, TornLock, RecordInv, Holding
  <2> QED BY <1>9, <2>1, CrashDoes DEF LockFree
<1>10. CASE UNCHANGED <<gapJson, holder, gapLock>>
  BY <1>10
<1> QED BY <1>1, <1>2, <1>3, <1>4, <1>5, <1>6, <1>7, <1>8, <1>9, <1>10, Frames

\* A process touches no intent but its own.
LEMMA OwnIntent ==
    ASSUME Types, NEW p \in Procs, WorkerInv(p), MarkerInv(p), RecordInv(p),
           Input(p) \/ Worker(p) \/ Crash(p)
    PROVE  \A q \in Procs \ {p} : q \in intents' <=> q \in intents
<1>1. CASE CreateGapIntent(p)
  BY <1>1, CreateGapIntentDoes
<1>2. CASE RemoveGapIntent(p)
  BY <1>2, RemoveGapIntentDoes
<1>3. CASE EndGap(p)
  BY <1>3, EndGapDoes
<1>4. CASE Crash(p)
  BY <1>4, CrashDoes
<1>5. CASE UNCHANGED intents
  BY <1>5
<1> QED BY <1>1, <1>2, <1>3, <1>4, <1>5, Frames

\* The record only grows, and has no counts before there is a gap.
LEMMA RecordGrows ==
    ASSUME Types, NEW p \in Procs, WorkerInv(p), MarkerInv(p), RecordInv(p), NoCountsYet,
           Input(p) \/ Worker(p) \/ Crash(p)
    PROVE  /\ Recorded => Recorded'
           /\ gapJson.counts \subseteq gapJson'.counts
           /\ NoCountsYet'
<1>1. CASE EnsureWriteJson(p)
  BY <1>1, EnsureWriteJsonDoes DEF Recorded, NoCountsYet, RecordInv, NoGap
<1>2. CASE UpdateJson(p)
  BY <1>2, UpdateJsonDoes DEF Recorded, NoCountsYet, RecordInv, UpdatedGap
<1>3. CASE PublishJson(p)
  BY <1>3, PublishJsonDoes DEF Recorded, NoCountsYet, RecordInv, UpdatedGap
<1>4. CASE MarkJson(p)
  BY <1>4, MarkJsonDoes DEF Recorded, NoCountsYet, RecordInv
<1>5. CASE UNCHANGED gapJson
  BY <1>5 DEF Recorded, NoCountsYet
<1> QED BY <1>1, <1>2, <1>3, <1>4, <1>5, Frames

\* An intent that was left behind stays.
LEMMA OrphansStay ==
    ASSUME Types, NEW p \in Procs, WorkerInv(p), MarkerInv(p), RecordInv(p),
           Input(p) \/ Worker(p) \/ Crash(p)
    PROVE  orphans => orphans'
<1>1. CASE CreateGapIntent(p)
  BY <1>1, CreateGapIntentDoes
<1>2. CASE EndGap(p)
  BY <1>2, EndGapDoes
<1>3. CASE Crash(p)
  BY <1>3, CrashDoes
<1>4. CASE UNCHANGED orphans
  BY <1>4
<1> QED BY <1>1, <1>2, <1>3, <1>4, Frames

\* What the worker of another process knows stays true.
LEMMA ControlOthers ==
    ASSUME Types, NEW p \in Procs, WorkerInv(p), MarkerInv(p), RecordInv(p), NoCountsYet,
           NEW q \in Procs, q # p, WorkerInv(q), MarkerInv(q), RecordInv(q),
           Input(p) \/ Worker(p) \/ Crash(p)
    PROVE  WorkerInv(q)' /\ MarkerInv(q)' /\ RecordInv(q)'
<1>1. UNCHANGED <<life[q], queue[q], submitted[q], outcome[q], pending[q], flushing[q], workerAt[q],
                  started[q], ready[q], clean[q], gapReady[q], marker[q]>>
  BY Elsewhere
<1>2. q \in intents' <=> q \in intents
  BY OwnIntent
<1>3. WorkerInv(q)'
  BY <1>1 DEF WorkerInv, Alive
<1>4. MarkerInv(q)'
  BY <1>1, <1>2 DEF MarkerInv, Alive
<1>5. /\ holder' = q <=> holder = q
      /\ holder = q => UNCHANGED gapJson
      /\ Recorded => Recorded'
  BY OneWriter, RecordGrows, RecorderAssumption
<1>6. workerAt[q] \in {"ensure_json", "update_json", "publish_json"} => holder = q
  BY DEF RecordInv, Holding
<1>7. RecordInv(q)'
  BY <1>1, <1>5, <1>6 DEF RecordInv
<1> QED BY <1>3, <1>4, <1>7


\* What is added to the store.
LEMMA StoredAppend ==
    ASSUME Types, NEW e
    PROVE  /\ DOMAIN Append(stored, e) = 1 .. Len(stored) + 1
           /\ DOMAIN stored = 1 .. Len(stored) /\ Len(stored) \in Nat
           /\ \A k \in DOMAIN stored : Append(stored, e)[k] = stored[k]
           /\ Append(stored, e)[Len(stored) + 1] = e
<1>1. stored \in Seq(Lossy)
  BY DEF Types, DiskTypes
<1> QED BY <1>1

\* The item the worker is about to persist.
LEMMA InHand ==
    ASSUME Types, NEW p \in Procs, WorkerInv(p), workerAt[p] = "persist"
    PROVE  /\ 1 \in DOMAIN queue[p] /\ Head(queue[p]) = queue[p][1]
           /\ DOMAIN queue[p] = 1 .. Len(queue[p]) /\ Len(queue[p]) \in Nat \ {0}
           /\ DOMAIN Tail(queue[p]) = 1 .. Len(queue[p]) - 1
           /\ \A i \in 1 .. Len(queue[p]) - 1 : Tail(queue[p])[i] = queue[p][i + 1]
           /\ queue[p] # <<>> /\ <<p, Head(queue[p]).id>> \in Lossy
<1>1. queue[p] # <<>>
  BY DEF WorkerInv
<1>2. queue[p] \in Seq(Item)
  BY DEF Types, InputTypes
<1>3. DOMAIN queue[p] = 1 .. Len(queue[p])
  BY <1>2
<1> QED BY <1>1, <1>3, Front

\* An item that leaves the front of its queue.
LEMMA FrontLeaves ==
    ASSUME Types, NEW p \in Procs, WorkerInv(p), OrderInv(p), Persist(p) \/ PersistFails(p)
    PROVE  LET h == <<p, Head(queue[p]).id>> IN
           /\ h \in QueuedIds(p) /\ h \in Lossy /\ h[2] \in 1 .. submitted[p] /\ h \notin StoredSet
           /\ QueuedIds(p)' = QueuedIds(p) \ {h}
           /\ Persist(p) => StoredSet' = StoredSet \cup {h} /\ UNCHANGED pending
           /\ PersistFails(p) => UNCHANGED stored /\ pending'[p] = pending[p] \cup {h}
<1> DEFINE h == <<p, Head(queue[p]).id>>
           n == Len(queue[p])
<1>1. workerAt[p] = "persist"
  BY PersistDoes, PersistFailsDoes
<1>2. /\ 1 \in DOMAIN queue[p] /\ Head(queue[p]) = queue[p][1]
      /\ DOMAIN queue[p] = 1 .. n /\ n \in Nat \ {0}
      /\ DOMAIN Tail(queue[p]) = 1 .. n - 1
      /\ \A i \in 1 .. n - 1 : Tail(queue[p])[i] = queue[p][i + 1]
      /\ queue[p] # <<>> /\ h \in Lossy
  BY <1>1, InHand
<1>3. queue'[p] = Tail(queue[p])
  BY <1>2, PersistDoes, PersistFailsDoes
<1>4. h \in QueuedIds(p) /\ h[2] \in 1 .. submitted[p] /\ h = <<p, queue[p][1].id>>
  BY <1>2 DEF QueuedIds, OrderInv
<1>5. h \notin StoredSet
  <2> SUFFICES ASSUME NEW k \in DOMAIN stored, stored[k] = h PROVE FALSE
    BY DEF StoredSet
  <2>1. stored[k][1] = p /\ stored[k][2] = queue[p][1].id
    BY <1>4
  <2>2. stored[k][2] < queue[p][1].id /\ queue[p][1].id \in Int
    BY <2>1, <1>2 DEF OrderInv
  <2> QED BY <2>1, <2>2
<1>6. QueuedIds(p)' = QueuedIds(p) \ {h}
  <2>1. QueuedIds(p)' = {<<p, queue[p][i + 1].id>> : i \in 1 .. n - 1}
    BY <1>2, <1>3 DEF QueuedIds
  <2>2. QueuedIds(p) = {<<p, queue[p][i].id>> : i \in 1 .. n}
    BY <1>2 DEF QueuedIds
  <2>3. \A i \in 1 .. n : queue[p][i].id \in Int
    BY <1>2 DEF OrderInv
  <2>4. \A i \in 1 .. n - 1 : queue[p][i + 1].id # queue[p][1].id
    <3> SUFFICES ASSUME NEW i \in 1 .. n - 1 PROVE queue[p][i + 1].id # queue[p][1].id
      OBVIOUS
    <3>1. i + 1 \in DOMAIN queue[p] /\ 1 \in DOMAIN queue[p] /\ 1 < i + 1
      BY <1>2
    <3>2. queue[p][1].id < queue[p][i + 1].id
      BY <3>1 DEF OrderInv
    <3> QED BY <3>1, <3>2, <2>3, <1>2
  <2>5. ASSUME NEW x \in QueuedIds(p)' PROVE x \in QueuedIds(p) \ {h}
    <3>1. PICK i \in 1 .. n - 1 : x = <<p, queue[p][i + 1].id>>
      BY <2>1, <2>5
    <3>2. i + 1 \in 1 .. n
      BY <1>2
    <3> QED BY <3>1, <3>2, <2>2, <2>4, <1>4
  <2>6. ASSUME NEW x \in QueuedIds(p), x # h PROVE x \in QueuedIds(p)'
    <3>1. PICK i \in 1 .. n : x = <<p, queue[p][i].id>>
      BY <2>2, <2>6
    <3>2. i - 1 \in 1 .. n - 1 /\ i = (i - 1) + 1
      BY <3>1, <2>6, <1>2, <1>4
    <3> QED BY <3>1, <3>2, <2>1
  <2> QED BY <2>5, <2>6
<1>7. Persist(p) => StoredSet' = StoredSet \cup {h} /\ UNCHANGED pending
  <2> SUFFICES ASSUME Persist(p) PROVE StoredSet' = StoredSet \cup {h} /\ UNCHANGED pending
    OBVIOUS
  <2>1. stored' = Append(stored, h) /\ UNCHANGED pending
    BY PersistDoes
  <2>2. /\ DOMAIN Append(stored, h) = 1 .. Len(stored) + 1
        /\ DOMAIN stored = 1 .. Len(stored) /\ Len(stored) \in Nat
        /\ \A k \in DOMAIN stored : Append(stored, h)[k] = stored[k]
        /\ Append(stored, h)[Len(stored) + 1] = h
    BY StoredAppend
  <2> HIDE DEF h
  <2> QED BY <2>1, <2>2 DEF StoredSet
<1>8. PersistFails(p) => UNCHANGED stored /\ pending'[p] = pending[p] \cup {h}
  BY PersistFailsDoes
<1> QED BY <1>2, <1>4, <1>5, <1>6, <1>7, <1>8

\* What a submission adds to the queue or to the pending gap.
LEMMA SubmittedIds ==
    ASSUME Types, NEW p \in Procs, Submits(p)
    PROVE  LET n == <<p, submitted[p] + 1>> IN
           \/ QueuedIds(p)' = QueuedIds(p) \cup {n} /\ UNCHANGED pending
           \/ UNCHANGED queue /\ QueuedIds(p)' = QueuedIds(p) /\ pending'[p] = pending[p] \cup {n}
<1>1. CASE /\ UNCHANGED pending
           /\ DOMAIN queue[p] = 1 .. Len(queue[p]) /\ Len(queue[p]) \in Nat
           /\ DOMAIN queue'[p] = 1 .. Len(queue[p]) + 1
           /\ \A i \in DOMAIN queue[p] : queue'[p][i] = queue[p][i]
           /\ queue'[p][Len(queue[p]) + 1].id = submitted[p] + 1
  BY <1>1 DEF QueuedIds
<1>2. CASE UNCHANGED queue /\ pending'[p] = pending[p] \cup {<<p, submitted[p] + 1>>}
  BY <1>2 DEF QueuedIds
<1> QED BY <1>1, <1>2, Submitted


\* What is queued is younger than what is stored.
LEMMA OrderSelf ==
    ASSUME Types, NEW p \in Procs, WorkerInv(p), OrderInv(p),
           Input(p) \/ Worker(p) \/ Crash(p)
    PROVE  OrderInv(p)'
<1>1. CASE Submits(p)
  <2>1. submitted[p] \in Nat /\ submitted'[p] = submitted[p] + 1 /\ UNCHANGED stored
    BY <1>1, Submitted, RecorderAssumption DEF Types, InputTypes
  <2>2. CASE UNCHANGED queue
    BY <2>1, <2>2 DEF OrderInv
  <2>3. CASE /\ DOMAIN queue[p] = 1 .. Len(queue[p]) /\ Len(queue[p]) \in Nat
             /\ DOMAIN queue'[p] = 1 .. Len(queue[p]) + 1
             /\ \A i \in DOMAIN queue[p] : queue'[p][i] = queue[p][i]
             /\ queue'[p][Len(queue[p]) + 1].id = submitted[p] + 1
    <3> DEFINE n == Len(queue[p])
    <3>1. \A i \in 1 .. n + 1 : i = n + 1 \/ (i \in DOMAIN queue[p] /\ i < n + 1)
      BY <2>3
    <3>2. \A i \in DOMAIN queue[p] : queue'[p][i].id \in 1 .. submitted[p]
      BY <2>3 DEF OrderInv
    <3>3. \A i \in 1 .. n + 1 : queue'[p][i].id \in 1 .. submitted'[p]
      <4>1. 1 .. submitted[p] \subseteq 1 .. submitted'[p] /\ submitted[p] + 1 \in 1 .. submitted'[p]
        BY <2>1
      <4> QED BY <4>1, <3>1, <3>2, <2>3
    <3>4. ASSUME NEW i \in 1 .. n + 1, NEW j \in 1 .. n + 1, i < j
          PROVE  queue'[p][i].id < queue'[p][j].id
      <4>1. i \in DOMAIN queue[p]
        BY <3>1, <3>4, <2>3
      <4>2. CASE j = n + 1
        BY <4>1, <4>2, <3>2, <2>1, <2>3
      <4>3. CASE j \in DOMAIN queue[p]
        BY <4>1, <4>3, <3>4, <2>3 DEF OrderInv
      <4> QED BY <4>2, <4>3, <3>1
    <3>5. ASSUME NEW k \in DOMAIN stored, stored[k][1] = p
          PROVE  /\ stored[k][2] \in 1 .. submitted'[p]
                 /\ \A i \in 1 .. n + 1 : stored[k][2] < queue'[p][i].id
      <4>1. stored[k][2] \in 1 .. submitted[p]
        BY <3>5 DEF OrderInv
      <4>2. \A i \in DOMAIN queue[p] : stored[k][2] < queue'[p][i].id
        BY <3>5, <2>3 DEF OrderInv
      <4> QED BY SMTT(30), <4>1, <4>2, <3>1, <2>1, <2>3
    <3> QED BY SMTT(30), <3>3, <3>4, <3>5, <2>1, <2>3 DEF OrderInv
  <2> QED BY <1>1, <2>2, <2>3, Submitted
<1>2. CASE TakeGap(p)
  BY <1>2, TakeGapDoes DEF OrderInv
<1>3. CASE Persist(p)
  <2> DEFINE n == Len(queue[p])
             h == queue[p][1].id
  <2>1. workerAt[p] = "persist"
    BY <1>3, PersistDoes
  <2>2. /\ 1 \in DOMAIN queue[p] /\ Head(queue[p]) = queue[p][1]
        /\ DOMAIN queue[p] = 1 .. n /\ n \in Nat \ {0}
        /\ DOMAIN Tail(queue[p]) = 1 .. n - 1
        /\ \A i \in 1 .. n - 1 : Tail(queue[p])[i] = queue[p][i + 1]
        /\ queue[p] # <<>>
    BY <2>1, InHand
  <2>3. queue'[p] = Tail(queue[p]) /\ UNCHANGED submitted
    BY <1>3, <2>2, PersistDoes
  <2>4. \A i \in 1 .. n : queue[p][i].id \in 1 .. submitted[p]
    BY <2>2 DEF OrderInv
  <2>5. \A i, j \in 1 .. n : i < j => queue[p][i].id < queue[p][j].id
    BY <2>2 DEF OrderInv
  <2>6. \A i \in 1 .. n - 1 : queue'[p][i] = queue[p][i + 1] /\ i + 1 \in 1 .. n
    BY <2>2, <2>3
  <2>7. DOMAIN queue'[p] = 1 .. n - 1
    BY <2>2, <2>3
  <2>8. \A i \in DOMAIN queue'[p] : queue'[p][i].id \in 1 .. submitted'[p]
    BY <2>3, <2>4, <2>6, <2>7
  <2>9. ASSUME NEW i \in DOMAIN queue'[p], NEW j \in DOMAIN queue'[p], i < j
        PROVE  queue'[p][i].id < queue'[p][j].id
    <3>1. i + 1 \in 1 .. n /\ j + 1 \in 1 .. n /\ i + 1 < j + 1
      BY <2>9, <2>6, <2>7, <2>2
    <3> QED BY <3>1, <2>5, <2>6, <2>7
  <2>10. ASSUME NEW k \in DOMAIN stored', stored'[k][1] = p
        PROVE  /\ stored'[k][2] \in 1 .. submitted'[p]
               /\ \A i \in DOMAIN queue'[p] : stored'[k][2] < queue'[p][i].id
    <3>1. stored' = Append(stored, <<p, h>>)
      BY <1>3, <2>2, PersistDoes
    <3>2. /\ DOMAIN stored' = 1 .. Len(stored) + 1
          /\ DOMAIN stored = 1 .. Len(stored) /\ Len(stored) \in Nat
          /\ \A l \in DOMAIN stored : stored'[l] = stored[l]
          /\ stored'[Len(stored) + 1] = <<p, h>>
      BY <3>1, StoredAppend
    <3>3. CASE k \in DOMAIN stored
      <4>1. stored'[k] = stored[k] /\ stored[k][1] = p
        BY <3>2, <3>3, <2>10
      <4>2. /\ stored[k][2] \in 1 .. submitted[p]
            /\ \A i \in DOMAIN queue[p] : stored[k][2] < queue[p][i].id
        BY <3>3, <4>1 DEF OrderInv
      <4>3. \A i \in 1 .. n - 1 : stored[k][2] < queue'[p][i].id
        BY <4>2, <2>2, <2>6
      <4> QED BY <4>1, <4>2, <4>3, <2>3, <2>7
    <3>4. CASE k = Len(stored) + 1
      <4>1. stored'[k][2] = h
        BY <3>2, <3>4
      <4>2. h \in 1 .. submitted'[p]
        BY <2>2, <2>3, <2>4
      <4>3. \A i \in 1 .. n - 1 : h < queue[p][i + 1].id
        BY <2>2, <2>5, <2>6
      <4> QED BY <4>1, <4>2, <4>3, <2>6, <2>7
    <3> QED BY <3>2, <3>3, <3>4
  <2> QED BY <2>8, <2>9, <2>10 DEF OrderInv
<1>4. CASE PersistFails(p)
  <2> DEFINE n == Len(queue[p])
             h == queue[p][1].id
  <2>1. workerAt[p] = "persist"
    BY <1>4, PersistFailsDoes
  <2>2. /\ 1 \in DOMAIN queue[p] /\ Head(queue[p]) = queue[p][1]
        /\ DOMAIN queue[p] = 1 .. n /\ n \in Nat \ {0}
        /\ DOMAIN Tail(queue[p]) = 1 .. n - 1
        /\ \A i \in 1 .. n - 1 : Tail(queue[p])[i] = queue[p][i + 1]
        /\ queue[p] # <<>>
    BY <2>1, InHand
  <2>3. queue'[p] = Tail(queue[p]) /\ UNCHANGED submitted
    BY <1>4, <2>2, PersistFailsDoes
  <2>4. \A i \in 1 .. n : queue[p][i].id \in 1 .. submitted[p]
    BY <2>2 DEF OrderInv
  <2>5. \A i, j \in 1 .. n : i < j => queue[p][i].id < queue[p][j].id
    BY <2>2 DEF OrderInv
  <2>6. \A i \in 1 .. n - 1 : queue'[p][i] = queue[p][i + 1] /\ i + 1 \in 1 .. n
    BY <2>2, <2>3
  <2>7. DOMAIN queue'[p] = 1 .. n - 1
    BY <2>2, <2>3
  <2>8. \A i \in DOMAIN queue'[p] : queue'[p][i].id \in 1 .. submitted'[p]
    BY <2>3, <2>4, <2>6, <2>7
  <2>9. ASSUME NEW i \in DOMAIN queue'[p], NEW j \in DOMAIN queue'[p], i < j
        PROVE  queue'[p][i].id < queue'[p][j].id
    <3>1. i + 1 \in 1 .. n /\ j + 1 \in 1 .. n /\ i + 1 < j + 1
      BY <2>9, <2>6, <2>7, <2>2
    <3> QED BY <3>1, <2>5, <2>6, <2>7
  <2>10. ASSUME NEW k \in DOMAIN stored', stored'[k][1] = p
        PROVE  /\ stored'[k][2] \in 1 .. submitted'[p]
               /\ \A i \in DOMAIN queue'[p] : stored'[k][2] < queue'[p][i].id
    <3>1. stored' = stored
      BY <1>4, PersistFailsDoes
    <3> QED BY SMTT(30), <3>1, <2>10, <2>2, <2>3, <2>6, <2>7 DEF OrderInv
  <2> QED BY <2>8, <2>9, <2>10 DEF OrderInv
<1>5. CASE Crash(p)
  BY <1>5, CrashDoes DEF OrderInv
<1>6. CASE UNCHANGED <<queue, submitted, stored>>
  BY <1>6 DEF OrderInv
<1> QED BY <1>1, <1>2, <1>3, <1>4, <1>5, <1>6, Frames

\* The order of another process, and of the store.
LEMMA OrderOthers ==
    ASSUME Types, NEW p \in Procs, WorkerInv(p), NEW q \in Procs, q # p, OrderInv(q),
           Input(p) \/ Worker(p) \/ Crash(p)
    PROVE  OrderInv(q)'
<1>1. UNCHANGED <<queue[q], submitted[q]>>
  BY Elsewhere
<1>2. CASE UNCHANGED stored
  BY <1>1, <1>2 DEF OrderInv
<1>3. CASE Persist(p)
  <2> DEFINE h == Head(queue[p]).id
  <2>1. stored' = Append(stored, <<p, h>>)
    BY <1>3, PersistDoes
  <2> HIDE DEF h
  <2>2. /\ DOMAIN stored' = 1 .. Len(stored) + 1
        /\ DOMAIN stored = 1 .. Len(stored) /\ Len(stored) \in Nat
        /\ \A l \in DOMAIN stored : stored'[l] = stored[l]
        /\ stored'[Len(stored) + 1] = <<p, h>>
    BY <2>1, StoredAppend
  <2>3. \A k \in DOMAIN stored' : stored'[k][1] = q => k \in DOMAIN stored /\ stored'[k] = stored[k]
    BY <2>2
  <2> QED BY <1>1, <2>3 DEF OrderInv
<1> QED BY <1>2, <1>3, Frames

\* The store stays in order.
LEMMA AcceptedStep ==
    ASSUME Types, NEW p \in Procs, WorkerInv(p), OrderInv(p), AcceptedInOrder,
           Input(p) \/ Worker(p) \/ Crash(p)
    PROVE  AcceptedInOrder'
<1>1. CASE UNCHANGED stored
  BY <1>1 DEF AcceptedInOrder
<1>2. CASE Persist(p)
  <2> DEFINE h == Head(queue[p]).id
  <2>1. workerAt[p] = "persist" /\ stored' = Append(stored, <<p, h>>)
    BY <1>2, PersistDoes
  <2>2. 1 \in DOMAIN queue[p] /\ h = queue[p][1].id
    BY <2>1, InHand
  <2>3. \A k \in DOMAIN stored : stored[k][1] = p => stored[k][2] < h
    BY <2>2 DEF OrderInv
  <2> HIDE DEF h
  <2>4. /\ DOMAIN stored' = 1 .. Len(stored) + 1
        /\ DOMAIN stored = 1 .. Len(stored) /\ Len(stored) \in Nat
        /\ \A l \in DOMAIN stored : stored'[l] = stored[l]
        /\ stored'[Len(stored) + 1] = <<p, h>>
    BY <2>1, StoredAppend
  <2>5. ASSUME NEW i \in DOMAIN stored', NEW j \in DOMAIN stored', i < j, stored'[i][1] = stored'[j][1]
        PROVE  stored'[i][2] < stored'[j][2]
    <3>1. i \in DOMAIN stored /\ stored'[i] = stored[i]
      BY <2>4, <2>5
    <3>2. CASE j \in DOMAIN stored
      BY <3>1, <3>2, <2>4, <2>5 DEF AcceptedInOrder
    <3>3. CASE j = Len(stored) + 1
      BY <3>1, <3>3, <2>3, <2>4, <2>5
    <3> QED BY <3>2, <3>3, <2>4
  <2> QED BY <2>5 DEF AcceptedInOrder
<1> QED BY <1>1, <1>2, Frames


\* How the ids of a process move.
LEMMA IdsMove ==
    ASSUME Types, NEW p \in Procs, WorkerInv(p), OrderInv(p),
           Input(p) \/ Worker(p) \/ Crash(p)
    PROVE  /\ submitted[p] \in Nat
           /\ submitted'[p] = submitted[p] \/ submitted'[p] = submitted[p] + 1
           /\ \A x \in QueuedIds(p)' : x \in QueuedIds(p) \/ (Submits(p) /\ x = <<p, submitted[p] + 1>>)
           /\ \A x \in StoredSet' : x \in StoredSet \/ (Persist(p) /\ x \in QueuedIds(p) /\ x \notin QueuedIds(p)')
           /\ \A x \in pending'[p] :
                 \/ x \in pending[p]
                 \/ Submits(p) /\ x = <<p, submitted[p] + 1>> /\ QueuedIds(p)' = QueuedIds(p)
                 \/ /\ PersistFails(p) /\ x = <<p, Head(queue[p]).id>> /\ x \in QueuedIds(p)
                    /\ x \in Lossy /\ x[2] \in 1 .. submitted[p] /\ x \notin StoredSet /\ x \notin QueuedIds(p)'
           /\ StoredSet \subseteq StoredSet'
<1> DEFINE n == <<p, submitted[p] + 1>>
           h == <<p, Head(queue[p]).id>>
           Q(x) == x \in QueuedIds(p) \/ (Submits(p) /\ x = n)
           S(x) == x \in StoredSet \/ (Persist(p) /\ x \in QueuedIds(p) /\ x \notin QueuedIds(p)')
           P(x) == \/ x \in pending[p]
                   \/ Submits(p) /\ x = n /\ QueuedIds(p)' = QueuedIds(p)
                   \/ /\ PersistFails(p) /\ x = h /\ x \in QueuedIds(p)
                      /\ x \in Lossy /\ x[2] \in 1 .. submitted[p] /\ x \notin StoredSet /\ x \notin QueuedIds(p)'
           G == /\ submitted'[p] = submitted[p] \/ submitted'[p] = submitted[p] + 1
                /\ \A x \in QueuedIds(p)' : Q(x)
                /\ \A x \in StoredSet' : S(x)
                /\ \A x \in pending'[p] : P(x)
                /\ StoredSet \subseteq StoredSet'
<1>0. submitted[p] \in Nat
  BY RecorderAssumption DEF Types, InputTypes
<1> SUFFICES G
  BY <1>0
<1>1. CASE Submits(p)
  <2>1. /\ submitted'[p] = submitted[p] + 1 /\ UNCHANGED stored
        /\ \/ QueuedIds(p)' = QueuedIds(p) \cup {n} /\ UNCHANGED pending
           \/ QueuedIds(p)' = QueuedIds(p) /\ pending'[p] = pending[p] \cup {n}
    BY <1>1, SubmittedIds, Submitted
  <2>2. StoredSet' = StoredSet
    BY <2>1 DEF StoredSet
  <2>3. \A x \in QueuedIds(p)' : Q(x)
    BY <1>1, <2>1, <2>2
  <2>4. \A x \in StoredSet' : S(x)
    BY <1>1, <2>1, <2>2
  <2>5. \A x \in pending'[p] : P(x)
    BY <1>1, <2>1, <2>2
  <2>6. /\ submitted'[p] = submitted[p] \/ submitted'[p] = submitted[p] + 1
        /\ StoredSet \subseteq StoredSet'
    BY <1>1, <2>1, <2>2
  <2> QED BY <2>3, <2>4, <2>5, <2>6
<1>2. CASE Persist(p)
  <2>1. /\ QueuedIds(p)' = QueuedIds(p) \ {h} /\ h \in QueuedIds(p)
        /\ StoredSet' = StoredSet \cup {h} /\ UNCHANGED <<submitted, pending>>
    BY <1>2, FrontLeaves, PersistDoes
  <2> HIDE DEF h, n
  <2>2. \A x \in QueuedIds(p)' : Q(x)
    BY <1>2, <2>1
  <2>3. \A x \in StoredSet' : S(x)
    BY <1>2, <2>1
  <2>4. \A x \in pending'[p] : P(x)
    BY <1>2, <2>1
  <2>5. /\ submitted'[p] = submitted[p] \/ submitted'[p] = submitted[p] + 1
        /\ StoredSet \subseteq StoredSet'
    BY <1>2, <2>1
  <2> QED BY <2>2, <2>3, <2>4, <2>5
<1>3. CASE PersistFails(p)
  <2>1. /\ QueuedIds(p)' = QueuedIds(p) \ {h} /\ UNCHANGED <<stored, submitted>>
        /\ pending'[p] = pending[p] \cup {h}
        /\ h \in QueuedIds(p) /\ h \in Lossy /\ h[2] \in 1 .. submitted[p] /\ h \notin StoredSet
    BY <1>3, FrontLeaves, PersistFailsDoes
  <2>2. StoredSet' = StoredSet
    BY <2>1 DEF StoredSet
  <2> HIDE DEF h, n
  <2>3. \A x \in QueuedIds(p)' : Q(x)
    BY <1>3, <2>1, <2>2
  <2>4. \A x \in StoredSet' : S(x)
    BY <1>3, <2>1, <2>2
  <2>5. \A x \in pending'[p] : P(x)
    BY <1>3, <2>1, <2>2
  <2>6. /\ submitted'[p] = submitted[p] \/ submitted'[p] = submitted[p] + 1
        /\ StoredSet \subseteq StoredSet'
    BY <1>3, <2>1, <2>2
  <2> QED BY <2>3, <2>4, <2>5, <2>6
<1>4. CASE TakeGap(p) \/ Crash(p) \/ UNCHANGED <<queue, submitted, stored, pending>>
  <2>1. /\ queue'[p] = queue[p] \/ queue'[p] = <<>>
        /\ pending'[p] = pending[p] \/ pending'[p] = {}
        /\ UNCHANGED <<stored, submitted>>
    BY <1>4, TakeGapDoes, CrashDoes
  <2>2. QueuedIds(p)' = QueuedIds(p) \/ QueuedIds(p)' = {}
    BY <2>1 DEF QueuedIds
  <2>3. StoredSet' = StoredSet
    BY <2>1 DEF StoredSet
  <2> HIDE DEF h, n
  <2>4. \A x \in QueuedIds(p)' : Q(x)
    BY <2>1, <2>2, <2>3
  <2>5. \A x \in StoredSet' : S(x)
    BY <2>1, <2>2, <2>3
  <2>6. \A x \in pending'[p] : P(x)
    BY <2>1, <2>2, <2>3
  <2>7. /\ submitted'[p] = submitted[p] \/ submitted'[p] = submitted[p] + 1
        /\ StoredSet \subseteq StoredSet'
    BY <2>1, <2>2, <2>3
  <2> QED BY <2>4, <2>5, <2>6, <2>7
<1> QED BY <1>1, <1>2, <1>3, <1>4, Frames

\* An item that is neither stored nor queued stays so.
LEMMA UnstoredStays ==
    ASSUME Types, NEW p \in Procs, WorkerInv(p), OrderInv(p),
           Input(p) \/ Worker(p) \/ Crash(p),
           NEW x \in Lossy, Unstored(x)
    PROVE  Unstored(x)'
<1>1. x[1] \in Procs /\ x[2] \in Int /\ x = <<x[1], x[2]>>
  BY DEF Lossy, Ids
<1>2. CASE x[1] # p
  <2>1. UNCHANGED <<submitted[x[1]], queue[x[1]]>>
    BY <1>1, <1>2, Elsewhere
  <2>2. QueuedIds(x[1])' = QueuedIds(x[1])
    BY <2>1 DEF QueuedIds
  <2>3. x \notin QueuedIds(p)
    BY <1>1, <1>2 DEF QueuedIds
  <2>4. x \notin StoredSet'
    BY <2>3, IdsMove DEF Unstored
  <2> QED BY <2>1, <2>2, <2>4 DEF Unstored
<1>3. CASE x[1] = p
  <2>1. x[2] \in 1 .. submitted[p] /\ x \notin StoredSet /\ x \notin QueuedIds(p)
    BY <1>3 DEF Unstored
  <2>2. submitted[p] \in Nat /\ (submitted'[p] = submitted[p] \/ submitted'[p] = submitted[p] + 1)
    BY IdsMove
  <2>3. x[2] \in 1 .. submitted'[p] /\ x # <<p, submitted[p] + 1>>
    BY <2>1, <2>2
  <2>4. x \notin QueuedIds(p)' /\ x \notin StoredSet'
    BY <2>1, <2>3, IdsMove
  <2> QED BY <1>3, <2>3, <2>4 DEF Unstored
<1> QED BY <1>2, <1>3

\* A dropped item stays dropped.
LEMMA DroppedStays ==
    ASSUME Types, NEW p \in Procs, WorkerInv(p), OrderInv(p),
           Input(p) \/ Worker(p) \/ Crash(p),
           NEW x \in Lossy, Dropped(x)
    PROVE  Dropped(x)'
<1>1. x[1] \in Procs /\ x = <<x[1], x[2]>>
  BY DEF Lossy
<1>2. Unstored(x)'
  BY UnstoredStays DEF Dropped
<1>3. CASE x[1] # p
  <2>1. UNCHANGED pending[x[1]]
    BY <1>1, <1>3, Elsewhere
  <2> QED BY <1>2, <2>1 DEF Dropped
<1>4. CASE x[1] = p
  <2>1. x[2] \in 1 .. submitted[p] /\ x \notin QueuedIds(p) /\ x \notin pending[p] /\ submitted[p] \in Nat
    BY <1>4, IdsMove DEF Dropped, Unstored
  <2>2. x # <<p, submitted[p] + 1>>
    BY <2>1
  <2>3. x \notin pending'[p]
    BY <2>1, <2>2, IdsMove
  <2> QED BY <1>2, <1>4, <2>3 DEF Dropped
<1> QED BY <1>3, <1>4

\* What the worker is about to write: what was pending, what was queued when it
\* stops, and what the record counts already.
LEMMA FlushingFrom ==
    ASSUME Types, NEW p \in Procs, Input(p) \/ Worker(p) \/ Crash(p)
    PROVE  \/ flushing'[p] \subseteq flushing[p]
           \/ flushing'[p] \subseteq flushing[p] \cup gapJson.counts
           \/ /\ TakeGap(p) /\ pending'[p] = {} /\ UNCHANGED stored
              /\ \/ flushing'[p] = pending[p]
                 \/ flushing'[p] = pending[p] \cup QueuedIds(p) /\ queue'[p] = <<>>
<1>1. CASE TakeGap(p)
  BY <1>1, TakeGapDoes
<1>2. CASE UpdateLock(p)
  BY <1>2, UpdateLockDoes
<1>3. CASE EndGap(p) \/ Crash(p)
  BY <1>3, EndGapDoes, CrashDoes
<1> QED BY <1>1, <1>2, <1>3, Frames

\* An item is in one place only: the process that moves.
LEMMA BooksSelf ==
    ASSUME Types, NEW p \in Procs, WorkerInv(p), OrderInv(p), BooksInv(p), CountsInv,
           Input(p) \/ Worker(p) \/ Crash(p)
    PROVE  BooksInv(p)'
<1>0. /\ flushing[p] \subseteq Lossy /\ pending[p] \subseteq Lossy /\ gapJson.counts \subseteq Lossy
      /\ QueuedIds(p) \subseteq Lossy
  BY QueueTyped DEF Types, InputTypes, DiskTypes
<1>1. ASSUME NEW x \in pending'[p] PROVE x[1] = p /\ Unstored(x)'
  <2>1. CASE x \in pending[p]
    BY <2>1, <1>0, UnstoredStays DEF BooksInv
  <2>2. CASE Submits(p) /\ x = <<p, submitted[p] + 1>> /\ QueuedIds(p)' = QueuedIds(p)
    <3>1. submitted'[p] = submitted[p] + 1 /\ submitted[p] \in Nat /\ UNCHANGED stored
      BY <2>2, Submitted, IdsMove
    <3>2. x[1] = p /\ x[2] = submitted[p] + 1
      BY <2>2
    <3>3. x \notin StoredSet'
      <4> SUFFICES ASSUME NEW k \in DOMAIN stored, stored[k] = x PROVE FALSE
        BY <3>1 DEF StoredSet
      <4> QED BY <3>1, <3>2 DEF OrderInv
    <3>4. x \notin QueuedIds(p)
      <4> SUFFICES ASSUME NEW i \in DOMAIN queue[p], <<p, queue[p][i].id>> = x PROVE FALSE
        BY DEF QueuedIds
      <4> QED BY <3>1, <3>2 DEF OrderInv
    <3> QED BY <2>2, <3>1, <3>2, <3>3, <3>4 DEF Unstored
  <2>3. CASE /\ PersistFails(p) /\ x = <<p, Head(queue[p]).id>>
             /\ x \in Lossy /\ x[2] \in 1 .. submitted[p] /\ x \notin StoredSet /\ x \notin QueuedIds(p)'
    <3>1. UNCHANGED <<submitted, stored>> /\ x[1] = p
      BY <2>3, PersistFailsDoes
    <3>2. StoredSet' = StoredSet
      BY <3>1 DEF StoredSet
    <3> QED BY <2>3, <3>1, <3>2 DEF Unstored
  <2> QED BY <2>1, <2>2, <2>3, IdsMove
<1>2. ASSUME NEW x \in flushing'[p] PROVE Dropped(x)'
  <2>1. CASE x \in flushing[p] \/ x \in gapJson.counts
    BY <2>1, <1>0, DroppedStays DEF BooksInv, CountsInv
  <2>2. CASE TakeGap(p) /\ pending'[p] = {} /\ x \in pending[p]
    <3>1. x[1] = p /\ Unstored(x)'
      BY <2>2, <1>0, UnstoredStays DEF BooksInv
    <3> QED BY <2>2, <3>1 DEF Dropped
  <2>3. CASE /\ TakeGap(p) /\ pending'[p] = {} /\ UNCHANGED stored
             /\ x \in QueuedIds(p) /\ queue'[p] = <<>>
    <3>1. UNCHANGED submitted
      BY <2>3, TakeGapDoes
    <3>2. PICK i \in DOMAIN queue[p] : x = <<p, queue[p][i].id>>
      BY <2>3 DEF QueuedIds
    <3>3. x[1] = p /\ x[2] = queue[p][i].id /\ x[2] \in 1 .. submitted[p]
      BY <3>2 DEF OrderInv
    <3>4. x \notin StoredSet'
      <4> SUFFICES ASSUME NEW k \in DOMAIN stored, stored[k] = x PROVE FALSE
        BY <2>3 DEF StoredSet
      <4> QED BY <3>3 DEF OrderInv
    <3>5. x \notin QueuedIds(p)'
      BY <2>3 DEF QueuedIds
    <3> QED BY <2>3, <3>1, <3>3, <3>4, <3>5 DEF Dropped, Unstored
  <2> QED BY <2>1, <2>2, <2>3, FlushingFrom
<1> QED BY <1>1, <1>2 DEF BooksInv

\* An item is in one place only: the other processes.
LEMMA BooksOthers ==
    ASSUME Types, NEW p \in Procs, WorkerInv(p), OrderInv(p), NEW q \in Procs, q # p, BooksInv(q),
           Input(p) \/ Worker(p) \/ Crash(p)
    PROVE  BooksInv(q)'
<1>1. UNCHANGED <<flushing[q], pending[q]>>
  BY Elsewhere
<1>2. flushing[q] \subseteq Lossy /\ pending[q] \subseteq Lossy
  BY DEF Types, InputTypes
<1>3. \A x \in flushing[q] : Dropped(x)'
  BY <1>2, DroppedStays DEF BooksInv
<1>4. \A x \in pending[q] : x[1] = q /\ Unstored(x)'
  BY <1>2, UnstoredStays DEF BooksInv
<1> QED BY <1>1, <1>3, <1>4 DEF BooksInv

\* What the record counts: what it counted, and what the worker wrote.
LEMMA CountsFrom ==
    ASSUME Types, NEW p \in Procs,
           Input(p) \/ Worker(p) \/ Crash(p)
    PROVE  gapJson'.counts \subseteq gapJson.counts \cup flushing[p]
<1>1. CASE EnsureWriteJson(p)
  BY <1>1, EnsureWriteJsonDoes DEF NoGap
<1>2. CASE UpdateJson(p)
  BY <1>2, UpdateJsonDoes DEF UpdatedGap
<1>3. CASE PublishJson(p)
  BY <1>3, PublishJsonDoes DEF UpdatedGap
<1>4. CASE MarkJson(p)
  BY <1>4, MarkJsonDoes
<1>5. CASE UNCHANGED gapJson
  BY <1>5
<1> QED BY <1>1, <1>2, <1>3, <1>4, <1>5, Frames

\* The record counts dropped items only.
LEMMA CountsStep ==
    ASSUME Types, NEW p \in Procs, WorkerInv(p), OrderInv(p), BooksInv(p), CountsInv,
           Input(p) \/ Worker(p) \/ Crash(p)
    PROVE  CountsInv'
<1>1. flushing[p] \subseteq Lossy /\ gapJson.counts \subseteq Lossy
  BY DEF Types, InputTypes, DiskTypes
<1>2. ASSUME NEW x \in gapJson'.counts PROVE Dropped(x)'
  <2>1. x \in gapJson.counts \/ x \in flushing[p]
    BY <1>2, CountsFrom
  <2>2. x \in Lossy /\ Dropped(x)
    BY <2>1, <1>1 DEF BooksInv, CountsInv
  <2> QED BY <2>2, DroppedStays
<1> QED BY <1>2 DEF CountsInv

\* What came after the worker stopped is pending, and nothing else.
LEMMA LateSelf ==
    ASSUME Types, NEW p \in Procs, WorkerInv(p), OrderInv(p), BooksInv(p), LateInv(p),
           Input(p) \/ Worker(p) \/ Crash(p)
    PROVE  LateInv(p)'
<1>1. CASE Start(p)
  BY <1>1, StartDoes DEF LateInv, WorkerInv, Alive
<1>2. CASE Submits(p)
  <2>1. PICK r \in Ids \cup {NoBatch} : Submit(p, r)
    BY <1>2 DEF Submits
  <2> DEFINE n == submitted[p]
             o == outcome[p]
  <2>2. PICK v : /\ outcome'[p] = Append(o, v) /\ (v = "late" => life[p] = "stopped")
                 /\ \/ UNCHANGED pending /\ life[p] = "up"
                    \/ /\ pending'[p] = pending[p] \cup {<<p, n + 1>>}
                       /\ life[p] = "stopped" => v = "late"
                 /\ submitted'[p] = n + 1 /\ UNCHANGED life
                 /\ Alive(p) \/ life[p] = "stopped"
                 /\ v = "late" => pending'[p] = pending[p] \cup {<<p, n + 1>>}
    <3> DEFINE v == IF life[p] = "up" /\ outcome'[p] = Append(o, "buffered") /\ UNCHANGED pending THEN "buffered"
                    ELSE IF life[p] = "stopped" THEN "late" ELSE "gap"
    <3> WITNESS v
    <3> QED BY <2>1, SubmitDoes
  <2>3. o \in Seq(Outcomes) /\ Len(o) = n
    BY DEF Types, InputTypes, LateInv
  <2>4. n \in Nat
    BY <2>3
  <2>5. /\ Len(outcome'[p]) = n + 1 /\ outcome'[p][n + 1] = v
        /\ \A i \in 1 .. n : outcome'[p][i] = o[i]
    BY <2>2, <2>3
  <2>6. \A i \in 1 .. n + 1 : i \in 1 .. n \/ i = n + 1
    BY <2>4
  <2>7. ASSUME NEW i \in 1 .. n + 1, outcome'[p][i] = "late"
        PROVE  life'[p] = "stopped" /\ <<p, i>> \in pending'[p]
    <3>1. CASE i \in 1 .. n
      BY <3>1, <2>2, <2>5, <2>7 DEF LateInv
    <3>2. CASE i = n + 1
      BY <3>2, <2>2, <2>5, <2>7
    <3> QED BY <3>1, <3>2, <2>6
  <2>8. ASSUME life'[p] = "stopped", NEW x \in pending'[p] PROVE outcome'[p][x[2]] = "late"
    <3>1. CASE x \in pending[p]
      <4>1. x[2] \in 1 .. n
        BY <3>1 DEF BooksInv, Unstored
      <4> QED BY <3>1, <4>1, <2>2, <2>5, <2>8 DEF LateInv
    <3>2. CASE x = <<p, n + 1>>
      BY <3>2, <2>2, <2>5, <2>8
    <3> QED BY <3>1, <3>2, <2>2, <2>8
  <2>9. life'[p] # "new"
    BY <2>2 DEF Alive
  <2> QED BY <2>2, <2>5, <2>7, <2>8, <2>9 DEF LateInv
<1>3. CASE Shutdown(p)
  BY <1>3, ShutdownDoes DEF LateInv, WorkerInv, Alive
<1>4. CASE TakeGap(p)
  BY <1>4, TakeGapDoes DEF LateInv, WorkerInv, Alive
<1>5. CASE StopWorker(p)
  BY <1>5, StopWorkerDoes DEF LateInv, WorkerInv, Alive
<1>6. CASE PersistFails(p)
  BY <1>6, PersistFailsDoes DEF LateInv, WorkerInv, Alive
<1>7. CASE Crash(p)
  BY <1>7, CrashDoes DEF LateInv, WorkerInv, Alive
<1>8. CASE UNCHANGED <<life, submitted, outcome, pending>>
  BY <1>8 DEF LateInv
<1> QED BY <1>1, <1>2, <1>3, <1>4, <1>5, <1>6, <1>7, <1>8, Frames

\* The same of another process.
LEMMA LateOthers ==
    ASSUME Types, NEW p \in Procs, NEW q \in Procs, q # p, LateInv(q),
           Input(p) \/ Worker(p) \/ Crash(p)
    PROVE  LateInv(q)'
<1>1. UNCHANGED <<life[q], submitted[q], outcome[q], pending[q]>>
  BY Elsewhere
<1> QED BY <1>1 DEF LateInv


\* A bad marker is replaced only when the record tells of the gap.
LEMMA MarkerStays ==
    ASSUME Types, NEW p \in Procs, WorkerInv(p), MarkerInv(p), RecordInv(p), NoCountsYet,
           Input(p) \/ Worker(p) \/ Crash(p)
    PROVE  BadMarker(p) => BadMarker(p)' \/ Recorded
<1>1. CASE CreateMarker(p)
  BY <1>1, CreateMarkerDoes DEF BadMarker, MarkerInv, RecordInv, WorkerInv, Alive
<1>2. CASE StopWorker(p)
  BY <1>2, StopWorkerDoes DEF BadMarker, MarkerInv, RecordInv, WorkerInv, Alive
<1>3. CASE BeginGap(p)
  BY <1>3, BeginGapDoes DEF BadMarker, MarkerInv, RecordInv, WorkerInv, Alive
<1>4. CASE EndGap(p)
  BY <1>4, EndGapDoes DEF BadMarker, MarkerInv, RecordInv, WorkerInv, Alive
<1>5. CASE Crash(p)
  BY <1>5, CrashDoes DEF BadMarker, MarkerInv, RecordInv, WorkerInv, Alive
<1>6. CASE UNCHANGED marker
  BY <1>6 DEF BadMarker
<1> QED BY <1>1, <1>2, <1>3, <1>4, <1>5, <1>6, Frames

\* What is evident stays evident.
LEMMA EvidentStays ==
    ASSUME Types, NEW p \in Procs, WorkerInv(p), MarkerInv(p), RecordInv(p), NoCountsYet,
           Input(p) \/ Worker(p) \/ Crash(p), NEW q \in Procs, Evident(q)
    PROVE  Evident(q)'
<1>1. (Recorded => Recorded') /\ (orphans => orphans')
  BY RecordGrows, OrphansStay
<1>2. CASE q = p
  BY <1>1, <1>2, MarkerStays DEF Evident
<1>3. CASE q # p
  <2>1. UNCHANGED marker[q]
    BY <1>3, Elsewhere
  <2> QED BY <1>1, <2>1 DEF Evident, BadMarker
<1> QED BY <1>2, <1>3

\* The faults are counted, and none is taken back.
LEMMA FaultsCounted ==
    ASSUME Types, NEW p \in Procs, Input(p) \/ Worker(p) \/ Crash(p)
    PROVE  /\ ioFaults \in Nat /\ ioFaults <= MaxIoFaults /\ MaxIoFaults \in Nat
           /\ ioFaults' \in Nat /\ ioFaults' >= ioFaults
<1>1. ioFaults \in Nat /\ ioFaults <= MaxIoFaults /\ MaxIoFaults \in Nat
  BY RecorderAssumption DEF Types, BoundTypes
<1> QED BY <1>1, Faults

\* A gap that is not evident has cost faults: the process that moves.
LEMMA CostSelf ==
    ASSUME Types, NEW p \in Procs, WorkerInv(p), MarkerInv(p), RecordInv(p), NoCountsYet, CostInv(p),
           Input(p) \/ Worker(p) \/ Crash(p)
    PROVE  CostInv(p)'
<1>1. CASE Start(p)
  BY <1>1, StartDoes, EvidentStays, FaultsCounted DEF CostInv, Cost, WorkerInv, Alive, Preparing
<1>2. CASE Submits(p)
  BY <1>2, Submitted, EvidentStays, FaultsCounted DEF CostInv, Cost, WorkerInv, Alive, Preparing
<1>3. CASE Shutdown(p)
  BY <1>3, ShutdownDoes, EvidentStays, FaultsCounted
    DEF CostInv, Cost, WorkerInv, Alive, Preparing
<1>4. CASE CreateMarker(p)
  BY <1>4, CreateMarkerDoes, EvidentStays, FaultsCounted
    DEF CostInv, Cost, WorkerInv, Alive, Preparing, AfterMarker, Work
<1>5. CASE EnsureGapState(p)
  BY <1>5, EnsureGapStateDoes, EvidentStays, FaultsCounted
    DEF CostInv, Cost, WorkerInv, Alive, Preparing, Work
<1>6. CASE EnsureWriteJson(p)
  BY <1>6, EnsureWriteJsonDoes, EvidentStays, FaultsCounted
    DEF CostInv, Cost, WorkerInv, Alive, Preparing, Work
<1>7. CASE TakeGap(p)
  BY <1>7, TakeGapDoes, EvidentStays, FaultsCounted
    DEF CostInv, Cost, WorkerInv, Alive, Preparing, BeginWork
<1>8. CASE TakeItem(p)
  BY <1>8, TakeItemDoes, EvidentStays, FaultsCounted
    DEF CostInv, Cost, WorkerInv, Alive, Preparing, BeginWork
<1>9. CASE StopWorker(p)
  BY <1>9, StopWorkerDoes, EvidentStays, FaultsCounted
    DEF CostInv, Cost, WorkerInv, Alive, Preparing
<1>10. CASE BeginGap(p)
  BY <1>10, BeginGapDoes, EvidentStays, FaultsCounted
    DEF CostInv, Cost, WorkerInv, Alive, Preparing, Evident, BadMarker
<1>11. CASE CreateGapIntent(p)
  <2>1. /\ workerAt[p] = "intent" /\ UNCHANGED <<life, started, ready>>
        /\ \/ workerAt'[p] = "update_lock" /\ ioFaults' = ioFaults
           \/ workerAt'[p] = "mark_lock" /\ ioFaults' = ioFaults + 1
    BY <1>11, CreateGapIntentDoes
  <2>2. Cost(p, 1) /\ (Alive(p) /\ ~ ready[p] => started[p] /\ ioFaults >= 2)
    BY <2>1 DEF CostInv, WorkerInv, Preparing
  <2>3. workerAt'[p] = "mark_lock" => Cost(p, 2)'
    BY <2>1, <2>2, EvidentStays, FaultsCounted DEF Cost
  <2>4. Alive(p) /\ ~ ready[p] => ioFaults' >= 2
    BY <2>2, FaultsCounted
  <2> QED BY <2>1, <2>3, <2>4, FaultsCounted DEF CostInv, Alive
<1>12. CASE UpdateLock(p)
  BY <1>12, UpdateLockDoes, EvidentStays, FaultsCounted
    DEF CostInv, Cost, WorkerInv, Alive, Preparing, MarkerInv
<1>13. CASE UpdateJson(p)
  BY <1>13, UpdateJsonDoes, EvidentStays, FaultsCounted
    DEF CostInv, Cost, WorkerInv, Alive, Preparing, MarkerInv
<1>14. CASE PublishJson(p)
  BY <1>14, PublishJsonDoes, EvidentStays, FaultsCounted
    DEF CostInv, Cost, WorkerInv, Alive, Preparing, MarkerInv
<1>15. CASE PublishLock(p)
  BY <1>15, PublishLockDoes, EvidentStays, FaultsCounted
    DEF CostInv, Cost, WorkerInv, Alive, Preparing, MarkerInv
<1>16. CASE MarkLock(p)
  BY <1>16, MarkLockDoes, EvidentStays, FaultsCounted
    DEF CostInv, Cost, WorkerInv, Alive, Preparing
<1>17. CASE MarkJson(p)
  BY <1>17, MarkJsonDoes, EvidentStays, FaultsCounted
    DEF CostInv, Cost, WorkerInv, Alive, Preparing, Evident, Recorded
<1>18. CASE RemoveGapIntent(p)
  BY <1>18, RemoveGapIntentDoes, EvidentStays, FaultsCounted
    DEF CostInv, Cost, WorkerInv, Alive, Preparing, Evident, RecordInv
<1>19. CASE EndGap(p)
  BY <1>19, EndGapDoes, EvidentStays, FaultsCounted
    DEF CostInv, Cost, WorkerInv, Alive, Preparing
<1>20. CASE PersistLocked(p)
  BY <1>20, PersistLockedDoes, EvidentStays, FaultsCounted
    DEF CostInv, Cost, WorkerInv, Alive, Preparing
<1>21. CASE Persist(p)
  BY <1>21, PersistDoes, EvidentStays, FaultsCounted
    DEF CostInv, Cost, WorkerInv, Alive, Preparing
<1>22. CASE PersistFails(p)
  BY <1>22, PersistFailsDoes, EvidentStays, FaultsCounted
    DEF CostInv, Cost, WorkerInv, Alive, Preparing
<1>23. CASE Crash(p)
  BY <1>23, CrashDoes, EvidentStays, FaultsCounted DEF CostInv, Cost, WorkerInv, Alive, Preparing
<1> QED BY <1>1, <1>2, <1>3, <1>4, <1>5, <1>6, <1>7, <1>8, <1>9, <1>10, <1>11, <1>12, <1>13, <1>14,
      <1>15, <1>16, <1>17, <1>18, <1>19, <1>20, <1>21, <1>22, <1>23, Inputs DEF Worker

\* A gap that is not evident has cost faults: the other processes.
LEMMA CostOthers ==
    ASSUME Types, NEW p \in Procs, WorkerInv(p), MarkerInv(p), RecordInv(p), NoCountsYet,
           NEW q \in Procs, q # p, CostInv(q),
           Input(p) \/ Worker(p) \/ Crash(p)
    PROVE  CostInv(q)'
<1>1. UNCHANGED <<life[q], workerAt[q], started[q], ready[q]>>
  BY Elsewhere
<1>2. /\ Evident(q) => Evident(q)'
      /\ q \in intents' <=> q \in intents
      /\ ioFaults \in Nat /\ ioFaults' \in Nat /\ ioFaults' >= ioFaults
  BY EvidentStays, OwnIntent, FaultsCounted
<1>3. \A n \in Nat : Cost(q, n) => Cost(q, n)'
  BY <1>1, <1>2 DEF Cost
<1>4. (Cost(q, 1) => Cost(q, 1)') /\ (Cost(q, 2) => Cost(q, 2)') /\ (Cost(q, 3) => Cost(q, 3)')
  BY <1>3
<1>5. ioFaults >= 1 => ioFaults' >= 1
  BY <1>2
<1>6. ioFaults >= 2 => ioFaults' >= 2
  BY <1>2
<1> QED BY <1>1, <1>2, <1>4, <1>5, <1>6 DEF CostInv, Alive

\* What becomes of an item that is stored or held.
LEMMA HeldStep ==
    ASSUME Types, NEW p \in Procs, WorkerInv(p), OrderInv(p),
           Input(p) \/ Worker(p) \/ Crash(p), NEW i \in 1 .. submitted'[p],
           <<p, i>> \in Held(p) \/ i \notin 1 .. submitted[p]
    PROVE  <<p, i>> \in Held(p)' \/ EndGap(p) \/ Crash(p)
<1>1. /\ submitted[p] \in Nat /\ StoredSet \subseteq StoredSet'
      /\ submitted'[p] = submitted[p] \/ submitted'[p] = submitted[p] + 1
  BY IdsMove
<1>2. CASE Submits(p)
  <2>1. /\ submitted'[p] = submitted[p] + 1 /\ UNCHANGED flushing
        /\ \/ QueuedIds(p)' = QueuedIds(p) \cup {<<p, submitted[p] + 1>>} /\ UNCHANGED pending
           \/ /\ QueuedIds(p)' = QueuedIds(p)
              /\ pending'[p] = pending[p] \cup {<<p, submitted[p] + 1>>}
    BY <1>2, Submitted, SubmittedIds
  <2>2. i \in 1 .. submitted[p] \/ i = submitted[p] + 1
    BY <1>1, <2>1
  <2>3. CASE <<p, i>> \in Held(p)
    BY <1>1, <2>1, <2>3 DEF Held
  <2>4. CASE i = submitted[p] + 1
    BY <2>1, <2>4 DEF Held
  <2> QED BY <2>2, <2>3, <2>4
<1>3. CASE TakeGap(p)
  <2>1. /\ UNCHANGED submitted /\ pending[p] \subseteq flushing'[p] /\ flushing[p] = {}
        /\ QueuedIds(p)' = QueuedIds(p) \/ QueuedIds(p) \subseteq flushing'[p]
    BY <1>3, TakeGapDoes DEF QueuedIds, WorkerInv
  <2> QED BY <1>1, <2>1 DEF Held
<1>4. CASE Persist(p) \/ PersistFails(p)
  <2> DEFINE h == <<p, Head(queue[p]).id>>
  <2>1. /\ QueuedIds(p)' = QueuedIds(p) \ {h} /\ UNCHANGED <<submitted, flushing>>
        /\ \/ StoredSet' = StoredSet \cup {h} /\ UNCHANGED pending
           \/ pending'[p] = pending[p] \cup {h}
    BY <1>4, FrontLeaves, PersistDoes, PersistFailsDoes
  <2> HIDE DEF h
  <2> QED BY <1>1, <2>1 DEF Held
<1>5. CASE UpdateLock(p)
  <2>1. flushing[p] \subseteq flushing'[p] /\ UNCHANGED <<submitted, pending, queue>>
    BY <1>5, UpdateLockDoes
  <2> QED BY <1>1, <2>1 DEF Held, QueuedIds
<1>6. CASE UNCHANGED <<submitted, pending, queue, flushing>>
  BY <1>1, <1>6 DEF Held, QueuedIds
<1> QED BY <1>2, <1>3, <1>4, <1>5, <1>6, Frames

\* The flush of a gap ends with evidence of it, whatever failed.
LEMMA EndEvident ==
    ASSUME MaxIoFaults <= 3, Types, NEW p \in Procs, WorkerInv(p), MarkerInv(p), RecordInv(p), NoCountsYet,
           CostInv(p), EndGap(p)
    PROVE  Evident(p)'
<1>1. Worker(p)
  BY DEF Worker
<1>2. CASE workerAt[p] = "end_clean"
  <2>1. Evident(p)
    BY <1>2 DEF RecordInv, Evident
  <2> QED BY <2>1, <1>1, EvidentStays
<1>3. CASE p \in intents
  BY <1>3, EndGapDoes DEF Evident
<1>4. CASE Evident(p)
  BY <1>4, <1>1, EvidentStays
<1>5. CASE workerAt[p] = "end_unknown" /\ p \notin intents /\ ~ Evident(p)
  <2>1. ioFaults >= (IF ready[p] THEN 3 ELSE 4)
    BY <1>5 DEF CostInv, Cost
  <2>2. ready[p] /\ ~ (ioFaults < MaxIoFaults)
    BY <2>1, <1>1, FaultsCounted
  <2>3. marker'[p] = "unknown"
    BY <1>5, <2>2, EndGapDoes
  <2> QED BY <2>3 DEF Evident, BadMarker
<1> QED BY <1>2, <1>3, <1>4, <1>5, EndGapDoes

\* Nothing is lost without evidence: the process that moves.
LEMMA AccountSelf ==
    ASSUME MaxIoFaults <= 3, Types, NEW p \in Procs, WorkerInv(p), MarkerInv(p), RecordInv(p), NoCountsYet,
           OrderInv(p), CostInv(p), AccountInv(p),
           Input(p) \/ Worker(p) \/ Crash(p)
    PROVE  AccountInv(p)'
<1> SUFFICES ASSUME life'[p] # "crashed", NEW i \in 1 .. submitted'[p]
             PROVE  <<p, i>> \in Held(p)' \/ Evident(p)'
  BY DEF AccountInv
<1>1. ~ Crash(p)
  BY CrashDoes
<1>2. EndGap(p) => Evident(p)'
  BY EndEvident
<1>3. life[p] # "crashed"
  <2>1. life[p] = "crashed" => ~ Alive(p) /\ workerAt[p] = "off"
    BY DEF WorkerInv, Alive
  <2>2. life[p] = "crashed" => UNCHANGED life
    BY <2>1, Frames, StartDoes, ShutdownDoes, StopWorkerDoes, CrashDoes
  <2> QED BY <2>2
<1>4. CASE i \in 1 .. submitted[p] /\ <<p, i>> \notin Held(p)
  BY <1>3, <1>4, EvidentStays DEF AccountInv
<1>5. CASE <<p, i>> \in Held(p) \/ i \notin 1 .. submitted[p]
  BY <1>1, <1>2, <1>5, HeldStep
<1> QED BY <1>4, <1>5

\* Nothing is lost without evidence: the other processes.
LEMMA AccountOthers ==
    ASSUME Types, NEW p \in Procs, WorkerInv(p), MarkerInv(p), RecordInv(p), NoCountsYet, OrderInv(p),
           NEW q \in Procs, q # p, AccountInv(q),
           Input(p) \/ Worker(p) \/ Crash(p)
    PROVE  AccountInv(q)'
<1>1. UNCHANGED <<life[q], submitted[q], queue[q], pending[q], flushing[q]>>
  BY Elsewhere
<1>2. StoredSet \subseteq StoredSet' /\ (Evident(q) => Evident(q)')
  BY IdsMove, EvidentStays
<1>3. Held(q) \subseteq Held(q)'
  BY <1>1, <1>2 DEF Held, QueuedIds
<1> QED BY <1>1, <1>2, <1>3 DEF AccountInv


\* The record is never removed.
LEMMA RecordMade ==
    ASSUME Types, NEW p \in Procs,
           Input(p) \/ Worker(p) \/ Crash(p)
    PROVE  gapJson.state # "missing" => gapJson'.state # "missing"
<1>1. CASE EnsureWriteJson(p)
  BY <1>1, EnsureWriteJsonDoes DEF NoGap
<1>2. CASE UpdateJson(p)
  BY <1>2, UpdateJsonDoes DEF UpdatedGap
<1>3. CASE PublishJson(p)
  BY <1>3, PublishJsonDoes DEF UpdatedGap
<1>4. CASE MarkJson(p)
  BY <1>4, MarkJsonDoes
<1>5. CASE UNCHANGED gapJson
  BY <1>5
<1> QED BY <1>1, <1>2, <1>3, <1>4, <1>5, Frames

\* A step that keeps the behaviour faultless is one that succeeds.
LEMMA NoFault ==
    ASSUME Types, NEW p \in Procs, Input(p) \/ Worker(p) \/ Crash(p), Faultless'
    PROVE  Faultless /\ ioFaults' = ioFaults /\ ioFaults \in Nat /\ ~ Crash(p)
<1>1. ioFaults \in Nat /\ processCrashes \in Nat
  BY RecorderAssumption DEF Types, BoundTypes
<1>2. ioFaults' = ioFaults /\ processCrashes' = processCrashes
  BY <1>1, Faults DEF Faultless
<1>3. ~ Crash(p)
  BY <1>1, <1>2, CrashDoes
<1> QED BY <1>1, <1>2, <1>3 DEF Faultless

\* Every process, as far as its worker, its marker and the record go.
Control == NoCountsYet /\ \A q \in Procs : WorkerInv(q) /\ MarkerInv(q) /\ RecordInv(q)

\* An intent says that there is a record.
LEMMA IntentRecord ==
    ASSUME Types, Control, AtRestInv, \A q \in Procs : FaultlessInv(q), Faultless, IntentOnDisk
    PROVE  gapJson.state # "missing"
<1>1. PICK q \in Procs : q \in intents
  BY DEF IntentOnDisk, AtRestInv, Types, DiskTypes
<1>2. workerAt[q] \in Announced
  BY <1>1 DEF Control, MarkerInv
<1>3. started[q]
  BY <1>2 DEF Control, WorkerInv, Preparing, Announced, Flushing
<1> QED BY <1>3 DEF FaultlessInv

\* What the worker finds when it checks the record.
LEMMA EnsureFaultless ==
    ASSUME Types, Control, AtRestInv, \A q \in Procs : FaultlessInv(q), Faultless,
           NEW p \in Procs, EnsureGapState(p), ioFaults' = ioFaults
    PROVE  \/ /\ started'[p] /\ workerAt'[p] = Work(p) /\ holder' = holder
              /\ gapJson.state # "missing" /\ gapLock' = gapLock
           \/ /\ gapJson.state = "missing" /\ gapLock' = "safe"
              /\ holder' = p /\ workerAt'[p] = "ensure_json" /\ UNCHANGED <<started, gapReady>>
<1>1. ioFaults \in Nat
  BY RecorderAssumption DEF Types, BoundTypes
<1>2. holder = NoProc /\ gapLock \in LockStates
  BY EnsureGapStateDoes DEF LockFree, Types, DiskTypes
<1>3. \/ gapJson.state = "missing" /\ gapLock = "missing"
      \/ gapJson.state = "none" /\ gapLock = "safe"
      \/ gapJson.state = "present" /\ gapLock = "present"
  BY <1>2 DEF AtRestInv
<1>4. IntentOnDisk => gapJson.state # "missing"
  BY IntentRecord
<1>5. gapJson.state # "missing" => Opened = gapLock /\ Opened # "empty"
  BY <1>3 DEF Opened
<1>6. gapJson.state = "missing" => Opened = "empty"
  BY <1>3 DEF Opened
<1>7. \/ /\ started'[p] /\ workerAt'[p] = Work(p) /\ holder' = holder
         /\ \/ IntentOnDisk /\ gapLock' = Opened
            \/ gapJson.state = "present" /\ Opened = "empty"
            \/ gapLock' = Opened /\ ~ (gapJson.state = "missing" /\ Opened = "empty")
      \/ /\ gapJson.state = "missing" /\ gapLock' = "safe"
         /\ holder' = p /\ workerAt'[p] = "ensure_json" /\ UNCHANGED <<started, gapReady>>
  <2>1. ioFaults' # ioFaults + 1
    BY <1>1
  <2> QED BY <2>1, EnsureGapStateDoes
<1> QED BY <1>4, <1>5, <1>6, <1>7

\* Without faults every step succeeds: the process that moves.
LEMMA FaultlessSelf ==
    ASSUME Types, Control, AtRestInv, \A q \in Procs : FaultlessInv(q),
           NEW p \in Procs,
           Input(p) \/ Worker(p) \/ Crash(p)
    PROVE  FaultlessInv(p)'
<1> SUFFICES ASSUME Faultless' PROVE FaultlessInv(p)'
  BY DEF FaultlessInv
<1>a. /\ Faultless /\ ioFaults' = ioFaults /\ ioFaults \in Nat /\ ioFaults' # ioFaults + 1
      /\ FaultlessInv(p) /\ WorkerInv(p) /\ MarkerInv(p) /\ RecordInv(p)
  BY NoFault DEF Control
<1>b. ~ Crash(p)
  BY NoFault
<1>1. CASE Start(p)
  BY <1>1, <1>a, StartDoes DEF FaultlessInv, WorkerInv, MarkerInv, Alive
<1>2. CASE Submits(p)
  BY <1>2, <1>a, Submitted DEF FaultlessInv, WorkerInv, MarkerInv, Alive
<1>3. CASE Shutdown(p)
  BY <1>3, <1>a, ShutdownDoes DEF FaultlessInv, WorkerInv, MarkerInv, Alive
<1>4. CASE CreateMarker(p)
  BY <1>4, <1>a, CreateMarkerDoes
    DEF FaultlessInv, WorkerInv, MarkerInv, Alive, AfterMarker, Work
<1>5. CASE EnsureGapState(p)
  BY <1>5, <1>a, EnsureFaultless, EnsureGapStateDoes
    DEF FaultlessInv, WorkerInv, MarkerInv, Alive, Work
<1>6. CASE EnsureWriteJson(p)
  BY <1>6, <1>a, EnsureWriteJsonDoes DEF FaultlessInv, WorkerInv, MarkerInv, Alive, Work, NoGap
<1>7. CASE TakeGap(p)
  BY <1>7, <1>a, TakeGapDoes DEF FaultlessInv, WorkerInv, MarkerInv, Alive, BeginWork
<1>8. CASE TakeItem(p)
  BY <1>8, <1>a, TakeItemDoes DEF FaultlessInv, WorkerInv, MarkerInv, Alive, BeginWork
<1>9. CASE StopWorker(p)
  BY <1>9, <1>a, StopWorkerDoes DEF FaultlessInv, WorkerInv, MarkerInv, Alive, Preparing
<1>10. CASE BeginGap(p)
  BY <1>10, <1>a, BeginGapDoes DEF FaultlessInv, WorkerInv, MarkerInv, Alive
<1>11. CASE CreateGapIntent(p)
  BY <1>11, <1>a, CreateGapIntentDoes DEF FaultlessInv, WorkerInv, MarkerInv, Alive
<1>12. CASE UpdateLock(p)
  BY <1>12, <1>a, UpdateLockDoes
    DEF FaultlessInv, WorkerInv, MarkerInv, Alive, AtRestInv, LockFree, Preparing
<1>13. CASE UpdateJson(p)
  BY <1>13, <1>a, UpdateJsonDoes DEF FaultlessInv, WorkerInv, MarkerInv, Alive, UpdatedGap
<1>14. CASE PublishJson(p)
  BY <1>14, <1>a, PublishJsonDoes DEF FaultlessInv, WorkerInv, MarkerInv, Alive, UpdatedGap
<1>15. CASE PublishLock(p)
  BY <1>15, <1>a, PublishLockDoes DEF FaultlessInv, WorkerInv, MarkerInv, Alive
<1>16. CASE MarkLock(p)
  BY <1>16, <1>a, MarkLockDoes DEF FaultlessInv, WorkerInv, MarkerInv, Alive
<1>17. CASE MarkJson(p)
  BY <1>17, <1>a, MarkJsonDoes DEF FaultlessInv, WorkerInv, MarkerInv, Alive
<1>18. CASE RemoveGapIntent(p)
  BY <1>18, <1>a, RemoveGapIntentDoes DEF FaultlessInv, WorkerInv, MarkerInv, Alive
<1>19. CASE EndGap(p)
  BY <1>19, <1>a, EndGapDoes DEF FaultlessInv, WorkerInv, MarkerInv, Alive
<1>20. CASE PersistLocked(p)
  BY <1>20, <1>a, PersistLockedDoes DEF FaultlessInv, WorkerInv, MarkerInv, Alive
<1>21. CASE Persist(p)
  BY <1>21, <1>a, PersistDoes DEF FaultlessInv, WorkerInv, MarkerInv, Alive
<1>22. CASE PersistFails(p)
  BY <1>22, <1>a, PersistFailsDoes DEF FaultlessInv, WorkerInv, MarkerInv, Alive
<1> QED BY <1>1, <1>2, <1>3, <1>4, <1>5, <1>6, <1>7, <1>8, <1>9, <1>10, <1>11, <1>12, <1>13, <1>14,
      <1>15, <1>16, <1>17, <1>18, <1>19, <1>20, <1>21, <1>22, <1>b, Inputs
    DEF Worker

\* Without faults every step succeeds: the other processes.
LEMMA FaultlessOthers ==
    ASSUME Types, Control, NEW p \in Procs, NEW q \in Procs, q # p, FaultlessInv(q),
           Input(p) \/ Worker(p) \/ Crash(p)
    PROVE  FaultlessInv(q)'
<1> SUFFICES ASSUME Faultless' PROVE FaultlessInv(q)'
  BY DEF FaultlessInv
<1>1. Faultless
  BY NoFault
<1>2. UNCHANGED <<life[q], workerAt[q], started[q], ready[q], clean[q], marker[q], flushing[q]>>
  BY Elsewhere
<1>3. WorkerInv(p) /\ MarkerInv(p) /\ RecordInv(p) /\ NoCountsYet /\ RecordInv(q)
  BY DEF Control
<1>4. gapJson.counts \subseteq gapJson'.counts /\ (gapJson.state # "missing" => gapJson'.state # "missing")
  BY <1>3, RecordGrows, RecordMade
<1>5. holder = q => UNCHANGED <<gapJson, gapLock>>
  BY <1>3, OneWriter, RecorderAssumption
<1>6. workerAt[q] \in {"ensure_json", "update_json", "publish_lock"} => UNCHANGED <<gapJson, gapLock>>
  BY <1>3, <1>5 DEF RecordInv, Holding
<1> QED BY <1>1, <1>2, <1>4, <1>6 DEF FaultlessInv, Alive

\* Without faults the record and its lock agree whenever nobody writes them.
LEMMA AtRestStep ==
    ASSUME Types, Control, AtRestInv, \A q \in Procs : FaultlessInv(q),
           NEW p \in Procs, Input(p) \/ Worker(p) \/ Crash(p)
    PROVE  AtRestInv'
<1> SUFFICES ASSUME Faultless' PROVE AtRestInv'
  BY DEF AtRestInv
<1>1. /\ Faultless /\ ioFaults' = ioFaults /\ ioFaults \in Nat /\ ioFaults' # ioFaults + 1 /\ ~ Crash(p)
      /\ FaultlessInv(p) /\ WorkerInv(p) /\ MarkerInv(p) /\ RecordInv(p)
  BY NoFault DEF Control
<1>2. ~ orphans'
  <2>1. CASE CreateGapIntent(p)
    BY <2>1, <1>1, CreateGapIntentDoes DEF AtRestInv
  <2>2. CASE EndGap(p)
    <3>2. p \notin intents
      BY <2>2, <1>1, EndGapDoes DEF MarkerInv, FaultlessInv
    <3> QED BY <2>2, <3>2, <1>1, EndGapDoes DEF AtRestInv
  <2> QED BY <2>1, <2>2, <1>1, Frames DEF AtRestInv
<1>3. gapJson'.state \in {"present", "unknown"} => gapJson'.counts # {}
  <2>1. CASE EnsureWriteJson(p)
    BY <2>1, <1>1, EnsureWriteJsonDoes DEF NoGap
  <2>2. CASE UpdateJson(p) \/ PublishJson(p)
    <3>1. flushing[p] # {}
      BY <2>2, <1>1, UpdateJsonDoes, PublishJsonDoes DEF WorkerInv, Flushing
    <3> QED BY <2>2, <3>1, <1>1, UpdateJsonDoes, PublishJsonDoes DEF UpdatedGap
  <2>3. CASE MarkJson(p)
    BY <2>3, <1>1, MarkJsonDoes DEF FaultlessInv
  <2> QED BY <2>1, <2>2, <2>3, <1>1, Frames DEF AtRestInv
<1>4. ASSUME holder' = NoProc
      PROVE  \/ gapJson'.state = "missing" /\ gapLock' = "missing"
             \/ gapJson'.state = "none" /\ gapLock' = "safe"
             \/ gapJson'.state = "present" /\ gapLock' = "present"
  <2>1. CASE EnsureGapState(p)
    <3>1. UNCHANGED gapJson /\ holder = NoProc
      BY <2>1, EnsureGapStateDoes DEF LockFree
    <3>2. gapJson.state # "missing" /\ gapLock' = gapLock
      BY <2>1, <1>1, <1>4, EnsureFaultless, RecorderAssumption
    <3> QED BY <3>1, <3>2, <1>1 DEF AtRestInv
  <2>2. CASE EnsureWriteJson(p)
    BY <2>2, <1>1, EnsureWriteJsonDoes DEF FaultlessInv, NoGap
  <2>3. CASE UpdateLock(p)
    <3>1. holder = NoProc /\ gapJson.state # "unknown"
      BY <2>3, <1>1, UpdateLockDoes DEF LockFree, AtRestInv
    <3> QED BY <2>3, <3>1, <1>1, <1>4, UpdateLockDoes, RecorderAssumption
  <2>4. CASE UpdateJson(p) \/ PublishJson(p)
    <3>1. holder = p /\ holder' = holder
      BY <2>4, <1>1, UpdateJsonDoes, PublishJsonDoes DEF RecordInv, Holding
    <3> QED BY <3>1, <1>4, RecorderAssumption
  <2>5. CASE PublishLock(p)
    BY <2>5, <1>1, PublishLockDoes DEF FaultlessInv
  <2>6. CASE MarkLock(p) \/ MarkJson(p)
    BY <2>6, <1>1, MarkLockDoes, MarkJsonDoes DEF FaultlessInv
  <2> QED BY <2>1, <2>2, <2>3, <2>4, <2>5, <2>6, <1>1, <1>4, Frames DEF AtRestInv
<1> QED BY <1>2, <1>3, <1>4 DEF AtRestInv

\* Without faults every item is stored, held or counted: the process that moves.
LEMMA CountedSelf ==
    ASSUME Types, Control, NEW p \in Procs, OrderInv(p), FaultlessInv(p), CountedInv(p),
           Input(p) \/ Worker(p) \/ Crash(p)
    PROVE  CountedInv(p)'
<1> SUFFICES ASSUME Faultless', NEW i \in 1 .. submitted'[p]
             PROVE  <<p, i>> \in Held(p)' \cup gapJson'.counts
  BY DEF CountedInv
<1>1. Faultless /\ ~ Crash(p) /\ WorkerInv(p) /\ MarkerInv(p) /\ RecordInv(p) /\ NoCountsYet
  BY NoFault DEF Control
<1>2. gapJson.counts \subseteq gapJson'.counts
  BY <1>1, RecordGrows
<1>3. CASE EndGap(p)
  <2>1. /\ flushing[p] \subseteq gapJson.counts
        /\ UNCHANGED <<submitted, stored, queue, pending>>
    BY <1>1, <1>3, EndGapDoes DEF FaultlessInv
  <2>2. Held(p) \subseteq Held(p)' \cup flushing[p]
    BY <2>1 DEF Held, StoredSet, QueuedIds
  <2> QED BY <1>1, <1>2, <2>1, <2>2 DEF CountedInv
<1>4. CASE i \in 1 .. submitted[p] /\ <<p, i>> \notin Held(p)
  BY <1>1, <1>2, <1>4 DEF CountedInv
<1>5. CASE (<<p, i>> \in Held(p) \/ i \notin 1 .. submitted[p]) /\ ~ EndGap(p)
  BY <1>1, <1>5, HeldStep
<1> QED BY <1>3, <1>4, <1>5

\* Without faults every item is stored, held or counted: the other processes.
LEMMA CountedOthers ==
    ASSUME Types, Control, NEW p \in Procs, OrderInv(p), NEW q \in Procs, q # p, CountedInv(q),
           Input(p) \/ Worker(p) \/ Crash(p)
    PROVE  CountedInv(q)'
<1> SUFFICES ASSUME Faultless' PROVE CountedInv(q)'
  BY DEF CountedInv
<1>1. Faultless /\ WorkerInv(p) /\ MarkerInv(p) /\ RecordInv(p) /\ NoCountsYet
  BY NoFault DEF Control
<1>2. UNCHANGED <<submitted[q], queue[q], pending[q], flushing[q]>>
  BY Elsewhere
<1>3. StoredSet \subseteq StoredSet' /\ gapJson.counts \subseteq gapJson'.counts
  BY <1>1, IdsMove, RecordGrows
<1>4. Held(q) \subseteq Held(q)'
  BY <1>2, <1>3 DEF Held, QueuedIds
<1> QED BY <1>1, <1>2, <1>3, <1>4 DEF CountedInv


-----------------------------------------------------------------------------
(***************************************************************************)
(* The invariant of the coordinator, which holds whatever fails.           *)
(***************************************************************************)

Ledger ==
    /\ CountsInv /\ AcceptedInOrder /\ AtRestInv
    /\ \A q \in Procs : /\ OrderInv(q) /\ BooksInv(q) /\ LateInv(q)
                        /\ FaultlessInv(q) /\ CountedInv(q)
RecorderInv == Types /\ Control /\ Ledger

\* A step of a process keeps what the workers know.
LEMMA ControlStep ==
    ASSUME Types, Control, NEW p \in Procs, Input(p) \/ Worker(p) \/ Crash(p)
    PROVE  Control'
<1>1. WorkerInv(p) /\ MarkerInv(p) /\ RecordInv(p) /\ NoCountsYet
  BY DEF Control
<1>2. WorkerInv(p)' /\ MarkerInv(p)' /\ RecordInv(p)'
  BY <1>1, WorkerSelf, MarkerSelf, RecordSelf
<1>3. ASSUME NEW q \in Procs, q # p
      PROVE  WorkerInv(q)' /\ MarkerInv(q)' /\ RecordInv(q)'
  <2>1. WorkerInv(q) /\ MarkerInv(q) /\ RecordInv(q)
    BY DEF Control
  <2> QED BY <1>1, <1>3, <2>1, ControlOthers
<1>4. NoCountsYet'
  BY <1>1, RecordGrows
<1> QED BY <1>2, <1>3, <1>4 DEF Control

\* A step of a process keeps the ledger.
LEMMA LedgerStep ==
    ASSUME Types, Control, Ledger, NEW p \in Procs, Input(p) \/ Worker(p) \/ Crash(p)
    PROVE  Ledger'
<1>1. /\ WorkerInv(p) /\ CountsInv /\ AcceptedInOrder /\ AtRestInv
      /\ \A q \in Procs : FaultlessInv(q)
      /\ OrderInv(p) /\ BooksInv(p) /\ LateInv(p) /\ FaultlessInv(p) /\ CountedInv(p)
  BY DEF Control, Ledger
<1>2. CountsInv' /\ AcceptedInOrder' /\ AtRestInv'
  BY <1>1, CountsStep, AcceptedStep, AtRestStep
<1>3. OrderInv(p)' /\ BooksInv(p)' /\ LateInv(p)' /\ FaultlessInv(p)' /\ CountedInv(p)'
  BY <1>1, OrderSelf, BooksSelf, LateSelf, FaultlessSelf, CountedSelf
<1>4. ASSUME NEW q \in Procs, q # p
      PROVE  OrderInv(q)' /\ BooksInv(q)' /\ LateInv(q)' /\ FaultlessInv(q)' /\ CountedInv(q)'
  <2>1. OrderInv(q) /\ BooksInv(q) /\ LateInv(q) /\ FaultlessInv(q) /\ CountedInv(q)
    BY DEF Ledger
  <2> QED BY <1>1, <1>4, <2>1, OrderOthers, BooksOthers, LateOthers, FaultlessOthers, CountedOthers
<1> QED BY <1>2, <1>3, <1>4 DEF Ledger

\* The steps of the reader have their types.
LEMMA ReadTypes ==
    ASSUME Types, ReadStep
    PROVE  ReaderTypes'
<1>1. ReaderTypes /\ DiskTypes /\ WorkerTypes
  BY DEF Types
<1>2. gapLock \in LockStates /\ gapJson.state \in GapStates
  BY <1>1 DEF DiskTypes
<1>3. /\ "none" \in Results /\ "present" \in Results /\ "unknown" \in Results
      /\ "markers" \in ReaderPCs /\ "intents" \in ReaderPCs /\ "lock" \in ReaderPCs
      /\ "recheck" \in ReaderPCs /\ "json" \in ReaderPCs /\ "decide" \in ReaderPCs
      /\ "done" \in ReaderPCs /\ "missing" \in LockStates
  BY DEF Results, ReaderPCs, LockStates
<1>4. \A status \in Results : ConcludeRead(status) => ReaderTypes'
  BY <1>1, <1>3 DEF ConcludeRead, ReaderTypes
<1>5. CASE ReadStart
  <2>1. {p \in Procs : marker[p] # "absent"} \in SUBSET Procs /\ (Losses # {} \/ Unpublished) \in BOOLEAN
    OBVIOUS
  <2> QED BY <1>1, <1>3, <1>5, <2>1 DEF ReadStart, ReaderTypes
<1>6. ASSUME NEW p \in Procs, ReadMarker(p) PROVE ReaderTypes'
  <2>1. CASE ConcludeRead("unknown")
    BY <1>3, <1>4, <2>1
  <2>2. CASE reader' = [reader EXCEPT !.pc = "intents", !.crashed = TRUE]
    BY <1>1, <1>3, <2>2 DEF ReaderTypes
  <2>3. CASE reader' = [reader EXCEPT !.unscanned = @ \ {p},
                                      !.pc = IF reader.unscanned = {p} THEN "intents" ELSE @]
    BY <1>1, <1>3, <2>3 DEF ReaderTypes
  <2> QED BY <1>6, <2>1, <2>2, <2>3 DEF ReadMarker
<1>7. CASE ReadIntents("intents", "lock") \/ ReadIntents("recheck", "json")
  <2>1. CASE ConcludeRead("unknown")
    BY <1>3, <1>4, <2>1
  <2>2. CASE \/ reader' = [reader EXCEPT !.pc = "lock"] \/ reader' = [reader EXCEPT !.pc = "json"]
    BY <1>1, <1>3, <2>2 DEF ReaderTypes
  <2> QED BY <1>7, <2>1, <2>2 DEF ReadIntents
<1>8. CASE ReadLock
  <2>1. CASE ConcludeRead("unknown")
    BY <1>3, <1>4, <2>1
  <2>2. CASE \/ reader' = [reader EXCEPT !.pc = "recheck", !.lockState = "missing"]
             \/ reader' = [reader EXCEPT !.pc = "recheck", !.locked = TRUE, !.lockState = gapLock]
    BY <1>1, <1>2, <1>3, <2>2 DEF ReaderTypes
  <2> QED BY <1>8, <2>1, <2>2 DEF ReadLock
<1>9. CASE ReadJson
  <2>1. CASE ConcludeRead("unknown")
    BY <1>3, <1>4, <2>1
  <2>2. CASE reader' = [reader EXCEPT !.pc = "decide", !.json = gapJson.state]
    BY <1>1, <1>2, <1>3, <2>2 DEF ReaderTypes
  <2> QED BY <1>9, <2>1, <2>2 DEF ReadJson
<1>10. CASE Decide
  <2>1. reader.json \in GapStates
    BY <1>1 DEF ReaderTypes
  <2>2. Verdict(reader.json, reader.lockState, reader.crashed) \in Results
    BY <2>1 DEF GapStates, Verdict, Results
  <2> QED BY <1>3, <1>4, <1>10, <2>2 DEF Decide
<1> QED BY <1>5, <1>6, <1>7, <1>8, <1>9, <1>10 DEF ReadStep

\* A step of the reader or of maintenance, or none, changes nothing of the recorder.
Aside == UNCHANGED <<process, disk, ioFaults, processCrashes>>

\* These steps leave the recorder aside.
LEMMA AsideSteps ==
    ASSUME TakeLease \/ ReleaseLease \/ ReadStep \/ UNCHANGED recorderVars
    PROVE  Aside
  BY DEF TakeLease, ReleaseLease, ReadStep, ReadStart, ReadMarker, ReadIntents, ReadLock, ReadJson,
         Decide, Read, faultBounds, recorderVars, Aside

\* Such a step keeps the types.
LEMMA AsideTypes ==
    ASSUME Types, TakeLease \/ ReleaseLease \/ ReadStep \/ UNCHANGED recorderVars
    PROVE  Types'
<1>1. InputTypes' /\ WorkerTypes' /\ DiskTypes'
  BY AsideSteps DEF Types, Aside, process, disk, InputTypes, WorkerTypes, DiskTypes
<1>2. BoundTypes'
  <2>1. CASE TakeLease
    BY <2>1, RecorderAssumption DEF Types, BoundTypes, TakeLease
  <2>2. CASE ReleaseLease
    BY <2>2 DEF Types, BoundTypes, ReleaseLease
  <2>3. CASE ReadStep \/ UNCHANGED recorderVars
    <3>1. UNCHANGED <<lease, leases, ioFaults, processCrashes>>
      BY <2>3 DEF ReadStep, ReadStart, ReadMarker, ReadIntents, ReadLock, ReadJson,
                  Decide, Read, faultBounds, recorderVars
    <3> QED BY <3>1 DEF Types, BoundTypes
  <2> QED BY <2>1, <2>2, <2>3
<1>3. ReaderTypes'
  <2>1. CASE ~ ReadStep
    <3>1. UNCHANGED reader
      BY <2>1 DEF TakeLease, ReleaseLease, recorderVars
    <3> QED BY <3>1 DEF Types, ReaderTypes
  <2> QED BY <2>1, ReadTypes
<1> QED BY <1>1, <1>2, <1>3 DEF Types

\* Such a step keeps what is said of the recorder.
LEMMA AsideKeeps ==
    ASSUME Aside
    PROVE  /\ (Control => Control') /\ (Ledger => Ledger')
           /\ \A q \in Procs : (AccountInv(q) /\ CostInv(q)) => (AccountInv(q)' /\ CostInv(q)')
<1>1. /\ UNCHANGED <<life, queue, submitted, outcome, pending, flushing, workerAt, started, ready,
                     clean, gapReady, marker, intents, orphans, gapLock, holder, gapJson, stored>>
      /\ UNCHANGED <<ioFaults, processCrashes>>
  BY DEF Aside, process, disk
<1>2. Control => Control'
  BY <1>1 DEF Control, NoCountsYet, WorkerInv, MarkerInv, RecordInv, Alive, Recorded
<1>3. Ledger => Ledger'
  <2>1. CountsInv => CountsInv'
    BY <1>1 DEF CountsInv, Dropped, Unstored, StoredSet, QueuedIds
  <2>2. AcceptedInOrder => AcceptedInOrder'
    BY <1>1 DEF AcceptedInOrder
  <2>3. AtRestInv => AtRestInv'
    BY <1>1 DEF AtRestInv, Faultless
  <2>4. \A q \in Procs : OrderInv(q) => OrderInv(q)'
    BY <1>1 DEF OrderInv
  <2>5. \A q \in Procs : BooksInv(q) => BooksInv(q)'
    BY <1>1 DEF BooksInv, Dropped, Unstored, StoredSet, QueuedIds
  <2>6. \A q \in Procs : LateInv(q) => LateInv(q)'
    BY <1>1 DEF LateInv
  <2>7. \A q \in Procs : FaultlessInv(q) => FaultlessInv(q)'
    BY <1>1 DEF FaultlessInv, Faultless, Alive
  <2>8. \A q \in Procs : CountedInv(q) => CountedInv(q)'
    BY <1>1 DEF CountedInv, Faultless, Held, StoredSet, QueuedIds
  <2> QED BY <2>1, <2>2, <2>3, <2>4, <2>5, <2>6, <2>7, <2>8 DEF Ledger
<1>4. \A q \in Procs : AccountInv(q) => AccountInv(q)'
  BY <1>1 DEF AccountInv, Held, StoredSet, QueuedIds, Evident, Recorded, BadMarker
<1>5. \A q \in Procs : CostInv(q) => CostInv(q)'
  BY <1>1 DEF CostInv, Cost, Evident, Recorded, BadMarker, Alive
<1> QED BY <1>2, <1>3, <1>4, <1>5

\* The invariant holds initially.
LEMMA RecorderStarts ==
    ASSUME RecorderInit
    PROVE  RecorderInv
<1>1. Types
  <2>1. InputTypes
    BY RecorderAssumption DEF RecorderInit, InputTypes, Lives, Lossy
  <2>2. WorkerTypes
    BY DEF RecorderInit, WorkerTypes, WorkerPCs, MarkerStates
  <2>3. DiskTypes
    <3>1. /\ intents = {} /\ orphans = FALSE /\ gapLock = "missing" /\ holder = NoProc
          /\ gapJson = [state |-> "missing", counts |-> {}] /\ stored = <<>>
      BY DEF RecorderInit
    <3>2. "missing" \in LockStates /\ "missing" \in GapStates
      BY DEF LockStates, GapStates
    <3>3. gapJson \in [state : GapStates, counts : SUBSET Lossy]
      BY <3>1, <3>2
    <3>4. stored \in Seq(Lossy)
      BY <3>1
    <3>5. orphans \in BOOLEAN /\ intents \in SUBSET Procs
      BY <3>1
    <3> QED BY <3>1, <3>2, <3>3, <3>4, <3>5 DEF DiskTypes
  <2>4. BoundTypes
    <3>1. lease = FALSE /\ leases = 0 /\ ioFaults = 0 /\ processCrashes = 0
      BY DEF RecorderInit
    <3>2. 0 \in 0 .. MaxLeases /\ 0 \in 0 .. MaxIoFaults /\ 0 \in 0 .. MaxProcessCrashes
      BY RecorderAssumption
    <3> QED BY <3>1, <3>2 DEF BoundTypes
  <2>5. ReaderTypes
    <3>1. reader = [pc |-> "idle", unscanned |-> {}, crashed |-> FALSE, locked |-> FALSE,
                    lockState |-> "missing", json |-> "missing", result |-> "pending",
                    evident |-> FALSE]
      BY DEF RecorderInit
    <3>2. /\ "idle" \in ReaderPCs /\ "missing" \in LockStates /\ "missing" \in GapStates
          /\ "pending" \in Results
      BY DEF ReaderPCs, LockStates, GapStates, Results
    <3> QED BY <3>1, <3>2 DEF ReaderTypes
  <2> QED BY <2>1, <2>2, <2>3, <2>4, <2>5 DEF Types
<1>2. Control
  <2>1. NoCountsYet
    BY DEF RecorderInit, NoCountsYet
  <2>2. ASSUME NEW q \in Procs PROVE WorkerInv(q) /\ MarkerInv(q) /\ RecordInv(q)
    <3>1. /\ life[q] = "new" /\ queue[q] = <<>> /\ flushing[q] = {} /\ workerAt[q] = "off"
          /\ ~ started[q] /\ ~ ready[q] /\ ~ clean[q] /\ ~ gapReady[q] /\ marker[q] = "absent"
          /\ intents = {} /\ holder # q
      BY RecorderAssumption DEF RecorderInit
    <3> QED BY <3>1 DEF WorkerInv, MarkerInv, RecordInv, Alive, Preparing, Flushing, Holding
  <2> QED BY <2>1, <2>2 DEF Control
<1>3. Ledger
  <2>1. CountsInv /\ AcceptedInOrder /\ AtRestInv
    BY DEF RecorderInit, CountsInv, AcceptedInOrder, AtRestInv
  <2>2. ASSUME NEW q \in Procs
        PROVE OrderInv(q) /\ BooksInv(q) /\ LateInv(q) /\ FaultlessInv(q) /\ CountedInv(q)
    <3>1. /\ life[q] = "new" /\ queue[q] = <<>> /\ flushing[q] = {} /\ pending[q] = {}
          /\ submitted[q] = 0 /\ outcome[q] = <<>> /\ workerAt[q] = "off" /\ ~ started[q]
          /\ stored = <<>>
      BY DEF RecorderInit
    <3>2. OrderInv(q)
      BY <3>1 DEF OrderInv
    <3>3. BooksInv(q) /\ LateInv(q) /\ CountedInv(q)
      BY <3>1 DEF BooksInv, LateInv, CountedInv
    <3>4. FaultlessInv(q)
      BY <3>1 DEF FaultlessInv, Alive
    <3> QED BY <3>2, <3>3, <3>4
  <2> QED BY <2>1, <2>2 DEF Ledger
<1> QED BY <1>1, <1>2, <1>3 DEF RecorderInv

\* The invariant holds after every step.
LEMMA RecorderKeeps ==
    ASSUME RecorderInv, [RecorderNext]_recorderVars
    PROVE  RecorderInv'
<1>1. Types /\ Control /\ Ledger
  BY DEF RecorderInv
<1>2. ASSUME NEW p \in Procs, Input(p) \/ Worker(p) \/ Crash(p) PROVE RecorderInv'
  <2>1. WorkerInv(p)
    BY <1>1 DEF Control
  <2> QED BY <1>1, <1>2, <2>1, ProcessTypes, ControlStep, LedgerStep DEF RecorderInv
<1>3. CASE TakeLease \/ ReleaseLease \/ ReadStep \/ UNCHANGED recorderVars
  <2>1. Types'
    BY <1>1, <1>3, AsideTypes
  <2>2. Aside
    BY <1>3, AsideSteps
  <2>3. Control' /\ Ledger'
    BY <1>1, <2>2, AsideKeeps
  <2> QED BY <2>1, <2>3 DEF RecorderInv
<1>4. \/ \E p \in Procs : Input(p) \/ Worker(p) \/ Crash(p)
      \/ TakeLease \/ ReleaseLease \/ ReadStep \/ UNCHANGED recorderVars
  BY Zenon DEF RecorderNext
<1> QED BY <1>2, <1>3, <1>4


-----------------------------------------------------------------------------
(***************************************************************************)
(* What follows from the invariant, whatever fails.                        *)
(***************************************************************************)

\* The invariant holds throughout.
THEOREM RecorderInvariant == RecorderSpec => []RecorderInv
<1>1. RecorderInit => RecorderInv
  BY RecorderStarts
<1>2. RecorderInv /\ [RecorderNext]_recorderVars => RecorderInv'
  BY RecorderKeeps
<1> QED BY <1>1, <1>2, PTL DEF RecorderSpec

\* The store receives the items of each process in the order in which they were
\* submitted, and none of them twice, whatever fails and however often the lease
\* sends the worker back.
THEOREM AcceptedInOrderHolds == RecorderSpec => []AcceptedInOrder
<1>1. RecorderInv => AcceptedInOrder
  BY DEF RecorderInv, Ledger
<1> QED BY <1>1, RecorderInvariant, PTL

\* Nothing is counted as dropped that the store has accepted or that is queued.
LEMMA HonestCounts ==
    ASSUME RecorderInv
    PROVE  CountsHonest
<1> DEFINE dropped == gapJson.counts \cup UNION {pending[p] \cup flushing[p] : p \in Procs}
<1>1. \A x \in dropped : Unstored(x)
  <2>1. \A x \in gapJson.counts : Unstored(x)
    BY DEF RecorderInv, Ledger, CountsInv, Dropped
  <2>2. \A p \in Procs : \A x \in pending[p] \cup flushing[p] : Unstored(x)
    BY DEF RecorderInv, Ledger, BooksInv, Dropped
  <2> QED BY <2>1, <2>2
<1>2. \A x \in dropped : x \notin StoredSet /\ x \notin QueuedIds(x[1])
  BY <1>1 DEF Unstored
<1>3. ASSUME NEW p \in Procs, NEW x \in QueuedIds(p) PROVE x[1] = p
  BY <1>3 DEF QueuedIds
<1>4. dropped \cap StoredSet = {} /\ \A p \in Procs : dropped \cap QueuedIds(p) = {}
  BY <1>2, <1>3
<1> QED BY <1>4 DEF CountsHonest

\* A count of dropped items names no item that the store has accepted, or that
\* still waits in the queue.
THEOREM CountsHonestHolds == RecorderSpec => []CountsHonest
<1>1. RecorderInv => CountsHonest
  BY HonestCounts
<1> QED BY <1>1, RecorderInvariant, PTL

\* Nobody is at work.
AtRest ==
    /\ ioFaults = 0 /\ processCrashes = 0
    /\ \E p \in Procs : life[p] = "stopped"
    /\ \A p \in Procs : life[p] \in {"new", "stopped"}

\* What every process has left when nobody is at work.
LEMMA Rested ==
    ASSUME RecorderInv, AtRest, NEW p \in Procs
    PROVE  /\ ~ Alive(p) /\ life[p] # "crashed" /\ marker[p] = "absent"
           /\ queue[p] = <<>> /\ flushing[p] = {} /\ p \notin intents /\ holder # p
           /\ OrderInv(p) /\ LateInv(p) /\ CountedInv(p) /\ WorkerInv(p) /\ FaultlessInv(p)
<1>1. /\ WorkerInv(p) /\ MarkerInv(p) /\ RecordInv(p)
      /\ OrderInv(p) /\ LateInv(p) /\ CountedInv(p) /\ FaultlessInv(p)
  BY DEF RecorderInv, Control, Ledger
<1>2. life[p] \in {"new", "stopped"} /\ Faultless
  BY DEF AtRest, Faultless
<1>3. ~ Alive(p) /\ workerAt[p] = "off" /\ queue[p] = <<>> /\ flushing[p] = {}
  BY <1>1, <1>2 DEF WorkerInv, Alive
<1>4. marker[p] = "absent"
  BY <1>1, <1>2 DEF MarkerInv, FaultlessInv
<1>5. p \notin intents /\ holder # p
  BY <1>1, <1>3 DEF MarkerInv, RecordInv, Announced, Flushing, Holding
<1> QED BY <1>1, <1>2, <1>3, <1>4, <1>5

\* What is on disk when nobody is at work.
LEMMA RestedDisk ==
    ASSUME RecorderInv, AtRest
    PROVE  /\ holder = NoProc /\ ~ IntentOnDisk
           /\ \/ gapJson.state = "none" /\ gapLock = "safe" /\ gapJson.counts = {}
              \/ gapJson.state = "present" /\ gapLock = "present" /\ gapJson.counts # {}
<1>1. holder = NoProc /\ intents = {}
  BY Rested DEF RecorderInv, Types, DiskTypes
<1>2. AtRestInv /\ NoCountsYet /\ Faultless
  BY DEF RecorderInv, Control, Ledger, AtRest, Faultless
<1>3. PICK p \in Procs : life[p] = "stopped"
  BY DEF AtRest
<1>4. gapJson.state # "missing"
  BY <1>2, <1>3, Rested DEF FaultlessInv
<1> QED BY <1>1, <1>2, <1>4 DEF AtRestInv, NoCountsYet, IntentOnDisk

\* Without faults and crashes the record is exact.
LEMMA ExactGap ==
    ASSUME RecorderInv
    PROVE  GapExact
<1> SUFFICES ASSUME AtRest
             PROVE  gapJson.counts = Losses /\ Status = (IF Losses = {} THEN "none" ELSE "present")
  BY DEF GapExact, AtRest
<1>1. \A p \in Procs : ~ DiedUnmarked(p) /\ LossOf(p) = ({p} \X (1 .. submitted[p])) \ StoredSet
  BY Rested DEF DiedUnmarked, LossOf, InMemory
<1>2. Losses = UNION {LossOf(p) \ Late(p) : p \in Procs}
  BY <1>1 DEF Losses
<1>3. ASSUME NEW x \in gapJson.counts PROVE x \in Losses
  <2>1. x \in Lossy
    BY DEF RecorderInv, Types, DiskTypes
  <2>2. PICK p \in Procs, i \in Ids : x = <<p, i>>
    BY <2>1 DEF Lossy
  <2>3. Dropped(x)
    BY DEF RecorderInv, Ledger, CountsInv
  <2>4. i \in 1 .. submitted[p] /\ x \notin StoredSet /\ x \notin pending[p]
    BY <2>2, <2>3 DEF Dropped, Unstored
  <2>5. x \notin Late(p)
    BY <2>2, <2>4, Rested DEF LateInv, Late
  <2> QED BY <1>1, <1>2, <2>2, <2>4, <2>5
<1>4. ASSUME NEW x \in Losses PROVE x \in gapJson.counts
  <2>1. PICK p \in Procs : x \in LossOf(p) \ Late(p)
    BY <1>2
  <2>2. PICK i \in 1 .. submitted[p] : x = <<p, i>>
    BY <1>1, <2>1
  <2>3. <<p, i>> \in Held(p) \cup gapJson.counts
    BY Rested DEF CountedInv, AtRest, Faultless
  <2>4. <<p, i>> \notin StoredSet
    BY <1>1, <2>1, <2>2
  <2>5. <<p, i>> \notin QueuedIds(p) /\ <<p, i>> \notin flushing[p]
    BY Rested DEF QueuedIds
  <2>6. <<p, i>> \notin pending[p]
    <3>1. outcome[p][i] # "late"
      BY <2>1, <2>2 DEF Late
    <3>2. life[p] = "stopped" \/ submitted[p] = 0
      BY Rested DEF AtRest, LateInv
    <3>3. submitted[p] # 0
      BY <2>2
    <3> QED BY <3>1, <3>2, <3>3, Rested DEF LateInv
  <2> QED BY <2>2, <2>3, <2>4, <2>5, <2>6 DEF Held
<1>5. gapJson.counts = Losses
  BY <1>3, <1>4
<1>6. \A p \in Procs : marker[p] = "absent"
  BY Rested
<1>7. Status = Verdict(gapJson.state, gapLock, FALSE)
  BY <1>6, RestedDisk DEF Status
<1> QED BY <1>5, <1>7, RestedDisk DEF Verdict

\* When nothing failed and every process has stopped, the record counts exactly
\* the items that were lost and the status says so without a false alarm.
THEOREM GapExactHolds == RecorderSpec => []GapExact
<1>1. RecorderInv => GapExact
  BY ExactGap
<1> QED BY <1>1, RecorderInvariant, PTL

-----------------------------------------------------------------------------
(***************************************************************************)
(* What follows while at most three durable operations fail. The marker,   *)
(* the intent, the state of the lock and the record are four places where  *)
(* a loss can be noted, and the fourth failure can destroy the last one.   *)
(***************************************************************************)

Accounts == \A q \in Procs : AccountInv(q) /\ CostInv(q)
EvidenceInv == RecorderInv /\ Accounts /\ ReaderInv /\ ReaderIdle

\* A step of a process keeps the accounts.
LEMMA AccountsStep ==
    ASSUME MaxIoFaults <= 3, RecorderInv, Accounts, NEW p \in Procs, Input(p) \/ Worker(p) \/ Crash(p)
    PROVE  Accounts'
<1>1. /\ Types /\ WorkerInv(p) /\ MarkerInv(p) /\ RecordInv(p) /\ NoCountsYet /\ OrderInv(p)
      /\ AccountInv(p) /\ CostInv(p)
  BY DEF RecorderInv, Control, Ledger, Accounts
<1>2. AccountInv(p)' /\ CostInv(p)'
  BY <1>1, AccountSelf, CostSelf
<1>3. ASSUME NEW q \in Procs, q # p PROVE AccountInv(q)' /\ CostInv(q)'
  <2>1. AccountInv(q) /\ CostInv(q)
    BY DEF Accounts
  <2> QED BY <1>1, <1>3, <2>1, AccountOthers, CostOthers
<1> QED BY <1>2, <1>3 DEF Accounts

\* A file that is left to see stays, or the record has been made.
LEMMA LeftStays ==
    ASSUME RecorderInv, NEW p \in Procs, Input(p) \/ Worker(p) \/ Crash(p),
           NEW q \in Procs, Left(q)
    PROVE  Left(q)' \/ Recorded'
<1>1. Types /\ WorkerInv(p) /\ MarkerInv(p) /\ RecordInv(p) /\ NoCountsYet
  BY DEF RecorderInv, Control
<1>2. CASE q # p
  <2>1. UNCHANGED <<life[q], marker[q]>>
    BY <1>1, <1>2, Elsewhere
  <2> QED BY <2>1 DEF Left, BadMarker
<1>3. CASE BadMarker(p) /\ q = p
  BY <1>1, <1>3, MarkerStays, RecordGrows DEF Left
<1>4. CASE life[p] \in {"crashed", "stopped"} /\ marker[p] # "absent" /\ q = p
  <2>1. workerAt[p] = "off" /\ ~ Alive(p) /\ life[p] # "new" /\ life[p] # "up"
    BY <1>1, <1>4 DEF WorkerInv, Alive
  <2>2. /\ ~ Start(p) /\ ~ Shutdown(p) /\ ~ StopWorker(p) /\ ~ Crash(p) /\ ~ CreateMarker(p)
        /\ ~ BeginGap(p) /\ ~ EndGap(p)
    BY <2>1 DEF Start, Shutdown, StopWorker, Crash, CreateMarker, BeginGap, EndGap
  <2>3. UNCHANGED <<life, marker>>
    BY <1>1, <2>2, Frames
  <2> QED BY <1>4, <2>3 DEF Left, BadMarker
<1> QED BY <1>2, <1>3, <1>4 DEF Left

\* An intent stays until the record has been made.
LEMMA IntentStays ==
    ASSUME RecorderInv, NEW p \in Procs, Input(p) \/ Worker(p) \/ Crash(p), IntentOnDisk
    PROVE  IntentOnDisk' \/ Recorded'
<1>1. Types /\ WorkerInv(p) /\ MarkerInv(p) /\ RecordInv(p) /\ NoCountsYet
  BY DEF RecorderInv, Control
<1>2. CASE orphans
  BY <1>1, <1>2, OrphansStay DEF IntentOnDisk
<1>3. ASSUME NEW q \in intents PROVE IntentOnDisk' \/ Recorded'
  <2>1. q \in Procs
    BY <1>1 DEF Types, DiskTypes
  <2>2. CASE q # p
    BY <1>1, <1>3, <2>1, <2>2, OwnIntent DEF IntentOnDisk
  <2>3. CASE q = p
    <3>1. CASE CreateGapIntent(p)
      BY <1>1, <1>3, <2>3, <3>1, CreateGapIntentDoes DEF IntentOnDisk
    <3>2. CASE RemoveGapIntent(p)
      BY <1>1, <3>2, RemoveGapIntentDoes, RecordGrows DEF RecordInv
    <3>3. CASE EndGap(p)
      BY <1>1, <1>3, <2>3, <3>3, EndGapDoes DEF IntentOnDisk
    <3>4. CASE Crash(p)
      BY <1>1, <1>3, <2>3, <3>4, CrashDoes DEF IntentOnDisk
    <3> QED BY <1>1, <1>3, <3>1, <3>2, <3>3, <3>4, Frames DEF IntentOnDisk
  <2> QED BY <2>2, <2>3
<1> QED BY <1>2, <1>3 DEF IntentOnDisk

\* No step of a process takes the evidence from under the reader.
LEMMA ReaderUndisturbed ==
    ASSUME RecorderInv, ReaderInv, ReaderIdle, NEW p \in Procs, Input(p) \/ Worker(p) \/ Crash(p)
    PROVE  ReaderInv' /\ ReaderIdle'
<1>1. Types /\ WorkerInv(p) /\ MarkerInv(p) /\ RecordInv(p) /\ NoCountsYet
  BY DEF RecorderInv, Control
<1>2. UNCHANGED reader
  BY <1>1, Frames
<1>3. Recorded => Recorded'
  BY <1>1, RecordGrows
<1>4. Recorded \/ IntentOnDisk => Recorded' \/ IntentOnDisk'
  BY <1>3, IntentStays
<1>5. ReaderTypes
  BY <1>1 DEF Types
<1>6. (\E q \in reader.unscanned : Left(q)) => Recorded' \/ \E q \in reader.unscanned : Left(q)'
  BY <1>5, LeftStays DEF ReaderTypes
<1> QED BY <1>2, <1>3, <1>4, <1>6 DEF ReaderInv, ReaderIdle

\* A loss has left something that can be seen.
LEMMA LossEvident ==
    ASSUME RecorderInv, Accounts, Losses # {}
    PROVE  Recorded \/ IntentOnDisk \/ \E q \in Procs : Left(q)
<1>1. PICK p \in Procs : ~ DiedUnmarked(p) /\ LossOf(p) \ Late(p) # {}
  BY DEF Losses
<1>2. PICK x \in LossOf(p) : x \notin Late(p)
  BY <1>1
<1>3. PICK i \in 1 .. submitted[p] :
          /\ x = <<p, i>> /\ x \notin StoredSet /\ x \notin InMemory(p) /\ outcome[p][i] # "late"
  BY <1>2 DEF LossOf, Late
<1>4. WorkerInv(p) /\ LateInv(p) /\ AccountInv(p)
  BY DEF RecorderInv, Control, Ledger, Accounts
<1>5. CASE life[p] = "crashed"
  BY <1>1, <1>5 DEF DiedUnmarked, Left
<1>6. CASE life[p] # "crashed"
  <2>1. x \in Held(p) \/ Evident(p)
    BY <1>3, <1>4, <1>6 DEF AccountInv
  <2>2. x \notin QueuedIds(p) /\ x \notin pending[p] /\ x \notin flushing[p]
    <3>1. CASE Alive(p)
      BY <1>3, <3>1 DEF InMemory
    <3>2. CASE ~ Alive(p)
      <4>1. queue[p] = <<>> /\ flushing[p] = {}
        BY <1>4, <3>2 DEF WorkerInv
      <4>2. life[p] \in {"new", "stopped"}
        BY <1>6, <3>2 DEF RecorderInv, Types, InputTypes, Lives, Alive
      <4>3. life[p] = "stopped"
        BY <1>3, <1>4, <4>2 DEF LateInv
      <4>4. x \notin pending[p]
        BY <1>3, <1>4, <4>3 DEF LateInv
      <4> QED BY <4>1, <4>4 DEF QueuedIds
    <3> QED BY <3>1, <3>2
  <2>3. Evident(p)
    BY <1>3, <2>1, <2>2 DEF Held
  <2> QED BY <2>3 DEF Evident, IntentOnDisk, Left
<1> QED BY <1>5, <1>6

\* What is read of the evidence decides.
LEMMA VerdictHonest ==
    ASSUME NEW json \in GapStates, NEW lockState, NEW crashed \in BOOLEAN,
           crashed \/ json \in {"present", "unknown"}
    PROVE  Verdict(json, lockState, crashed) # "none"
  BY DEF Verdict, GapStates

\* A step of the reader loses nothing of what it has seen.
LEMMA ReaderSees ==
    ASSUME RecorderInv, Accounts, ReaderInv, ReaderIdle, ReadStep
    PROVE  ReaderInv' /\ ReaderIdle'
<1>1. ReaderTypes /\ gapJson.state \in GapStates
  BY DEF RecorderInv, Types, DiskTypes
<1>2. /\ UNCHANGED <<life, marker, intents, orphans, gapJson>>
      /\ UNCHANGED <<Recorded, IntentOnDisk>> /\ \A q \in Procs : UNCHANGED Left(q)
  <2>1. UNCHANGED <<life, marker, intents, orphans, gapJson>>
    BY AsideSteps DEF Aside, process, disk
  <2> QED BY <2>1 DEF Recorded, IntentOnDisk, Left, BadMarker
<1>3. \A status \in {"unknown", "present"} : ConcludeRead(status) => ReaderInv' /\ ReaderIdle'
  BY <1>1 DEF ConcludeRead, ReaderTypes, ReaderInv, ReaderIdle
<1>4. CASE ReadStart
  <2>1. \A q \in Procs : Left(q) => marker[q] # "absent"
    BY DEF Left, BadMarker
  <2>2. Unpublished => IntentOnDisk \/ \E q \in Procs : Left(q)
    BY DEF Unpublished, Left, BadMarker
  <2>3. Losses # {} \/ Unpublished => Recorded \/ IntentOnDisk \/ \E q \in Procs : Left(q)
    BY <2>2, LossEvident
  <2>4. /\ reader'.evident => Losses # {} \/ Unpublished
        /\ reader'.unscanned = {q \in Procs : marker[q] # "absent"}
        /\ \/ reader'.pc = "markers"
           \/ reader'.pc = "intents" /\ \A q \in Procs : marker[q] = "absent"
    BY <1>1, <1>4 DEF ReadStart, ReaderTypes
  <2> QED BY <1>2, <2>1, <2>3, <2>4 DEF ReaderInv, ReaderIdle
<1>5. ASSUME NEW p \in Procs, ReadMarker(p) PROVE ReaderInv' /\ ReaderIdle'
  <2>1. CASE ConcludeRead("unknown")
    BY <1>3, <2>1
  <2>2. CASE reader' = [reader EXCEPT !.pc = "intents", !.crashed = TRUE]
    BY <1>1, <2>2 DEF ReaderInv, ReaderIdle, ReaderTypes
  <2>3. CASE /\ marker[p] = "clean" /\ Alive(p)
             /\ reader' = [reader EXCEPT !.unscanned = @ \ {p},
                                         !.pc = IF reader.unscanned = {p} THEN "intents" ELSE @]
    <3>1. ~ Left(p)
      BY <2>3 DEF Left, BadMarker, Alive
    <3>2. /\ reader.pc = "markers" /\ reader'.evident = reader.evident
          /\ reader'.unscanned = reader.unscanned \ {p}
          /\ reader'.pc = (IF reader.unscanned = {p} THEN "intents" ELSE "markers")
      BY <1>1, <1>5, <2>3 DEF ReadMarker, Read, ReaderTypes
    <3>3. reader.evident => Recorded \/ IntentOnDisk \/ \E q \in reader'.unscanned : Left(q)
      BY <3>1, <3>2 DEF ReaderInv
    <3>4. reader'.unscanned \subseteq Procs
      BY <1>1, <3>2 DEF ReaderTypes
    <3>5. reader.unscanned = {p} => reader'.unscanned = {}
      BY <3>2
    <3> QED BY <1>2, <3>2, <3>3, <3>4, <3>5 DEF ReaderInv, ReaderIdle
  <2> QED BY <1>5, <2>1, <2>2, <2>3 DEF ReadMarker
<1>6. CASE ReadIntents("intents", "lock") \/ ReadIntents("recheck", "json")
  <2>1. CASE ConcludeRead("unknown")
    BY <1>3, <2>1
  <2>2. CASE /\ reader.pc \in {"intents", "recheck"} /\ ~ IntentOnDisk
             /\ \/ reader' = [reader EXCEPT !.pc = "lock"] \/ reader' = [reader EXCEPT !.pc = "json"]
    BY <1>1, <1>2, <2>2 DEF ReaderInv, ReaderIdle, ReaderTypes
  <2> QED BY <1>6, <2>1, <2>2 DEF ReadIntents, Read
<1>7. CASE ReadLock
  <2>1. CASE ConcludeRead("unknown")
    BY <1>3, <2>1
  <2>2. CASE /\ reader.pc = "lock"
             /\ \/ reader' = [reader EXCEPT !.pc = "recheck", !.lockState = "missing"]
                \/ reader' = [reader EXCEPT !.pc = "recheck", !.locked = TRUE, !.lockState = gapLock]
    BY <1>1, <1>2, <2>2 DEF ReaderInv, ReaderIdle, ReaderTypes
  <2> QED BY <1>7, <2>1, <2>2 DEF ReadLock, Read
<1>8. CASE ReadJson
  <2>1. CASE ConcludeRead("unknown")
    BY <1>3, <2>1
  <2>2. CASE reader.pc = "json" /\ reader' = [reader EXCEPT !.pc = "decide", !.json = gapJson.state]
    BY <1>1, <1>2, <2>2 DEF ReaderInv, ReaderIdle, ReaderTypes, Recorded
  <2> QED BY <1>8, <2>1, <2>2 DEF ReadJson, Read
<1>9. CASE Decide
  <2> DEFINE result == IF IntentOnDisk THEN "unknown"
                       ELSE Verdict(reader.json, reader.lockState, reader.crashed)
  <2>1. reader.evident => result # "none"
    <3>1. reader.evident => reader.crashed \/ reader.json \in {"present", "unknown"}
      BY <1>9 DEF Decide, Read, ReaderInv
    <3> QED BY <1>1, <3>1, VerdictHonest DEF ReaderTypes
  <2>2. /\ reader'.pc = "done" /\ reader'.evident = reader.evident
        /\ reader'.result = result
    BY <1>1, <1>9 DEF Decide, ConcludeRead, ReaderTypes
  <2> QED BY <2>1, <2>2 DEF ReaderInv, ReaderIdle
<1> QED BY <1>4, <1>5, <1>6, <1>7, <1>8, <1>9 DEF ReadStep

\* The evidence is there initially, when there is nothing to be evident.
LEMMA EvidenceStarts ==
    ASSUME RecorderInit
    PROVE  EvidenceInv
<1>1. RecorderInv
  BY RecorderStarts
<1>2. ASSUME NEW q \in Procs PROVE AccountInv(q) /\ CostInv(q)
  <2>1. life[q] = "new" /\ submitted[q] = 0 /\ workerAt[q] = "off"
    BY DEF RecorderInit
  <2> QED BY <2>1 DEF AccountInv, CostInv, Alive
<1>3. reader.pc = "idle" /\ ~ reader.evident
  BY DEF RecorderInit
<1> QED BY <1>1, <1>2, <1>3 DEF EvidenceInv, Accounts, ReaderInv, ReaderIdle

\* The evidence is there after every step.
LEMMA EvidenceKeeps ==
    ASSUME MaxIoFaults <= 3, EvidenceInv, [RecorderNext]_recorderVars
    PROVE  EvidenceInv'
<1>1. RecorderInv /\ Accounts /\ ReaderInv /\ ReaderIdle /\ RecorderInv'
  BY RecorderKeeps DEF EvidenceInv
<1>2. ASSUME NEW p \in Procs, Input(p) \/ Worker(p) \/ Crash(p) PROVE EvidenceInv'
  BY <1>1, <1>2, AccountsStep, ReaderUndisturbed DEF EvidenceInv
<1>3. CASE TakeLease \/ ReleaseLease \/ ReadStep \/ UNCHANGED recorderVars
  <2>1. Accounts'
    BY <1>1, <1>3, AsideSteps, AsideKeeps DEF Accounts
  <2>2. CASE ~ ReadStep
    <3>1. UNCHANGED <<process, disk, reader>>
      BY <1>3, <2>2 DEF TakeLease, ReleaseLease, recorderVars
    <3>2. ReaderInv' /\ ReaderIdle'
      BY <1>1, <3>1 DEF ReaderInv, ReaderIdle, Recorded, IntentOnDisk, Left, BadMarker, process, disk
    <3> QED BY <1>1, <2>1, <3>2 DEF EvidenceInv
  <2>3. CASE ReadStep
    BY <1>1, <2>1, <2>3, ReaderSees DEF EvidenceInv
  <2> QED BY <2>2, <2>3
<1>4. \/ \E p \in Procs : Input(p) \/ Worker(p) \/ Crash(p)
      \/ TakeLease \/ ReleaseLease \/ ReadStep \/ UNCHANGED recorderVars
  BY Zenon DEF RecorderNext
<1> QED BY <1>2, <1>3, <1>4

\* A loss shows in the status.
LEMMA LossShows ==
    ASSUME EvidenceInv
    PROVE  EvidenceKept
<1> SUFFICES ASSUME Losses # {} PROVE Status # "none"
  BY DEF EvidenceKept
<1> DEFINE live(p) == Alive(p) /\ ready[p]
           crashed == \E p \in Procs : marker[p] # "absent" /\ ~ live(p)
           uncertain == \E p \in Procs : \/ marker[p] = "torn"
                                         \/ marker[p] \in {"pending", "unknown"} /\ live(p)
<1>1. gapJson.state \in GapStates
  BY DEF EvidenceInv, RecorderInv, Types, DiskTypes
<1>2. Recorded \/ IntentOnDisk \/ \E q \in Procs : Left(q)
  BY LossEvident DEF EvidenceInv
<1>3. (\E q \in Procs : Left(q)) => crashed \/ uncertain
  BY DEF Left, BadMarker, Alive
<1>4. Status = "unknown" \/ (~ uncertain /\ ~ IntentOnDisk /\ Status = Verdict(gapJson.state, gapLock, crashed))
  BY DEF Status
<1>5. crashed \in BOOLEAN
  OBVIOUS
<1> HIDE DEF live, crashed, uncertain
<1>6. crashed \/ gapJson.state \in {"present", "unknown"} => Verdict(gapJson.state, gapLock, crashed) # "none"
  BY <1>1, <1>5, VerdictHonest
<1> QED BY <1>2, <1>3, <1>4, <1>6 DEF Recorded

\* While at most three durable operations fail, an item that is neither stored
\* nor in the memory of its process has left evidence, and a read that began
\* when there was evidence does not answer that there was none, however its
\* steps mix with those of the recorders; and the record is exact when nothing
\* failed. With four failures the first of these is false.
THEOREM EvidenceHonestHolds ==
    ASSUME MaxIoFaults <= 3
    PROVE  RecorderSpec => []EvidenceHonest
<1>1. RecorderInit => EvidenceInv
  BY EvidenceStarts
<1>2. EvidenceInv /\ [RecorderNext]_recorderVars => EvidenceInv'
  BY EvidenceKeeps
<1>3. EvidenceInv => EvidenceHonest
  <2>1. EvidenceInv => EvidenceKept
    BY LossShows
  <2>2. EvidenceInv => GapExact
    BY ExactGap DEF EvidenceInv
  <2>3. EvidenceInv => ReadNotFooled
    BY DEF EvidenceInv, ReaderInv, ReadNotFooled
  <2> QED BY <2>1, <2>2, <2>3 DEF EvidenceHonest
<1> QED BY <1>1, <1>2, <1>3, PTL DEF RecorderSpec


=============================================================================
