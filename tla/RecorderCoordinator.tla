------------------------- MODULE RecorderCoordinator -------------------------
(***************************************************************************)
(* The recorder of src/recorder_coordinator.cc: processes that share one   *)
(* fact root, each with an in-memory FIFO filled by the input thread and a *)
(* worker thread that owns every durable side effect, and the daemon's     *)
(* reader of the evidence they leave (daemon/maintenance.py).              *)
(*                                                                         *)
(* An item the worker cannot persist is a loss. Evidence of a loss moves   *)
(* through four files: the process marker, an intent, the state in         *)
(* recording_gap.lock and recording_gap.json. Each durable write is one    *)
(* step; any of them may fail, and a process may crash between two steps.  *)
(* A coordinator that is started again is another member of Procs.         *)
(*                                                                         *)
(* Every item has one unit of logical bytes; a gap is the set of the items *)
(* it counts. A crash is the death of a process: what was written stays.   *)
(***************************************************************************)
EXTENDS Naturals, Sequences, FiniteSets

CONSTANTS
    Procs,        \* recorder processes
    MaxBatches,   \* kMaxBatches
    MaxBytes,     \* kMaxBytes, in items
    MaxItems,     \* bound: items submitted by one process
    MaxIoFaults,    \* bound: failing durable operations
    MaxProcessCrashes,   \* bound: processCrashes
    MaxLeases,    \* bound: exclusive maintenance leases taken
    LateSubmit,   \* owners may still submit after the worker stopped
    Reading       \* whether the reader takes part

NoProc == "nobody"

ASSUME RecorderAssumption ==
    /\ NoProc \notin Procs
    /\ MaxBatches \in Nat \ {0} /\ MaxBytes \in Nat \ {0}
    /\ MaxItems \in Nat /\ MaxIoFaults \in Nat /\ MaxProcessCrashes \in Nat
    /\ MaxLeases \in Nat
    /\ LateSubmit \in BOOLEAN /\ Reading \in BOOLEAN

Ids == 1 .. MaxItems
NoBatch == 0

\* A batch, or the retraction of an earlier batch of the same process.
Item == [id : Ids, retracts : Ids \cup {NoBatch}]
IsBatch(item) == item.retracts = NoBatch
Lossy == Procs \X Ids

VARIABLES
    life,      \* "new", "up", "stopping", "stopped" or "crashed"
    queue,     \* queue_
    submitted, \* number of items submitted
    outcome,   \* SubmitResult of every item; "late" is a gap after the worker stopped
    pending,   \* pending_gap_: the items it counts
    flushing,  \* gap: what the worker is writing
    workerAt,        \* control point of the worker
    started,   \* startup_done_
    ready,     \* process_marker_ready_
    clean,     \* process_marker_clean_
    gapReady   \* gap_state_ready_

process == <<life, queue, submitted, outcome, pending, flushing, workerAt, started,
             ready, clean, gapReady>>

VARIABLES
    marker,    \* contents of .recording_process.*: "absent" when there is none
    intents,   \* the processes whose gap intent is on disk
    orphans,   \* some intent was left behind for good
    gapLock,   \* contents of recording_gap.lock
    holder,    \* process holding the exclusive flock on recording_gap.lock
    gapJson,   \* recording_gap.json: its state and the items it counts
    stored     \* the items the store accepted, in the order of its transactions

disk == <<marker, intents, orphans, gapLock, holder, gapJson, stored>>

VARIABLES
    lease,     \* the exclusive maintenance lease is held
    leases, ioFaults, processCrashes,
    reader     \* read_recording_gap in flight

recorderVars == <<process, disk, lease, leases, ioFaults, processCrashes, reader>>
faultBounds == <<lease, leases, processCrashes>>

MarkerStates == {"absent", "clean", "pending", "unknown", "torn"}
GapStates == {"missing", "none", "present", "unknown"}
LockStates == {"missing", "empty", "safe", "present", "unknown"}
WorkerPCs == {"off", "marker", "ensure", "ensure_json", "wait", "begin_gap",
              "intent", "update_lock", "update_json", "publish_json",
              "publish_lock", "mark_lock", "mark_json", "remove_intent",
              "end_clean", "end_unknown", "persist"}

Alive(p) == life[p] \in {"up", "stopping"}

(***************************************************************************)
(* Failing I/O. A failed operation leaves one of the results the partial   *)
(* sequence of system calls can leave.                                     *)
(***************************************************************************)
IoFault == ioFaults < MaxIoFaults /\ ioFaults' = ioFaults + 1
NoIoFault == ioFaults' = ioFaults

-----------------------------------------------------------------------------
(***************************************************************************)
(* Input thread.                                                           *)
(***************************************************************************)

\* ForRoot: the coordinator is constructed and its worker started.
Start(p) ==
    /\ life[p] = "new"
    /\ life' = [life EXCEPT ![p] = "up"]
    /\ workerAt' = [workerAt EXCEPT ![p] = "marker"]
    /\ UNCHANGED <<queue, submitted, outcome, pending, flushing, started,
                   ready, clean, gapReady, disk, faultBounds, ioFaults, reader>>

QueuedBatches(p) == Len(SelectSeq(queue[p], IsBatch))

\* Mutant: one item too many.
OverflowsLate(p, item) ==
    \/ IsBatch(item) /\ QueuedBatches(p) > MaxBatches
    \/ Len(queue[p]) > MaxBytes

Overflows(p, item) ==
    \/ IsBatch(item) /\ QueuedBatches(p) >= MaxBatches
    \/ Len(queue[p]) >= MaxBytes

\* EnqueueOrGap, in memory only. A gap that comes after the worker has stopped
\* is marked "late": nobody writes it.
EnqueueOrGap(p, item) ==
    IF life[p] # "up" \/ Overflows(p, item)
    THEN /\ outcome' = [outcome EXCEPT ![p] =
                  Append(@, IF life[p] = "stopped" THEN "late" ELSE "gap")]
         /\ pending' = [pending EXCEPT ![p] = @ \cup {<<p, item.id>>}]
         /\ queue' = queue
    ELSE /\ outcome' = [outcome EXCEPT ![p] = Append(@, "buffered")]
         /\ queue' = [queue EXCEPT ![p] = Append(@, item)]
         /\ pending' = pending

Submit(p, retracts) ==
    /\ Alive(p) \/ (life[p] = "stopped" /\ LateSubmit)
    /\ submitted[p] < MaxItems
    /\ submitted' = [submitted EXCEPT ![p] = @ + 1]
    /\ EnqueueOrGap(p, [id |-> submitted[p] + 1, retracts |-> retracts])
    /\ UNCHANGED <<life, flushing, workerAt, started, ready, clean, gapReady, disk,
                   faultBounds, ioFaults, reader>>

SubmitBatch(p) == Submit(p, NoBatch)

\* Only a commit whose batch was buffered has an id to retract.
SubmitRetraction(p) ==
    \E b \in 1 .. submitted[p] : outcome[p][b] = "buffered" /\ Submit(p, b)

Shutdown(p) ==
    /\ life[p] = "up"
    /\ life' = [life EXCEPT ![p] = "stopping"]
    /\ UNCHANGED <<queue, submitted, outcome, pending, flushing, workerAt, started,
                   ready, clean, gapReady, disk, faultBounds, ioFaults, reader>>

-----------------------------------------------------------------------------
(***************************************************************************)
(* Worker: evidence primitives.                                            *)
(***************************************************************************)
Goto(p, point) == workerAt' = [workerAt EXCEPT ![p] = point]

\* What the worker does once the evidence primitives have been attempted.
Work(p) ==
    IF ~ started[p] THEN "wait"
    ELSE IF flushing[p] # {} THEN "begin_gap"
    ELSE "persist"

AfterMarker(p) == IF gapReady[p] THEN Work(p) ELSE "ensure"

\* AttemptCreateProcessMarker.
CreateMarker(p) ==
    /\ workerAt[p] = "marker"
    /\ \/ /\ NoIoFault
          /\ marker' = [marker EXCEPT ![p] = "clean"]
          /\ ready' = [ready EXCEPT ![p] = TRUE]
          /\ clean' = [clean EXCEPT ![p] = TRUE]
       \/ IoFault /\ UNCHANGED <<marker, ready, clean>>
    /\ Goto(p, AfterMarker(p))
    /\ UNCHANGED <<life, queue, submitted, outcome, pending, flushing, started,
                   gapReady, intents, orphans, gapLock, holder, gapJson,
                   stored, faultBounds, reader>>

EndEnsure(p, ok) ==
    /\ gapReady' = [gapReady EXCEPT ![p] = ok]
    /\ started' = [started EXCEPT ![p] = TRUE]
    /\ Goto(p, Work(p))

\* The exclusive flock is granted when neither a writer nor the reader holds it.
LockFree == holder = NoProc /\ ~ reader.locked

\* What OpenGapLock leaves of the lock file: it is created when missing.
Opened == IF gapLock = "missing" THEN "empty" ELSE gapLock

GapStateConsistent ==
    \/ gapJson.state = "none" /\ gapLock = "safe"
    \/ gapJson.state = "present" /\ gapLock \in {"safe", "present"}
    \/ gapJson.state = "unknown" /\ gapLock = "unknown"

\* EnsureGapState up to its first write.
EnsureGapState(p) ==
    /\ workerAt[p] = "ensure"
    /\ LockFree
    /\ \/ /\ IoFault
          /\ gapLock' \in {gapLock, Opened}
          /\ EndEnsure(p, FALSE)
          /\ holder' = holder
       \/ /\ NoIoFault
          /\ intents # {} \/ orphans
          /\ gapLock' = Opened
          /\ EndEnsure(p, TRUE)
          /\ holder' = holder
       \/ /\ NoIoFault
          /\ intents = {} /\ ~ orphans
          /\ gapJson.state = "missing" /\ Opened = "empty"
          /\ gapLock' = "safe"
          /\ holder' = p
          /\ Goto(p, "ensure_json")
          /\ UNCHANGED <<started, gapReady>>
       \/ /\ NoIoFault
          /\ intents = {} /\ ~ orphans
          /\ gapJson.state = "present" /\ Opened = "empty"
          /\ gapLock' = "present"
          /\ EndEnsure(p, TRUE)
          /\ holder' = holder
       \/ /\ NoIoFault
          /\ intents = {} /\ ~ orphans
          /\ ~ (gapJson.state \in {"missing", "present"} /\ Opened = "empty")
          /\ gapLock' = Opened
          /\ EndEnsure(p, GapStateConsistent)
          /\ holder' = holder
    /\ UNCHANGED <<life, queue, submitted, outcome, pending, flushing, ready,
                   clean, marker, intents, orphans, gapJson, stored, faultBounds,
                   reader>>

NoGap == [state |-> "none", counts |-> {}]

EnsureWriteJson(p) ==
    /\ workerAt[p] = "ensure_json"
    /\ holder' = NoProc
    /\ \/ NoIoFault /\ gapJson' = NoGap /\ EndEnsure(p, TRUE)
       \/ IoFault /\ gapJson' \in {gapJson, NoGap} /\ EndEnsure(p, FALSE)
    /\ UNCHANGED <<life, queue, submitted, outcome, pending, flushing, ready,
                   clean, marker, intents, orphans, gapLock, stored, faultBounds,
                   reader>>

(***************************************************************************)
(* Worker: the loop.                                                       *)
(***************************************************************************)
QueuedIds(p) == {<<p, queue[p][i].id>> : i \in DOMAIN queue[p]}

BeginWork(p) ==
    IF ~ ready[p] THEN "marker"
    ELSE IF ~ gapReady[p] THEN "ensure"
    ELSE IF flushing'[p] # {} THEN "begin_gap"
    ELSE "persist"

\* Mutant: shutdown leaves the queue alone.
TakeGapKeepsQueue(p) ==
    /\ workerAt[p] = "wait"
    /\ pending[p] # {}
    /\ flushing' = [flushing EXCEPT ![p] = pending[p]]
    /\ pending' = [pending EXCEPT ![p] = {}]
    /\ Goto(p, BeginWork(p))
    /\ UNCHANGED <<life, queue, submitted, outcome, started, ready, clean,
                   gapReady, disk, faultBounds, ioFaults, reader>>

\* Pick the pending gap first; when stopping, what is queued becomes a gap.
TakeGap(p) ==
    LET moved == IF life[p] = "stopping" THEN QueuedIds(p) ELSE {} IN
    /\ workerAt[p] = "wait"
    /\ pending[p] \cup moved # {}
    /\ flushing' = [flushing EXCEPT ![p] = pending[p] \cup moved]
    /\ pending' = [pending EXCEPT ![p] = {}]
    /\ queue' = [queue EXCEPT ![p] = IF life[p] = "stopping" THEN <<>> ELSE @]
    /\ Goto(p, BeginWork(p))
    /\ UNCHANGED <<life, submitted, outcome, started, ready, clean, gapReady,
                   disk, faultBounds, ioFaults, reader>>

TakeItem(p) ==
    /\ workerAt[p] = "wait"
    /\ life[p] = "up" /\ pending[p] = {} /\ queue[p] # <<>>
    /\ flushing' = flushing
    /\ Goto(p, BeginWork(p))
    /\ UNCHANGED <<life, queue, submitted, outcome, pending, started, ready,
                   clean, gapReady, disk, faultBounds, ioFaults, reader>>

\* WorkerCleanup: only a clean marker is removed; the descriptor is closed.
StopWorker(p) ==
    /\ workerAt[p] = "wait"
    /\ life[p] = "stopping" /\ pending[p] = {} /\ queue[p] = <<>>
    /\ life' = [life EXCEPT ![p] = "stopped"]
    /\ Goto(p, "off")
    /\ \/ NoIoFault /\ marker' = [marker EXCEPT
                         ![p] = IF ready[p] /\ clean[p] THEN "absent" ELSE @]
       \/ IoFault /\ ready[p] /\ clean[p] /\ marker' = marker
    /\ ready' = [ready EXCEPT ![p] = FALSE]
    /\ clean' = [clean EXCEPT ![p] = FALSE]
    /\ UNCHANGED <<queue, submitted, outcome, pending, flushing, started,
                   gapReady, intents, orphans, gapLock, holder, gapJson,
                   stored, faultBounds, reader>>

(***************************************************************************)
(* Worker: flushing a gap. The evidence is in the marker and in an intent  *)
(* before the lock state and the record are touched, and they are cleared  *)
(* only after the record says so.                                          *)
(***************************************************************************)

\* WriteProcessMarkerFromWorker.
WriteMarker(p, state, ok) ==
    IF ~ ready[p]
    THEN NoIoFault /\ UNCHANGED <<marker, clean>>
    ELSE \/ /\ NoIoFault
            /\ marker' = [marker EXCEPT ![p] = state]
            /\ clean' = [clean EXCEPT ![p] = ok]
         \/ /\ IoFault
            /\ \E left \in {marker[p], "torn", state} :
                  marker' = [marker EXCEPT ![p] = left]
            /\ clean' = [clean EXCEPT ![p] = FALSE]

GapStepUnchanged ==
    UNCHANGED <<life, queue, submitted, outcome, pending, started, ready,
                gapReady, stored, faultBounds, reader>>

BeginGap(p) ==
    /\ workerAt[p] = "begin_gap"
    /\ WriteMarker(p, "pending", FALSE)
    /\ Goto(p, "intent")
    /\ UNCHANGED <<flushing, intents, orphans, gapLock, holder, gapJson>>
    /\ GapStepUnchanged

CreateGapIntent(p) ==
    /\ workerAt[p] = "intent"
    /\ \/ /\ NoIoFault
          /\ intents' = intents \cup {p}
          /\ orphans' = orphans
          /\ Goto(p, "update_lock")
       \/ /\ IoFault
          /\ intents' = intents
          /\ orphans' \in {orphans, TRUE}
          /\ Goto(p, "mark_lock")
    /\ UNCHANGED <<flushing, clean, marker, gapLock, holder, gapJson>>
    /\ GapStepUnchanged

\* What a failing OpenGapLock or WriteGapLockState may leave in the file.
FailedLock(state) == {gapLock, Opened, "empty", state}

\* Mutant: the record is updated without the exclusive flock.
UpdateLockUnlocked(p) ==
    /\ workerAt[p] = "update_lock"
    /\ gapLock' = "unknown"
    /\ gapJson.state # "unknown"
    /\ flushing' = [flushing EXCEPT ![p] = @ \cup gapJson.counts]
    /\ Goto(p, "update_json")
    /\ UNCHANGED <<clean, marker, intents, orphans, gapJson, holder, ioFaults>>
    /\ GapStepUnchanged

\* UpdateGap: the lock state is made unknown before the record is read.
UpdateLock(p) ==
    /\ workerAt[p] = "update_lock"
    /\ LockFree
    /\ \/ /\ NoIoFault
          /\ gapLock' = "unknown"
          /\ gapJson.state = "unknown"
          /\ Goto(p, "remove_intent")
          /\ UNCHANGED <<flushing, holder>>
       \/ /\ NoIoFault
          /\ gapLock' = "unknown"
          /\ gapJson.state # "unknown"
          /\ flushing' = [flushing EXCEPT ![p] = @ \cup gapJson.counts]
          /\ holder' = p
          /\ Goto(p, "update_json")
       \/ /\ IoFault
          /\ gapLock' \in FailedLock("unknown")
          /\ Goto(p, "mark_lock")
          /\ UNCHANGED <<flushing, holder>>
    /\ UNCHANGED <<clean, marker, intents, orphans, gapJson>>
    /\ GapStepUnchanged

UpdatedGap(p, state) == [state |-> state, counts |-> flushing[p]]

JsonWrite(p, state, next) ==
    \/ /\ NoIoFault
       /\ gapJson' = UpdatedGap(p, state)
       /\ Goto(p, next) /\ holder' = holder
    \/ /\ IoFault
       /\ gapJson' \in {gapJson, UpdatedGap(p, state)}
       /\ Goto(p, "mark_lock") /\ holder' = NoProc

UpdateJson(p) ==
    /\ workerAt[p] = "update_json"
    /\ JsonWrite(p, "unknown", "publish_json")
    /\ UNCHANGED <<flushing, clean, marker, intents, orphans, gapLock>>
    /\ GapStepUnchanged

PublishJson(p) ==
    /\ workerAt[p] = "publish_json"
    /\ JsonWrite(p, "present", "publish_lock")
    /\ UNCHANGED <<flushing, clean, marker, intents, orphans, gapLock>>
    /\ GapStepUnchanged

PublishLock(p) ==
    /\ workerAt[p] = "publish_lock"
    /\ \/ NoIoFault /\ gapLock' = "present" /\ Goto(p, "remove_intent")
       \/ IoFault /\ gapLock' \in FailedLock("present") /\ Goto(p, "mark_lock")
    /\ holder' = NoProc
    /\ UNCHANGED <<flushing, clean, marker, intents, orphans, gapJson>>
    /\ GapStepUnchanged

\* MarkGapUnknown: whatever happens here, the gap was not persisted.
MarkLock(p) ==
    /\ workerAt[p] = "mark_lock"
    /\ LockFree
    /\ \/ /\ NoIoFault
          /\ gapLock' = "unknown" /\ holder' = p /\ Goto(p, "mark_json")
       \/ /\ IoFault
          /\ gapLock' \in FailedLock("unknown")
          /\ holder' = holder /\ Goto(p, "end_unknown")
    /\ UNCHANGED <<flushing, clean, marker, intents, orphans, gapJson>>
    /\ GapStepUnchanged

MarkJson(p) ==
    /\ workerAt[p] = "mark_json"
    /\ \/ NoIoFault /\ gapJson' = [gapJson EXCEPT !.state = "unknown"]
       \/ IoFault /\ gapJson' \in {gapJson, [gapJson EXCEPT !.state = "unknown"]}
    /\ holder' = NoProc
    /\ Goto(p, "end_unknown")
    /\ UNCHANGED <<flushing, clean, marker, intents, orphans, gapLock>>
    /\ GapStepUnchanged

RemoveGapIntent(p) ==
    /\ workerAt[p] = "remove_intent"
    /\ \/ /\ NoIoFault /\ intents' = intents \ {p} /\ Goto(p, "end_clean")
       \/ /\ IoFault /\ intents' \in {intents, intents \ {p}}
          /\ Goto(p, "end_unknown")
    /\ UNCHANGED <<flushing, clean, marker, orphans, gapLock, holder, gapJson>>
    /\ GapStepUnchanged

\* Mutant: the marker is declared clean although the gap was not recorded.
EndGapAlwaysClean(p) ==
    /\ workerAt[p] \in {"end_clean", "end_unknown"}
    /\ WriteMarker(p, "clean", TRUE)
    /\ flushing' = [flushing EXCEPT ![p] = {}]
    /\ orphans' = (orphans \/ p \in intents)
    /\ intents' = intents \ {p}
    /\ Goto(p, "wait")
    /\ UNCHANGED <<gapLock, holder, gapJson>>
    /\ GapStepUnchanged

\* The flush ends; an intent that is still on disk stays there.
EndGap(p) ==
    /\ \/ workerAt[p] = "end_clean" /\ WriteMarker(p, "clean", TRUE)
       \/ workerAt[p] = "end_unknown" /\ WriteMarker(p, "unknown", FALSE)
    /\ flushing' = [flushing EXCEPT ![p] = {}]
    /\ orphans' = (orphans \/ p \in intents)
    /\ intents' = intents \ {p}
    /\ Goto(p, "wait")
    /\ UNCHANGED <<gapLock, holder, gapJson>>
    /\ GapStepUnchanged

(***************************************************************************)
(* Worker: persisting the item at the front of the queue.                  *)
(***************************************************************************)
RemoveFront(p) == queue' = [queue EXCEPT ![p] = IF @ = <<>> THEN @ ELSE Tail(@)]

\* Mutant: the item that could not be written goes to the back of the queue.
PersistLockedRequeues(p) ==
    /\ workerAt[p] = "persist"
    /\ lease
    /\ queue' = [queue EXCEPT ![p] = Append(Tail(@), Head(@))]
    /\ Goto(p, "wait")
    /\ UNCHANGED <<life, submitted, outcome, pending, flushing, started, ready,
                   clean, gapReady, disk, faultBounds, ioFaults, reader>>

\* Mutant: the worker gives up at the first locked open.
PersistLockedGivesUp(p) ==
    /\ workerAt[p] = "persist"
    /\ lease
    /\ Goto(p, "off")
    /\ UNCHANGED <<life, queue, submitted, outcome, pending, flushing, started,
                   ready, clean, gapReady, disk, faultBounds, ioFaults, reader>>

\* FactStore::Open refuses while the exclusive lease is held: the item stays
\* at the front and is tried again.
PersistLocked(p) ==
    /\ workerAt[p] = "persist"
    /\ lease
    /\ Goto(p, "wait")
    /\ UNCHANGED <<life, queue, submitted, outcome, pending, flushing, started,
                   ready, clean, gapReady, disk, faultBounds, ioFaults, reader>>

\* One transaction of the store. Retracting a commit the store does not have,
\* or has already retracted, is a transaction that changes nothing.
Persist(p) ==
    /\ workerAt[p] = "persist"
    /\ ~ lease
    /\ stored' = Append(stored, <<p, Head(queue[p]).id>>)
    /\ RemoveFront(p)
    /\ Goto(p, "wait")
    /\ UNCHANGED <<life, submitted, outcome, pending, flushing, started, ready,
                   clean, gapReady, marker, intents, orphans, gapLock, holder,
                   gapJson, faultBounds, ioFaults, reader>>

\* Mutant: the failed item is counted as dropped and stays queued.
PersistFailsKeepsFront(p) ==
    /\ workerAt[p] = "persist"
    /\ ~ lease
    /\ IoFault
    /\ pending' = [pending EXCEPT ![p] = @ \cup {<<p, Head(queue[p]).id>>}]
    /\ Goto(p, "wait")
    /\ UNCHANGED <<life, queue, submitted, outcome, flushing, started, ready,
                   clean, gapReady, disk, faultBounds, reader>>

PersistFails(p) ==
    /\ workerAt[p] = "persist"
    /\ ~ lease
    /\ IoFault
    /\ RemoveFront(p)
    /\ pending' = [pending EXCEPT ![p] = @ \cup {<<p, Head(queue[p]).id>>}]
    /\ Goto(p, "wait")
    /\ UNCHANGED <<life, submitted, outcome, flushing, started, ready, clean,
                   gapReady, disk, faultBounds, reader>>

(***************************************************************************)
(* The process dies: memory is gone, its flocks are released. A file it    *)
(* was rewriting in place may have been truncated.                         *)
(***************************************************************************)
TornMarker(p) ==
    IF ready[p] /\ workerAt[p] \in {"begin_gap", "end_clean", "end_unknown"}
    THEN {marker[p], "torn"} ELSE {marker[p]}

TornLock(p) ==
    IF \/ workerAt[p] \in {"update_lock", "mark_lock"} /\ LockFree
       \/ workerAt[p] = "publish_lock"
    THEN {gapLock, "empty"} ELSE {gapLock}

Crash(p) ==
    /\ Alive(p)
    /\ processCrashes < MaxProcessCrashes
    /\ processCrashes' = processCrashes + 1
    /\ life' = [life EXCEPT ![p] = "crashed"]
    /\ Goto(p, "off")
    /\ queue' = [queue EXCEPT ![p] = <<>>]
    /\ pending' = [pending EXCEPT ![p] = {}]
    /\ flushing' = [flushing EXCEPT ![p] = {}]
    /\ ready' = [ready EXCEPT ![p] = FALSE]
    /\ clean' = [clean EXCEPT ![p] = FALSE]
    /\ holder' = IF holder = p THEN NoProc ELSE holder
    /\ orphans' = (orphans \/ p \in intents)
    /\ intents' = intents \ {p}
    /\ \E left \in TornMarker(p) : marker' = [marker EXCEPT ![p] = left]
    /\ gapLock' \in TornLock(p)
    /\ UNCHANGED <<submitted, outcome, started, gapReady, gapJson, stored,
                   lease, leases, ioFaults, reader>>

\* Maintenance takes and releases the exclusive fact lease.
TakeLease ==
    /\ ~ lease /\ leases < MaxLeases
    /\ lease' = TRUE /\ leases' = leases + 1
    /\ UNCHANGED <<process, disk, ioFaults, processCrashes, reader>>

ReleaseLease ==
    /\ lease /\ lease' = FALSE
    /\ UNCHANGED <<process, disk, leases, ioFaults, processCrashes, reader>>

-----------------------------------------------------------------------------
(***************************************************************************)
(* read_recording_gap: the reader looks at one file per step, and every    *)
(* early return is a ConcludeRead.                                         *)
(***************************************************************************)
ReaderPCs == {"idle", "markers", "intents", "lock", "recheck", "json",
              "decide", "done"}

ConcludeRead(status) ==
    reader' = [reader EXCEPT !.pc = "done", !.result = status,
                             !.locked = FALSE]

Read(from) == reader.pc = from /\ UNCHANGED <<process, disk, faultBounds, ioFaults>>

IntentOnDisk == intents # {} \/ orphans

\* Items the recorder has let go of without the store having accepted them.
StoredSet == {stored[i] : i \in DOMAIN stored}
InMemory(p) ==
    IF Alive(p) THEN QueuedIds(p) \cup pending[p] \cup flushing[p] ELSE {}
LossOf(p) == (({p} \X (1 .. submitted[p])) \ StoredSet) \ InMemory(p)
Late(p)   == {p} \X {i \in 1 .. submitted[p] : outcome[p][i] = "late"}

\* A process that died before its marker existed leaves nothing behind.
DiedUnmarked(p) == life[p] = "crashed" /\ marker[p] = "absent"
Losses ==
    UNION {LossOf(p) \ Late(p) : p \in {q \in Procs : ~ DiedUnmarked(q)}}

\* Evidence of an update that began and has not been published.
Unpublished ==
    IntentOnDisk \/ \E p \in Procs : marker[p] \in {"pending", "unknown", "torn"}

ReadStart ==
    /\ Reading
    /\ Read("idle")
    /\ reader' = [reader EXCEPT
          !.pc = IF \A p \in Procs : marker[p] = "absent"
                 THEN "intents" ELSE "markers",
          !.unscanned = {p \in Procs : marker[p] # "absent"},
          !.evident = Losses # {} \/ Unpublished]

\* _recording_process_marker_status. The scan ends at the first stale marker.
ReadMarker(p) ==
    LET live == Alive(p) /\ ready[p] IN
    /\ Read("markers")
    /\ p \in reader.unscanned
    /\ \/ marker[p] \in {"absent", "torn"} /\ ConcludeRead("unknown")
       \/ /\ marker[p] \in {"clean", "pending", "unknown"} /\ ~ live
          /\ reader' = [reader EXCEPT !.pc = "intents", !.crashed = TRUE]
       \/ marker[p] \in {"pending", "unknown"} /\ live /\ ConcludeRead("unknown")
       \/ /\ marker[p] = "clean" /\ live
          /\ reader' = [reader EXCEPT
                 !.unscanned = @ \ {p},
                 !.pc = IF reader.unscanned = {p} THEN "intents" ELSE @]

\* _gap_intent_exists, at three points of the read.
ReadIntents(from, to) ==
    /\ Read(from)
    /\ IF IntentOnDisk THEN ConcludeRead("unknown")
       ELSE reader' = [reader EXCEPT !.pc = to]

\* _open_gap_lock: a shared lock that does not wait.
ReadLock ==
    /\ Read("lock")
    /\ \/ /\ gapLock = "missing"
          /\ reader' = [reader EXCEPT !.pc = "recheck", !.lockState = "missing"]
       \/ gapLock # "missing" /\ holder # NoProc /\ ConcludeRead("unknown")
       \/ /\ gapLock # "missing" /\ holder = NoProc
          /\ reader' = [reader EXCEPT !.pc = "recheck", !.locked = TRUE,
                                      !.lockState = gapLock]

ReadJson ==
    /\ Read("json")
    /\ IF gapJson.state = "missing" /\ reader.lockState # "missing"
       THEN ConcludeRead("unknown")
       ELSE reader' = [reader EXCEPT !.pc = "decide", !.json = gapJson.state]

\* Mutant: a stale marker is ignored.
VerdictIgnoresCrash(json, lockState, crashed) ==
    CASE json = "missing" -> "none"
      [] json = "none" -> IF lockState # "safe" THEN "unknown" ELSE "none"
      [] json = "present" -> IF lockState \in {"missing", "safe", "present"}
                             THEN "present" ELSE "unknown"
      [] json = "unknown" -> "unknown"

\* The status that follows from what was read.
Verdict(json, lockState, crashed) ==
    CASE json = "missing" -> IF crashed THEN "unknown" ELSE "none"
      [] json = "none" -> IF lockState # "safe" \/ crashed
                          THEN "unknown" ELSE "none"
      [] json = "present" -> IF lockState \in {"missing", "safe", "present"}
                             THEN "present" ELSE "unknown"
      [] json = "unknown" -> "unknown"

Decide ==
    /\ Read("decide")
    /\ ConcludeRead(IF IntentOnDisk THEN "unknown"
                ELSE Verdict(reader.json, reader.lockState, reader.crashed))

ReadStep ==
    \/ ReadStart
    \/ \E p \in Procs : ReadMarker(p)
    \/ ReadIntents("intents", "lock")
    \/ ReadLock
    \/ ReadIntents("recheck", "json")
    \/ ReadJson
    \/ Decide

-----------------------------------------------------------------------------
RecorderInit ==
    /\ life = [p \in Procs |-> "new"]
    /\ queue = [p \in Procs |-> <<>>]
    /\ submitted = [p \in Procs |-> 0]
    /\ outcome = [p \in Procs |-> <<>>]
    /\ pending = [p \in Procs |-> {}]
    /\ flushing = [p \in Procs |-> {}]
    /\ workerAt = [p \in Procs |-> "off"]
    /\ started = [p \in Procs |-> FALSE]
    /\ ready = [p \in Procs |-> FALSE]
    /\ clean = [p \in Procs |-> FALSE]
    /\ gapReady = [p \in Procs |-> FALSE]
    /\ marker = [p \in Procs |-> "absent"]
    /\ intents = {} /\ orphans = FALSE
    /\ gapLock = "missing" /\ holder = NoProc
    /\ gapJson = [state |-> "missing", counts |-> {}]
    /\ stored = <<>>
    /\ lease = FALSE /\ leases = 0 /\ ioFaults = 0 /\ processCrashes = 0
    /\ reader = [pc |-> "idle", unscanned |-> {}, crashed |-> FALSE,
                 locked |-> FALSE, lockState |-> "missing",
                 json |-> "missing", result |-> "pending",
                 evident |-> FALSE]

Input(p) == Start(p) \/ SubmitBatch(p) \/ SubmitRetraction(p) \/ Shutdown(p)

Worker(p) ==
    \/ CreateMarker(p) \/ EnsureGapState(p) \/ EnsureWriteJson(p)
    \/ TakeGap(p) \/ TakeItem(p) \/ StopWorker(p)
    \/ BeginGap(p) \/ CreateGapIntent(p)
    \/ UpdateLock(p) \/ UpdateJson(p) \/ PublishJson(p) \/ PublishLock(p)
    \/ MarkLock(p) \/ MarkJson(p) \/ RemoveGapIntent(p) \/ EndGap(p)
    \/ PersistLocked(p) \/ Persist(p) \/ PersistFails(p)

RecorderNext ==
    \/ \E p \in Procs : Input(p) \/ Worker(p) \/ Crash(p)
    \/ TakeLease \/ ReleaseLease
    \/ ReadStep

RecorderSpec == RecorderInit /\ [][RecorderNext]_recorderVars

\* The worker thread is scheduled and a read runs to its end. Nothing obliges
\* anybody to submit or to shut down, nor maintenance to release its lease.
RecorderFairSpec ==
    /\ RecorderSpec
    /\ WF_recorderVars(ReadStep)
    /\ \A p \in Procs : WF_recorderVars(Worker(p))

-----------------------------------------------------------------------------
(***************************************************************************)
(* Properties.                                                             *)
(***************************************************************************)

\* Every variable has its type, and the queue respects the limits on batches
\* and bytes that EnqueueOrGap enforces.
RecorderTypeOK ==
    /\ life \in [Procs -> {"new", "up", "stopping", "stopped", "crashed"}]
    /\ queue \in [Procs -> Seq(Item)]
    /\ submitted \in [Procs -> 0 .. MaxItems]
    /\ outcome \in [Procs -> Seq({"buffered", "gap", "late"})]
    /\ pending \in [Procs -> SUBSET Lossy]
    /\ flushing \in [Procs -> SUBSET Lossy]
    /\ workerAt \in [Procs -> WorkerPCs]
    /\ started \in [Procs -> BOOLEAN] /\ ready \in [Procs -> BOOLEAN]
    /\ clean \in [Procs -> BOOLEAN] /\ gapReady \in [Procs -> BOOLEAN]
    /\ marker \in [Procs -> MarkerStates]
    /\ intents \in SUBSET Procs /\ orphans \in BOOLEAN
    /\ gapLock \in LockStates /\ holder \in Procs \cup {NoProc}
    /\ gapJson \in [state : GapStates, counts : SUBSET Lossy]
    /\ stored \in Seq(Lossy)
    /\ lease \in BOOLEAN /\ leases \in 0 .. MaxLeases
    /\ ioFaults \in 0 .. MaxIoFaults /\ processCrashes \in 0 .. MaxProcessCrashes
    /\ reader \in [pc : ReaderPCs, unscanned : SUBSET Procs,
                    crashed : BOOLEAN, locked : BOOLEAN,
                    lockState : LockStates, json : GapStates,
                    result : {"pending", "none", "present", "unknown"},
                    evident : BOOLEAN]
    /\ \A p \in Procs : Len(queue[p]) <= MaxBytes /\ QueuedBatches(p) <= MaxBatches

\* The store receives the items of a process in the order of submission and
\* none of them twice, whatever fails and however often the lease makes the
\* worker try again; so a retraction follows the batch it retracts.
AcceptedInOrder ==
    \A i, j \in DOMAIN stored :
        i < j /\ stored[i][1] = stored[j][1] => stored[i][2] < stored[j][2]

\* No item is reported as dropped that the store has accepted, or that is
\* still waiting in the queue.
CountsHonest ==
    LET dropped == gapJson.counts \cup
                   UNION {pending[p] \cup flushing[p] : p \in Procs} IN
    /\ dropped \cap StoredSet = {}
    /\ \A p \in Procs : dropped \cap QueuedIds(p) = {}

\* What read_recording_gap answers while nothing else moves.
Status ==
    LET live(p) == Alive(p) /\ ready[p]
        uncertain == \E p \in Procs :
            \/ marker[p] = "torn"
            \/ marker[p] \in {"pending", "unknown"} /\ live(p)
        crashed == \E p \in Procs : marker[p] # "absent" /\ ~ live(p)
    IN IF \/ uncertain \/ IntentOnDisk \/ holder # NoProc
          \/ gapJson.state = "missing" /\ gapLock # "missing"
       THEN "unknown"
       ELSE Verdict(gapJson.state, gapLock, crashed)

\* When nothing failed and every process has stopped, the record counts
\* exactly the items that were lost, whichever processes raced to add theirs,
\* and the status says so without a false alarm.
GapExact ==
    (/\ ioFaults = 0 /\ processCrashes = 0
     /\ \E p \in Procs : life[p] = "stopped"
     /\ \A p \in Procs : life[p] \in {"new", "stopped"})
    => /\ gapJson.counts = Losses
       /\ Status = (IF Losses = {} THEN "none" ELSE "present")

\* An item that is neither stored nor in the memory of its process has left
\* evidence: the status is not "none". The exceptions are a process that died
\* before it had a marker and an item submitted after the worker stopped.
EvidenceKept == Losses # {} => Status # "none"

\* A read that began when a loss was evident does not answer "none", however
\* its steps interleave with those of the recorders.
ReadNotFooled ==
    reader.pc = "done" /\ reader.evident => reader.result # "none"

\* The header of the coordinator: the evidence must exist before a committed
\* event can be lost to a crash. Here no process is excepted.
NoSilentLoss == UNION {LossOf(p) : p \in Procs} # {} => Status # "none"

\* Shutdown joins the worker: it ends although maintenance keeps its lease,
\* and although every durable write may fail.
ShutdownEnds ==
    \A p \in Procs : life[p] = "stopping" ~> life[p] \in {"stopped", "crashed"}

\* Unless maintenance keeps its lease for ever, what is queued is persisted or
\* becomes a gap, although writes fail.
QueueDrains ==
    <>[]lease \/ \A p \in Procs : queue[p] # <<>> ~> queue[p] = <<>>

\* What a reader of the recording state is told never hides an item that was
\* lost: the evidence of a loss stays on disk until it is counted, the count is
\* exact, and a reader that races the writers is not shown less.
EvidenceHonest == EvidenceKept /\ GapExact /\ ReadNotFooled

\* The worker makes progress: what is queued is written or becomes a gap, and a
\* process that is told to stop stops.
RecorderProgress == QueueDrains /\ ShutdownEnds

=============================================================================
