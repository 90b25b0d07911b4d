------------------------ MODULE OperationsProofs -----------------------------
(***************************************************************************)
(* Proofs about what a user's commands run: the operation engine, the two  *)
(* command lines that drive it and the daemon, the rebuild operation with  *)
(* its compatibility matrix, and the status report.                        *)
(*                                                                         *)
(* The engine, for every phase machine, every set of runners and           *)
(* cancellers and every bound: the inductive invariant Inv, the invariants *)
(* that follow from it, and the refinement of OperationContract.           *)
(*                                                                         *)
(* The maintenance command line (CommandLine): a clear or a restore        *)
(* replaces only what its user agreed to lose.  The control tool           *)
(* (DaemonControl): a verification leaves no daemon of its own running.    *)
(* Neither is inductive.  What was agreed travels from the prompt to the   *)
(* record and from the record to the one executor that may run it          *)
(* (AgreedInv, RunnerInv); which daemon the stop at the end of a           *)
(* verification reaches depends on the pid file, and the pid file on every *)
(* step since the daemon was spawned (ChildrenTracked).  A shell that says *)
(* that its executor left without an outcome is right, because the record  *)
(* was loaded again after the executor was found gone (WatchInv).          *)
(*                                                                         *)
(* The rebuild (RebuildOperation): RebuildSound, from RebuildInv.  The     *)
(* matrix and the status report have no state, so what they promise is a   *)
(* fact about operators, proved for all identities and for everything that *)
(* can be read; MCOperations states it as an invariant of its behaviours,  *)
(* which is why this module extends it.                                    *)
(***************************************************************************)
EXTENDS MCOperations, CommandLine, TLAPS

Doomed == op.cancel_requested \/ op.state = "cancelled"

\* Only the lock holder runs, and each kind of actor stays in its own code.
ControlInv ==
    /\ \A a \in Runners :
          /\ pc[a] \in {"idle", "loop", "step", "mutate", "cas"}
          /\ pc[a] # "idle" => runLock = a
          /\ pc[a] \in {"idle", "loop"} => job[a] = NoJob
          /\ pc[a] \in {"mutate", "cas"} =>
                job[a].fn \in {"checkpoint", "claim", "unsupported"}
                              \cup StepFns
    /\ \A a \in Cancellers :
          /\ pc[a] \in {"idle", "classify", "mutate", "cas", "done"}
          /\ pc[a] \in {"mutate", "cas"} =>
                job[a].fn \in {"cancel", "cancel_blocked"}

\* A record whose revision is unchanged is the record that was loaded.
CopyInv ==
    \A a \in Actors :
        pc[a] = "cas" => /\ copy[a].rev <= op.rev
                         /\ copy[a].rev = op.rev => copy[a] = op

\* A runner that found the type unregistered still owns a running record.
UnsupportedInv ==
    \A a \in Runners :
        pc[a] \in {"mutate", "cas"} /\ job[a].fn = "unsupported"
            => op.state = "running"

\* Before creation there is no actor; a queued operation has not moved.
BirthInv ==
    /\ op.state = "absent" => /\ op = NoRecord
                              /\ \A a \in Actors : pc[a] = "idle"
                              /\ executed = {}
                              /\ \A p \in Params : created[p] = "none"
    /\ op.state = "queued" => op.phase = 1

\* A cancelled or cancelling operation stays clear of the irreversible phases.
DoomInv ==
    Doomed => /\ op.state # "succeeded"
              /\ op.phase < Irreversible \/ op.phase = CancelPhase

\* What has been executed, relative to the phase the record is in.
ExecutedInv ==
    /\ \A p \in executed : /\ p <= op.phase
                           /\ Doomed => p < Irreversible \/ p = CancelPhase
    /\ \A q \in Phases :
          q < op.phase => \/ q \in executed
                          \/ op.phase = CancelPhase /\ op.cancel_requested
    /\ \A a \in Runners :
          pc[a] \in {"mutate", "cas"} /\ job[a].fn \in StepFns
              => job[a].phase \in executed

Inv ==
    /\ TypeOK
    /\ ControlInv
    /\ CopyInv
    /\ StepOwnsRecord
    /\ UnsupportedInv
    /\ BirthInv
    /\ DoomInv
    /\ CancelNeverOverwritten
    /\ ExecutedInv
    /\ NoPhaseSkipped
    /\ CreatorsAgree

-----------------------------------------------------------------------------
(***************************************************************************)
(* The transforms.                                                         *)
(***************************************************************************)

\* The phase machine: reversible phases come first, and compensation, when
\* there is one, follows the irreversible phase.
LEMMA PhaseFacts ==
    /\ Phases \subseteq Nat \ {0}
    /\ 1 \in Phases /\ NPhases \in Phases
    /\ Irreversible \in Phases /\ Irreversible > 1 /\ Irreversible <= NPhases
    /\ CancelPhase # NoPhase =>
          /\ CancelPhase \in Phases
          /\ CancelPhase > Irreversible
    /\ NoPhase \notin Phases
    /\ \A p \in Phases : p <= NPhases /\ (p # NPhases => p + 1 \in Phases)
  BY PhaseAssumption DEF PhaseAssumption, Phases, NoPhase

\* Every record a transform produces is well formed and keeps the identity of
\* the operation: _write_record's validation never rejects a mutation.
LEMMA TransformType ==
    ASSUME TypeOK,
           NEW a \in Actors, NEW r \in Record, NEW new \in Transform(a, r)
    PROVE  new \in Record /\ new.rev = r.rev /\ new.params = r.params
<1>1. job[a] \in Job /\ retrying[a] \in BOOLEAN
  BY DEF TypeOK
<1>2. \A phase \in Phases, x \in BOOLEAN :
         \A q \in ApplyStepResult(r, phase, x) :
            q \in Record /\ q.rev = r.rev /\ q.params = r.params
  BY PhaseAssumption
     DEF PhaseAssumption, ApplyStepResult, Record, Phases, States, Terminal
<1>3. \A q \in CancelCheckpoint(r) :
         q \in Record /\ q.rev = r.rev /\ q.params = r.params
  BY PhaseFacts DEF CancelCheckpoint, Record, States, Terminal
<1>4. \A phase \in Phases, x \in {"blocked", "failed"} :
         \A q \in MarkStepError(r, phase, x) :
            q \in Record /\ q.rev = r.rev /\ q.params = r.params
  BY <1>3 DEF MarkStepError, Record, States, Terminal
<1>5. \A x \in BOOLEAN : \A q \in ClaimAndStart(r, x) :
         q \in Record /\ q.rev = r.rev /\ q.params = r.params
  BY DEF ClaimAndStart, Record, States, Terminal
<1>6. \A q \in FailUnsupported(r) \cup CancelBlocked(r) \cup RequestCancel(r) :
         q \in Record /\ q.rev = r.rev /\ q.params = r.params
  BY DEF FailUnsupported, CancelBlocked, RequestCancel, Record, States,
         Terminal
<1> QED
  BY <1>1, <1>2, <1>3, <1>4, <1>5, <1>6 DEF Transform, Job

(***************************************************************************)
(* What a successful write makes of the record. WriteOK(r) collects, for a *)
(* record r about to replace op, everything the invariant says of op.      *)
(***************************************************************************)
DoomedRec(r) == r.cancel_requested \/ r.state = "cancelled"

WriteOK(r) ==
    /\ r.state # "absent"
    /\ r.state = "queued" => r.phase = 1
    /\ op.cancel_requested => r.cancel_requested
    /\ Doomed => DoomedRec(r)
    /\ DoomedRec(r) => /\ r.state # "succeeded"
                       /\ r.phase < Irreversible \/ r.phase = CancelPhase
    /\ \A p \in executed :
          /\ p <= r.phase
          /\ DoomedRec(r) => p < Irreversible \/ p = CancelPhase
    /\ \A q \in Phases :
          q < r.phase => \/ q \in executed
                         \/ r.phase = CancelPhase /\ r.cancel_requested
    /\ r.state = "succeeded" => executed = Phases

\* What is written is a step of the documented state table from a live record,
\* never moves the phase back, and dooms only a reversible operation.
WriteLegal(r) ==
    /\ op.state \in {"queued", "running", "blocked"}
    /\ r.state = op.state \/ r.state \in Successors[op.state]
    /\ r.phase >= op.phase
    /\ DoomedRec(r) => Doomed \/ op.phase < Irreversible
    /\ r.state = "failed" => /\ r.phase = op.phase
                             /\ r.cancel_requested = op.cancel_requested

\* The typed fields of the record on disk.
LEMMA RecordFacts ==
    ASSUME TypeOK
    PROVE  /\ op \in Record
           /\ op.state \in States /\ op.phase \in Phases /\ op.phase \in Nat
           /\ op.cancel_requested \in BOOLEAN /\ op.rev \in Nat
           /\ executed \subseteq Phases /\ executed \subseteq Nat
  BY PhaseFacts DEF TypeOK, Record

\* A step's result, applied to the running record the step was executed for.
LEMMA ApplyOK ==
    ASSUME Inv, NEW x \in BOOLEAN,
           NEW r \in ApplyStepResult(op, op.phase, x),
           op.state = "running", op.phase \in executed
    PROVE  WriteOK(r) /\ WriteLegal(r)
<1> USE RecordFacts, PhaseFacts
<1> USE DEF Inv, DoomInv, ExecutedInv, BirthInv, WriteOK, WriteLegal, Doomed,
            DoomedRec, States, Terminal, Successors
<1>1. CASE r = op
  BY <1>1
<1>2. CASE /\ op.phase = CancelPhase /\ op.cancel_requested
           /\ r = [op EXCEPT !.state = "cancelled"]
  BY <1>2 DEF Record
<1>3. CASE /\ op.phase = NPhases
           /\ ~ (op.phase = CancelPhase /\ op.cancel_requested)
           /\ ~ (op.cancel_requested /\ IsCancelable(op)
                                     /\ op.phase # CancelPhase)
           /\ r = [op EXCEPT !.state = "succeeded"]
  <2>1. ~ op.cancel_requested
    BY <1>3 DEF IsCancelable
  <2>2. \A q \in Phases : q < op.phase \/ q = op.phase
    BY <1>3
  <2>3. executed = Phases
    BY <1>3, <2>1, <2>2
  <2> QED
    BY <1>3, <2>1, <2>3 DEF Record
<1>4. CASE /\ op.phase # NPhases
           /\ ~ (op.phase = CancelPhase /\ op.cancel_requested)
           /\ ~ (op.cancel_requested /\ IsCancelable(op)
                                     /\ op.phase # CancelPhase)
           /\ r = [op EXCEPT !.phase = op.phase + 1]
  <2>1. ~ op.cancel_requested
    BY <1>4 DEF IsCancelable
  <2>2. /\ r.phase = op.phase + 1 /\ r.state = "running"
        /\ ~ r.cancel_requested /\ op.phase + 1 \in Phases
    BY <1>4, <2>1 DEF Record
  <2> QED
    BY <2>1, <2>2
<1> QED
  BY <1>1, <1>2, <1>3, <1>4 DEF ApplyStepResult

\* A pending cancel honoured at a checkpoint or when a step fails.
LEMMA CheckpointOK ==
    ASSUME Inv, NEW r \in CancelCheckpoint(op), op.state # "absent"
    PROVE  WriteOK(r) /\ WriteLegal(r)
<1> USE RecordFacts, PhaseFacts
<1>1. /\ op.cancel_requested /\ IsCancelable(op) /\ op.phase # CancelPhase
      /\ op.phase < Irreversible
  BY DEF CancelCheckpoint, IsCancelable, Inv, BirthInv
<1>2. CASE /\ CancelPhase # NoPhase
           /\ r = [op EXCEPT !.state = "running", !.phase = CancelPhase]
  <2>1. /\ r.phase = CancelPhase /\ r.state = "running" /\ r.cancel_requested
        /\ CancelPhase \in Phases /\ CancelPhase > Irreversible
    BY <1>1, <1>2 DEF Record
  <2> QED
    BY <1>1, <2>1
       DEF IsCancelable, Inv, ExecutedInv, WriteOK, WriteLegal, Doomed,
           DoomedRec, States, Terminal, Successors
<1>3. CASE r = [op EXCEPT !.state = "cancelled"]
  BY <1>1, <1>3
     DEF IsCancelable, Inv, DoomInv, ExecutedInv, WriteOK, WriteLegal, Doomed,
         DoomedRec, States, Terminal, Successors, Record
<1> QED
  BY <1>1, <1>2, <1>3 DEF CancelCheckpoint

\* The remaining transforms change only the state or the cancel request.
LEMMA StateChangeOK ==
    ASSUME Inv, op.state # "absent",
           NEW r, \/ \E x \in BOOLEAN : r \in ClaimAndStart(op, x)
                  \/ op.state = "running" /\ r \in FailUnsupported(op)
                  \/ r \in CancelBlocked(op)
                  \/ r \in RequestCancel(op)
                  \/ /\ op.state = "running"
                     /\ \E x \in {"blocked", "failed"} :
                           r = [op EXCEPT !.state = x]
    PROVE  WriteOK(r) /\ WriteLegal(r) /\ r.phase = op.phase
<1> USE RecordFacts, PhaseFacts
<1>1. CASE \E x \in BOOLEAN : r \in ClaimAndStart(op, x)
  BY <1>1
     DEF ClaimAndStart, Inv, DoomInv, ExecutedInv, WriteOK, WriteLegal, Doomed,
         DoomedRec, States, Terminal, Successors, Record
<1>2. CASE op.state = "running" /\ r \in FailUnsupported(op)
  BY <1>2
     DEF FailUnsupported, Inv, DoomInv, ExecutedInv, WriteOK, WriteLegal,
         Doomed, DoomedRec, States, Terminal, Successors, Record
<1>3. CASE r \in CancelBlocked(op)
  <2>1. /\ op.state = "blocked" /\ op.phase < Irreversible
        /\ r = [op EXCEPT !.state = "cancelled"]
    BY <1>3 DEF CancelBlocked, IsCancelable
  <2> QED
    BY <2>1
       DEF Inv, DoomInv, ExecutedInv, WriteOK, WriteLegal, Doomed, DoomedRec,
           States, Terminal, Successors, Record
<1>4. CASE r \in RequestCancel(op)
  <2>1. /\ op.state \in {"queued", "running", "blocked"}
        /\ op.phase < Irreversible
        /\ r = [op EXCEPT !.cancel_requested = TRUE]
    BY <1>4 DEF RequestCancel, ClassifyCancel, IsCancelable, Inv, BirthInv,
                States, Terminal
  <2>2. r.cancel_requested /\ r.state = op.state /\ r.phase = op.phase
    BY <2>1 DEF Record, Inv
  <2>3. \A p \in executed : p <= op.phase /\ p < Irreversible
    BY <2>1 DEF Inv, ExecutedInv
  <2>4. WriteOK(r)
    BY <2>1, <2>2, <2>3 DEF Inv, BirthInv, ExecutedInv, WriteOK, DoomedRec
  <2>5. WriteLegal(r)
    <3>1. r.phase >= op.phase
      BY <2>2 DEF Inv
    <3>2. r.state # "failed"
      BY <2>1, <2>2
    <3> QED
      BY <2>1, <2>2, <3>1, <3>2 DEF WriteLegal
  <2> QED
    BY <2>2, <2>4, <2>5
<1>5. CASE /\ op.state = "running"
           /\ \E x \in {"blocked", "failed"} : r = [op EXCEPT !.state = x]
  BY <1>5
     DEF Inv, DoomInv, ExecutedInv, WriteOK, WriteLegal, Doomed, DoomedRec,
         States, Terminal, Successors, Record
<1> QED
  BY <1>1, <1>2, <1>3, <1>4, <1>5

(***************************************************************************)
(* A compare-and-swap that succeeds. The revision test makes the loaded    *)
(* copy the record on disk, so the transform was applied to the freshest   *)
(* state.                                                                  *)
(***************************************************************************)
LEMMA WriteFacts ==
    ASSUME Inv, NEW a \in Actors, pc[a] = "cas", op.rev = copy[a].rev,
           NEW r \in Transform(a, copy[a])
    PROVE  /\ copy[a] = op
           /\ r \in Record /\ r.rev = op.rev /\ r.params = op.params
           /\ WriteOK(r) /\ WriteLegal(r)
           /\ a \in Cancellers =>
                 /\ r.phase = op.phase
                 /\ r.state = op.state \/ op.state = "blocked"
                 /\ job[a].fn = "cancel_blocked" => r.state = "cancelled"
                 /\ job[a].fn = "cancel" => r.cancel_requested
<1>1. copy[a] = op
  BY DEF Inv, CopyInv
<1>2. r \in Record /\ r.rev = op.rev /\ r.params = op.params
  BY <1>1, TransformType, RecordFacts DEF Inv
<1>3. op.state # "absent"
  BY DEF Inv, BirthInv
<1>4. retrying[a] \in BOOLEAN /\ job[a].phase \in Phases
  BY DEF Inv, TypeOK, Job
<1>5. CASE a \in Runners
  <2>1. job[a].fn \in {"checkpoint", "claim", "unsupported"} \cup StepFns
    BY <1>5 DEF Inv, ControlInv
  <2>2. a \notin Cancellers
    BY <1>5, ActorAssumption DEF ActorAssumption
  <2>3. CASE job[a].fn = "checkpoint"
    BY <1>1, <1>2, <1>3, <2>2, <2>3, CheckpointOK DEF Transform
  <2>4. CASE job[a].fn = "claim"
    BY <1>1, <1>2, <1>3, <1>4, <2>2, <2>4, StateChangeOK DEF Transform
  <2>5. CASE job[a].fn = "unsupported"
    <3>1. op.state = "running"
      BY <1>5, <2>5 DEF Inv, UnsupportedInv
    <3> QED
      BY <1>1, <1>2, <1>3, <2>2, <2>5, <3>1, StateChangeOK DEF Transform
  <2>6. CASE job[a].fn \in StepFns
    <3>1. /\ op.state = "running" /\ op.phase = job[a].phase
          /\ job[a].phase \in executed
      BY <1>5, <2>6 DEF Inv, StepOwnsRecord, InStep, ExecutedInv
    <3>2. CASE \E x \in BOOLEAN : r \in ApplyStepResult(op, op.phase, x)
      BY <1>1, <1>2, <2>2, <3>1, <3>2, ApplyOK
    <3>3. CASE \E x \in {"blocked", "failed"} :
                  r \in MarkStepError(op, op.phase, x)
      BY <1>1, <1>2, <1>3, <2>2, <3>1, <3>3, CheckpointOK, StateChangeOK
         DEF MarkStepError
    <3> QED
      BY <1>1, <2>6, <3>1, <3>2, <3>3 DEF Transform, StepFns
  <2> QED
    BY <2>1, <2>3, <2>4, <2>5, <2>6
<1>6. CASE a \in Cancellers
  <2>1. job[a].fn \in {"cancel", "cancel_blocked"}
    BY <1>6 DEF Inv, ControlInv
  <2>2. CASE job[a].fn = "cancel"
    <3>1. r \in RequestCancel(op)
      BY <1>1, <2>2 DEF Transform
    <3>2. r = [op EXCEPT !.cancel_requested = TRUE]
      BY <3>1 DEF RequestCancel
    <3> QED
      BY <1>1, <1>2, <1>3, <2>2, <3>1, <3>2, StateChangeOK, RecordFacts
         DEF Record, Inv
  <2>3. CASE job[a].fn = "cancel_blocked"
    <3>1. r \in CancelBlocked(op)
      BY <1>1, <2>3 DEF Transform
    <3>2. op.state = "blocked" /\ r = [op EXCEPT !.state = "cancelled"]
      BY <3>1 DEF CancelBlocked
    <3> QED
      BY <1>1, <1>2, <1>3, <2>3, <3>1, <3>2, StateChangeOK, RecordFacts
         DEF Record, Inv
  <2> QED
    BY <2>1, <2>2, <2>3
<1> QED
  BY <1>5, <1>6 DEF Actors

-----------------------------------------------------------------------------
(***************************************************************************)
(* Init and Next. Most steps leave the record and the history alone: Quiet *)
(* is what the invariant needs to know of them.                            *)
(***************************************************************************)
LEMMA InitInv == Init => Inv
<1> SUFFICES ASSUME Init PROVE Inv
  OBVIOUS
<1>1. op \in Record /\ op.state = "absent" /\ op.phase = 1
  BY PhaseFacts DEF Init, NoRecord, Record, States
<1>2. TypeOK
  <2>1. NoRecord \in Record /\ NoJob \in Job
    BY PhaseFacts DEF NoRecord, Record, States, NoJob, Job, Fns
  <2>2. /\ 0 \in 0 .. MaxCrashes /\ 0 \in 0 .. MaxProgress
        /\ 0 \in 0 .. MaxRetries
    BY BoundAssumption DEF BoundAssumption
  <2> QED
    BY <2>1, <2>2 DEF Init, TypeOK, PCs, Replies
<1>3. ~ Doomed /\ executed = {}
  BY DEF Init, Doomed, NoRecord
<1> QED
  BY <1>1, <1>2, <1>3, PhaseFacts
     DEF Init, Inv, ControlInv, CopyInv, StepOwnsRecord, InStep,
         UnsupportedInv, BirthInv, DoomInv, CancelNeverOverwritten,
         CancelPromised, ExecutedInv, NoPhaseSkipped, CreatorsAgree, Actors,
         Doomed, NoRecord, StepFns, NoJob

\* The part of the invariant that speaks of the record and the history only.
LEMMA QuietStep ==
    ASSUME Inv, UNCHANGED <<op, created, executed>>
    PROVE  /\ DoomInv' /\ NoPhaseSkipped' /\ CreatorsAgree'
           /\ \A p \in executed' :
                 /\ p <= op'.phase
                 /\ Doomed' => p < Irreversible \/ p = CancelPhase
           /\ \A q \in Phases :
                 q < op'.phase => \/ q \in executed'
                                  \/ /\ op'.phase = CancelPhase
                                     /\ op'.cancel_requested
  BY DEF Inv, DoomInv, NoPhaseSkipped, CreatorsAgree, ExecutedInv, Doomed

\* An invocation that ends, by itself or by a crash.
LEMMA ReturnInv ==
    ASSUME Inv, NEW a \in Runners, pc[a] # "idle", Return(a),
           UNCHANGED <<op, reply, created, executed>>,
           crashes' \in 0 .. MaxCrashes, UNCHANGED <<progressed, retries>>
    PROVE  Inv'
<1>1. op.state # "absent" /\ a \in Actors
  BY DEF Inv, BirthInv, Actors
<1>2. TypeOK'
  BY PhaseFacts
     DEF Inv, TypeOK, Return, NoJob, Job, Fns, PCs, Record, NoRecord, States
<1>3. \A b \in Runners : pc'[b] = "idle" /\ job'[b] = NoJob
  BY DEF Inv, ControlInv, Return, TypeOK, Actors
<1>4. \A b \in Cancellers : /\ pc'[b] = pc[b] /\ job'[b] = job[b]
                            /\ copy'[b] = copy[b]
  BY ActorAssumption DEF ActorAssumption, Return, Inv, TypeOK, Actors
<1>5. ControlInv' /\ StepOwnsRecord' /\ UnsupportedInv'
  BY <1>3, <1>4 DEF Inv, ControlInv, StepOwnsRecord, InStep, UnsupportedInv
<1>6. CopyInv'
  BY <1>3, <1>4 DEF Inv, CopyInv, Actors
<1>7. BirthInv' /\ CancelNeverOverwritten'
  BY <1>1 DEF Inv, BirthInv, CancelNeverOverwritten, CancelPromised
<1>8. ExecutedInv'
  BY <1>3, QuietStep DEF ExecutedInv
<1> QED
  BY <1>2, <1>5, <1>6, <1>7, <1>8, QuietStep DEF Inv


(***************************************************************************)
(* Moving(a, c, j, r): actor a moves to control point c of its own code,   *)
(* with mutate call j and loaded record r, and writes nothing.             *)
(***************************************************************************)
Moving(a, c, j, r) ==
    /\ pc' = [pc EXCEPT ![a] = c]
    /\ job' = [job EXCEPT ![a] = j]
    /\ copy' = [copy EXCEPT ![a] = r]
    /\ c \in PCs /\ j \in Job /\ r \in Record
    /\ c = "cas" => r = op
    /\ a \in Runners =>
          /\ c \in {"loop", "step", "mutate", "cas"}
          /\ c = "loop" => j = NoJob
          /\ runLock' = a
          /\ \A b \in Runners \ {a} : pc[b] = "idle"
          /\ c \in {"mutate", "cas"} =>
                j.fn \in {"checkpoint", "claim", "unsupported"} \cup StepFns
          /\ c = "step" \/ j.fn \in StepFns =>
                op.state = "running" /\ op.phase = j.phase
          /\ j.fn \in StepFns => j.phase \in executed'
          /\ j.fn = "unsupported" => op.state = "running"
    /\ a \in Cancellers =>
          /\ c \in {"classify", "mutate", "cas", "done"}
          /\ runLock' = runLock
          /\ c \in {"mutate", "cas"} => j.fn \in {"cancel", "cancel_blocked"}
    /\ UNCHANGED <<op, created, crashes>>

LEMMA MoveInv ==
    ASSUME Inv, NEW a \in Actors, op.state # "absent",
           NEW c, NEW j, NEW r, Moving(a, c, j, r),
           retrying' \in [Actors -> BOOLEAN], stepped' \in [Actors -> BOOLEAN],
           reply' \in [Cancellers -> Replies], CancelNeverOverwritten',
           progressed' \in 0 .. MaxProgress, retries' \in 0 .. MaxRetries,
           \/ executed' = executed
           \/ executed' = executed \cup {op.phase}
    PROVE  Inv'
<1> USE DEF Moving
<1>1. TypeOK'
  BY RecordFacts DEF Inv, TypeOK, Actors
<1>2. /\ pc'[a] = c /\ job'[a] = j /\ copy'[a] = r
      /\ \A b \in Actors \ {a} : /\ pc'[b] = pc[b] /\ job'[b] = job[b]
                                 /\ copy'[b] = copy[b]
  BY DEF Inv, TypeOK
<1>3. a \in Runners => a \notin Cancellers
  BY ActorAssumption DEF ActorAssumption
<1>4. ControlInv'
  BY <1>2, <1>3 DEF Inv, ControlInv, Actors
<1>5. StepOwnsRecord' /\ UnsupportedInv'
  BY <1>2, <1>3 DEF Inv, StepOwnsRecord, InStep, UnsupportedInv, Actors
<1>6. CopyInv'
  BY <1>2, RecordFacts DEF Inv, CopyInv
<1>7. BirthInv' /\ DoomInv' /\ CreatorsAgree'
  BY DEF Inv, BirthInv, DoomInv, Doomed, CreatorsAgree
<1>8. \A p \in executed' : /\ p <= op.phase
                           /\ Doomed => p < Irreversible \/ p = CancelPhase
  BY RecordFacts DEF Inv, ExecutedInv, DoomInv
<1>9. ExecutedInv'
  <2>1. Doomed' = Doomed
    BY DEF Doomed
  <2>2. \A b \in Runners :
           pc'[b] \in {"mutate", "cas"} /\ job'[b].fn \in StepFns
               => job'[b].phase \in executed'
    BY <1>2, <1>3 DEF Inv, ExecutedInv, Actors
  <2> QED
    BY <1>8, <2>1, <2>2 DEF Inv, ExecutedInv
<1>10. NoPhaseSkipped'
  <2>1. executed \subseteq executed' /\ executed' \subseteq Phases
    BY RecordFacts DEF Inv
  <2>2. op.state = "succeeded" => executed' = Phases
    BY <2>1 DEF Inv, NoPhaseSkipped
  <2>3. ASSUME NEW p \in executed'
        PROVE  \/ \A q \in 1 .. p : q \in executed'
               \/ p = CancelPhase /\ op.cancel_requested
    <3>1. CASE p \in executed
      BY <2>1, <3>1 DEF Inv, NoPhaseSkipped
    <3>2. CASE p = op.phase /\ p \in executed'
      <4>1. \A q \in 1 .. p : q \in Phases /\ (q < op.phase \/ q = p)
        BY <3>2, RecordFacts, PhaseFacts DEF Inv, Phases
      <4> QED
        BY <2>1, <3>2, <4>1 DEF Inv, ExecutedInv
    <3> QED
      BY <3>1, <3>2
  <2> QED
    BY <2>2, <2>3 DEF NoPhaseSkipped
<1> QED
  BY <1>1, <1>4, <1>5, <1>6, <1>7, <1>9, <1>10 DEF Inv

-----------------------------------------------------------------------------
(***************************************************************************)
(* One lemma per action of Next.                                           *)
(***************************************************************************)
LEMMA CreateInv ==
    ASSUME Inv, NEW p \in Params, CreateOperation(p)
    PROVE  Inv'
<1>1. CASE op.state = "absent" /\ op' = NewOperation(p)
  <2>1. /\ op' \in Record /\ op'.state = "queued" /\ op'.phase = 1
        /\ op'.params = p /\ ~ op'.cancel_requested
    BY <1>1, PhaseFacts DEF NewOperation, Record, States
  <2>2. /\ \A a \in Actors : pc'[a] = "idle"
        /\ executed' = {} /\ \A q \in Params : created[q] = "none"
    BY <1>1 DEF Inv, BirthInv, CreateOperation
  <2>3. TypeOK'
    BY <1>1, <2>1 DEF Inv, TypeOK, CreateOperation, bounds
  <2>4. \A c \in Cancellers : reply'[c] = reply[c]
    BY DEF CreateOperation
  <2>5. CancelNeverOverwritten'
    BY <1>1, <2>4
       DEF Inv, BirthInv, CancelNeverOverwritten, CancelPromised, NoRecord
  <2>6. CreatorsAgree'
    BY <1>1, <2>1, <2>2 DEF CreatorsAgree, CreateOperation, Inv, TypeOK
  <2>7. ControlInv' /\ CopyInv' /\ StepOwnsRecord' /\ UnsupportedInv'
    <3>1. \A a \in Runners : job'[a] = NoJob
      BY <2>2 DEF Inv, ControlInv, CreateOperation, Actors
    <3> QED
      BY <2>2, <3>1
         DEF ControlInv, CopyInv, StepOwnsRecord, InStep, UnsupportedInv,
             Actors
  <2>8. BirthInv' /\ DoomInv'
    BY <2>1 DEF BirthInv, DoomInv, Doomed
  <2>9. NoPhaseSkipped'
    BY <2>1, <2>2 DEF NoPhaseSkipped
  <2>10. ExecutedInv'
    <3>1. \A q \in Phases : ~ (q < 1)
      BY PhaseFacts
    <3> QED
      BY <2>1, <2>2, <3>1 DEF ExecutedInv, Actors
  <2> QED
    BY <2>3, <2>5, <2>6, <2>7, <2>8, <2>9, <2>10 DEF Inv
<1>2. CASE op.state # "absent" /\ op' = op
  <2>1. TypeOK' /\ CreatorsAgree'
    BY <1>2 DEF Inv, TypeOK, CreatorsAgree, CreateOperation, bounds
  <2>2. ControlInv' /\ CopyInv' /\ StepOwnsRecord' /\ UnsupportedInv'
    BY <1>2 DEF Inv, CreateOperation, ControlInv, CopyInv, StepOwnsRecord,
                InStep, UnsupportedInv
  <2>3. BirthInv' /\ DoomInv' /\ CancelNeverOverwritten'
    BY <1>2 DEF Inv, CreateOperation, BirthInv, DoomInv, Doomed,
                CancelNeverOverwritten, CancelPromised
  <2>4. ExecutedInv' /\ NoPhaseSkipped'
    BY <1>2 DEF Inv, CreateOperation, ExecutedInv, NoPhaseSkipped, Doomed
  <2> QED
    BY <2>1, <2>2, <2>3, <2>4 DEF Inv
<1> QED
  BY <1>1, <1>2 DEF CreateOperation

\* NoRecord and NoJob are the values of an actor without local variables.
LEMMA EmptyLocals == NoRecord \in Record /\ NoJob \in Job
  BY PhaseFacts DEF NoRecord, Record, States, NoJob, Job, Fns

\* Only the lock holder is active.
LEMMA OneRunner ==
    ASSUME Inv, NEW a \in Runners, pc[a] # "idle"
    PROVE  /\ runLock = a /\ \A b \in Runners \ {a} : pc[b] = "idle"
           /\ op.state # "absent" /\ a \in Actors /\ a \notin Cancellers
  BY ActorAssumption
     DEF ActorAssumption, Inv, ControlInv, BirthInv, Actors

LEMMA AcquireInv ==
    ASSUME Inv, NEW a \in Runners, NEW retry \in BOOLEAN,
           AcquireRunLock(a, retry)
    PROVE  Inv'
<1>1. a \in Actors /\ a \notin Cancellers
  BY ActorAssumption DEF ActorAssumption, Actors
<1>2. \A b \in Runners \ {a} : pc[b] = "idle"
  BY ActorAssumption DEF ActorAssumption, Inv, ControlInv, AcquireRunLock
<1>3. job[a] = NoJob /\ copy[a] \in Record
  BY <1>1 DEF Inv, TypeOK, ControlInv, AcquireRunLock
<1>4. Moving(a, "loop", NoJob, copy[a])
  <2>1. /\ job' = [job EXCEPT ![a] = NoJob]
        /\ copy' = [copy EXCEPT ![a] = copy[a]]
    BY <1>1, <1>3 DEF Inv, TypeOK, AcquireRunLock
  <2> QED
    BY <1>1, <1>2, <1>3, <2>1, EmptyLocals
       DEF Moving, AcquireRunLock, PCs, NoJob, StepFns
<1>5. /\ retrying' \in [Actors -> BOOLEAN] /\ stepped' \in [Actors -> BOOLEAN]
      /\ reply' \in [Cancellers -> Replies]
      /\ progressed' \in 0 .. MaxProgress
  BY DEF Inv, TypeOK, AcquireRunLock
<1>6. retries' \in 0 .. MaxRetries
  BY BoundAssumption DEF BoundAssumption, Inv, TypeOK, AcquireRunLock
<1>7. CancelNeverOverwritten'
  BY DEF Inv, CancelNeverOverwritten, CancelPromised, AcquireRunLock
<1> QED
  BY <1>1, <1>4, <1>5, <1>6, <1>7, MoveInv DEF AcquireRunLock

LEMMA LoopHeadInv ==
    ASSUME Inv, NEW a \in Runners, LoopHead(a)
    PROVE  Inv'
<1>1. /\ runLock = a /\ \A b \in Runners \ {a} : pc[b] = "idle"
      /\ op.state # "absent" /\ a \in Actors /\ a \notin Cancellers
  BY OneRunner DEF LoopHead
<1>2. CASE LoopReturns(a) /\ Return(a)
  BY <1>1, <1>2, ReturnInv DEF LoopHead, bounds, Inv, TypeOK
<1>3. CASE ~ LoopReturns(a)
  <2>1. \E c \in {"mutate", "step"}, f \in Fns :
           Moving(a, c, [fn |-> f, phase |-> op.phase], copy[a])
    <3>1. /\ op.phase \in Phases /\ copy[a] \in Record
          /\ copy' = [copy EXCEPT ![a] = copy[a]]
      BY <1>1, <1>3, RecordFacts DEF Inv, TypeOK, LoopHead, LoopReturns, Return
    <3> QED
      BY <1>1, <1>3, <3>1
         DEF LoopHead, StartMutate, Moving, PCs, Job, Fns, StepFns, bounds
  <2>2. CancelNeverOverwritten'
    BY DEF Inv, CancelNeverOverwritten, CancelPromised, LoopHead
  <2> QED
    BY <1>1, <1>3, <2>1, <2>2, MoveInv
       DEF LoopHead, bounds, Inv, TypeOK
<1> QED
  BY <1>2, <1>3 DEF LoopHead

LEMMA StopInv ==
    ASSUME Inv, NEW a \in Runners, StopAfterStep(a)
    PROVE  Inv'
  BY ReturnInv DEF StopAfterStep, bounds, Inv, TypeOK

LEMMA CrashInv ==
    ASSUME Inv, NEW a \in Runners, CrashRunner(a)
    PROVE  Inv'
<1>1. crashes' \in 0 .. MaxCrashes
  BY BoundAssumption DEF BoundAssumption, CrashRunner, Inv, TypeOK
<1> QED
  BY <1>1, ReturnInv DEF CrashRunner

LEMMA ExecuteInv ==
    ASSUME Inv, NEW a \in Runners, NEW out \in StepFns,
           ExecuteStep(a, out)
    PROVE  Inv'
<1>1. /\ runLock = a /\ \A b \in Runners \ {a} : pc[b] = "idle"
      /\ op.state # "absent" /\ a \in Actors /\ a \notin Cancellers
  BY OneRunner DEF ExecuteStep
<1>2. op.state = "running" /\ op.phase = job[a].phase
  BY DEF Inv, StepOwnsRecord, InStep, ExecuteStep
<1>3. op.phase \in Phases /\ copy[a] \in Record /\ job[a] \in Job
  BY <1>1, RecordFacts DEF Inv, TypeOK
<1>4. Moving(a, "mutate", [fn |-> out, phase |-> op.phase], copy[a])
  <2>1. /\ job' = [job EXCEPT ![a] = [fn |-> out, phase |-> op.phase]]
        /\ copy' = [copy EXCEPT ![a] = copy[a]]
    <3>1. job' = [job EXCEPT ![a] = [job[a] EXCEPT !.fn = out]]
      BY DEF ExecuteStep
    <3>2. [job[a] EXCEPT !.fn = out] = [fn |-> out, phase |-> op.phase]
      BY <1>2, <1>3 DEF Job
    <3> QED
      BY <1>1, <3>1, <3>2 DEF Inv, TypeOK, ExecuteStep
  <2>2. executed' = executed \cup {op.phase}
    BY <1>2 DEF ExecuteStep
  <2> QED
    BY <1>1, <1>2, <1>3, <2>1, <2>2
       DEF ExecuteStep, Moving, PCs, Job, Fns, StepFns
<1>5. /\ retrying' \in [Actors -> BOOLEAN] /\ stepped' \in [Actors -> BOOLEAN]
      /\ reply' \in [Cancellers -> Replies] /\ retries' \in 0 .. MaxRetries
  BY <1>1 DEF Inv, TypeOK, ExecuteStep
<1>6. progressed' \in 0 .. MaxProgress
  BY BoundAssumption DEF BoundAssumption, Inv, TypeOK, ExecuteStep
<1>7. CancelNeverOverwritten'
  BY DEF Inv, CancelNeverOverwritten, CancelPromised, ExecuteStep
<1>8. executed' = executed \cup {op.phase}
  BY <1>2 DEF ExecuteStep
<1> QED
  BY <1>1, <1>4, <1>5, <1>6, <1>7, <1>8, MoveInv

LEMMA StartCancelInv ==
    ASSUME Inv, NEW a \in Cancellers, StartCancel(a)
    PROVE  Inv'
<1>1. a \in Actors /\ a \notin Runners
  BY ActorAssumption DEF ActorAssumption, Actors
<1>2. Moving(a, "classify", job[a], copy[a])
  BY <1>1 DEF Moving, StartCancel, PCs, Inv, TypeOK, bounds
<1>3. CancelNeverOverwritten'
  BY DEF Inv, CancelNeverOverwritten, CancelPromised, StartCancel
<1> QED
  BY <1>1, <1>2, <1>3, MoveInv DEF StartCancel, Inv, TypeOK, bounds

LEMMA ClassifyInv ==
    ASSUME Inv, NEW a \in Cancellers, Classify(a)
    PROVE  Inv'
<1>1. /\ a \in Actors /\ a \notin Runners
      /\ op.state # "absent" /\ op.phase \in Phases
  BY ActorAssumption, RecordFacts
     DEF ActorAssumption, Actors, Inv, BirthInv, Classify
<1>2. job[a] \in Job /\ copy[a] \in Record
  BY <1>1 DEF Inv, TypeOK
<1>3. copy' = [copy EXCEPT ![a] = copy[a]]
  BY <1>1 DEF Inv, TypeOK, Classify
<1>4. CASE ClassifyCancel(op) # "requested"
  <2>1. Moving(a, "done", job[a], copy[a])
    <3>1. job' = [job EXCEPT ![a] = job[a]] /\ pc' = [pc EXCEPT ![a] = "done"]
      BY <1>1, <1>4 DEF Classify, Inv, TypeOK
    <3> QED
      BY <1>1, <1>2, <1>3, <3>1 DEF Moving, Classify, PCs, bounds
  <2>2. /\ reply' \in [Cancellers -> Replies]
        /\ \A c \in Cancellers : reply'[c] = "requested"
                                    => reply[c] = "requested"
    BY <1>4 DEF Classify, ClassifyCancel, Replies, Inv, TypeOK
  <2>3. CancelNeverOverwritten'
    BY <2>2 DEF Inv, CancelNeverOverwritten, CancelPromised, Classify
  <2> QED
    BY <1>1, <2>1, <2>2, <2>3, MoveInv DEF Classify, Inv, TypeOK, bounds
<1>5. CASE ClassifyCancel(op) = "requested"
  <2>1. \E f \in {"cancel", "cancel_blocked"} :
           Moving(a, "mutate", [fn |-> f, phase |-> op.phase], copy[a])
    BY <1>1, <1>2, <1>3, <1>5
       DEF Moving, Classify, StartMutate, PCs, Job, Fns, bounds
  <2>2. reply' = reply
    BY <1>5 DEF Classify
  <2>3. CancelNeverOverwritten'
    BY <2>2 DEF Inv, CancelNeverOverwritten, CancelPromised, Classify
  <2> QED
    BY <1>1, <2>1, <2>2, <2>3, MoveInv DEF Classify, Inv, TypeOK, bounds
<1> QED
  BY <1>4, <1>5

\* An actor continues after mutate returned record r without writing.
LEMMA ContinueInv ==
    ASSUME Inv, NEW a \in Actors, pc[a] = "mutate", Continue(a, op),
           UNCHANGED <<op, created, executed, bounds>>
    PROVE  Inv'
<1>1. op.state # "absent"
  BY DEF Inv, BirthInv
<1>2. CASE a \in Runners /\ RunnerContinue(a, op)
  <2>1. /\ runLock = a /\ \A b \in Runners \ {a} : pc[b] = "idle"
        /\ a \notin Cancellers
    BY <1>2, OneRunner
  <2>2. CASE Return(a)
    BY <1>2, <2>2, ReturnInv DEF RunnerContinue, bounds, Inv, TypeOK
  <2>3. CASE /\ ~ RunnerReturns(op, job[a].fn)
             /\ pc' = [pc EXCEPT ![a] = "loop"]
             /\ job' = [job EXCEPT ![a] = NoJob]
             /\ copy' = [copy EXCEPT ![a] = NoRecord]
             /\ UNCHANGED <<runLock, retrying, stepped>>
    <3>1. Moving(a, "loop", NoJob, NoRecord)
      BY <1>2, <2>1, <2>3, EmptyLocals DEF Moving, PCs, NoJob, StepFns, bounds
    <3>2. CancelNeverOverwritten'
      BY <1>2 DEF Inv, CancelNeverOverwritten, CancelPromised, RunnerContinue
    <3> QED
      BY <1>1, <1>2, <2>3, <3>1, <3>2, MoveInv
         DEF RunnerContinue, Inv, TypeOK, bounds
  <2> QED
    BY <1>2, <2>2, <2>3 DEF RunnerContinue
<1>3. CASE a \in Cancellers /\ CancellerContinue(a, op)
  <2>1. a \notin Runners
    BY <1>3, ActorAssumption DEF ActorAssumption
  <2>2. \E c \in {"classify", "done"} : Moving(a, c, NoJob, NoRecord)
    BY <1>3, <2>1, EmptyLocals DEF Moving, CancellerContinue, PCs, bounds
  <2>3. reply' \in [Cancellers -> Replies]
    BY <1>3 DEF CancellerContinue, Replies, Inv, TypeOK
  <2>4. CancelNeverOverwritten'
    <3>1. CASE CancelTookEffect(op, job[a].fn)
      BY <1>3, <3>1 DEF CancelTookEffect, CancelNeverOverwritten
    <3>2. CASE ~ CancelTookEffect(op, job[a].fn)
      BY <1>3, <3>2 DEF CancellerContinue, CancelNeverOverwritten,
                        CancelPromised, Inv
    <3> QED
      BY <3>1, <3>2
  <2> QED
    BY <1>1, <1>3, <2>2, <2>3, <2>4, MoveInv
       DEF CancellerContinue, Inv, TypeOK, bounds
<1> QED
  BY <1>2, <1>3 DEF Continue

LEMMA MutateLoadInv ==
    ASSUME Inv, NEW a \in Actors, MutateLoad(a)
    PROVE  Inv'
<1>1. CASE Transform(a, op) = {} /\ Continue(a, op)
  BY <1>1, ContinueInv DEF MutateLoad
<1>2. CASE /\ pc' = [pc EXCEPT ![a] = "cas"]
           /\ copy' = [copy EXCEPT ![a] = op]
           /\ UNCHANGED <<runLock, job, retrying, stepped, reply>>
  <2>1. op.state # "absent" /\ op \in Record /\ job[a] \in Job
    BY RecordFacts DEF Inv, BirthInv, TypeOK, MutateLoad
  <2>2. job' = [job EXCEPT ![a] = job[a]]
    BY <1>2 DEF Inv, TypeOK
  <2>3. Moving(a, "cas", job[a], op)
    <3>1. ASSUME a \in Runners
          PROVE  /\ runLock = a /\ \A b \in Runners \ {a} : pc[b] = "idle"
                 /\ a \notin Cancellers
                 /\ job[a].fn \in {"checkpoint", "claim", "unsupported"}
                                  \cup StepFns
                 /\ job[a].fn \in StepFns => /\ op.state = "running"
                                             /\ op.phase = job[a].phase
                                             /\ job[a].phase \in executed
                 /\ job[a].fn = "unsupported" => op.state = "running"
      BY <3>1, OneRunner
         DEF Inv, ControlInv, StepOwnsRecord, InStep, UnsupportedInv,
             ExecutedInv, MutateLoad
    <3>2. ASSUME a \in Cancellers
          PROVE  a \notin Runners /\ job[a].fn \in {"cancel", "cancel_blocked"}
      BY <3>2, ActorAssumption DEF ActorAssumption, Inv, ControlInv, MutateLoad
    <3> QED
      BY <1>2, <2>1, <2>2, <3>1, <3>2 DEF Moving, MutateLoad, PCs, bounds
  <2>4. CancelNeverOverwritten'
    BY <1>2 DEF Inv, CancelNeverOverwritten, CancelPromised, MutateLoad
  <2> QED
    BY <1>2, <2>1, <2>3, <2>4, MoveInv DEF MutateLoad, Inv, TypeOK, bounds
<1> QED
  BY <1>1, <1>2 DEF MutateLoad

LEMMA MutateWriteInv ==
    ASSUME Inv, NEW a \in Actors, MutateWrite(a)
    PROVE  Inv'
<1>1. CASE op.rev # copy[a].rev
  <2>1. op.state # "absent" /\ job[a] \in Job
    BY DEF Inv, BirthInv, TypeOK, MutateWrite
  <2>2. job' = [job EXCEPT ![a] = job[a]]
    BY <1>1 DEF Inv, TypeOK, MutateWrite
  <2>3. Moving(a, "mutate", job[a], NoRecord)
    <3>1. ASSUME a \in Runners
          PROVE  /\ runLock = a /\ \A b \in Runners \ {a} : pc[b] = "idle"
                 /\ a \notin Cancellers
                 /\ job[a].fn \in {"checkpoint", "claim", "unsupported"}
                                  \cup StepFns
                 /\ job[a].fn \in StepFns => /\ op.state = "running"
                                             /\ op.phase = job[a].phase
                                             /\ job[a].phase \in executed
                 /\ job[a].fn = "unsupported" => op.state = "running"
      BY <3>1, OneRunner
         DEF Inv, ControlInv, StepOwnsRecord, InStep, UnsupportedInv,
             ExecutedInv, MutateWrite
    <3>2. ASSUME a \in Cancellers
          PROVE  a \notin Runners /\ job[a].fn \in {"cancel", "cancel_blocked"}
      BY <3>2, ActorAssumption
         DEF ActorAssumption, Inv, ControlInv, MutateWrite
    <3> QED
      BY <1>1, <2>1, <2>2, <3>1, <3>2, EmptyLocals
         DEF Moving, MutateWrite, PCs, bounds
  <2>4. CancelNeverOverwritten'
    BY <1>1 DEF Inv, CancelNeverOverwritten, CancelPromised, MutateWrite
  <2> QED
    BY <1>1, <2>1, <2>3, <2>4, MoveInv DEF MutateWrite, Inv, TypeOK, bounds
<1>2. CASE op.rev = copy[a].rev
  <2>1. PICK r \in Transform(a, copy[a]) :
           op' = [r EXCEPT !.rev = r.rev + 1] /\ Continue(a, r)
    BY <1>2 DEF MutateWrite
  <2>2. /\ r \in Record /\ r.rev = op.rev /\ r.params = op.params
        /\ WriteOK(r)
        /\ a \in Cancellers =>
              /\ r.phase = op.phase
              /\ r.state = op.state \/ op.state = "blocked"
              /\ job[a].fn = "cancel_blocked" => r.state = "cancelled"
              /\ job[a].fn = "cancel" => r.cancel_requested
    BY <1>2, <2>1, WriteFacts DEF MutateWrite
  <2>3. /\ op' \in Record /\ op'.rev = op.rev + 1 /\ op.rev \in Nat
        /\ op'.state = r.state /\ op'.phase = r.phase /\ op'.params = op.params
        /\ op'.cancel_requested = r.cancel_requested
    BY <2>1, <2>2, RecordFacts DEF Record, Inv
  <2>4. /\ UNCHANGED <<created, executed, crashes, progressed, retries>>
        /\ pc[a] = "cas"
    BY DEF MutateWrite, bounds
  <2>5. TypeOK'
    BY ZenonT(60), <2>1, <2>3, <2>4, EmptyLocals
       DEF Inv, TypeOK, Continue, RunnerContinue, CancellerContinue, Return,
           PCs, Replies
  <2>6. /\ \A b \in Actors \ {a} : /\ pc'[b] = pc[b] /\ job'[b] = job[b]
                                   /\ copy'[b] = copy[b]
        /\ pc'[a] \in {"idle", "loop", "classify", "done"} /\ job'[a] = NoJob
    BY <2>1 DEF Inv, TypeOK, Continue, RunnerContinue, CancellerContinue,
                Return
  <2>7. DoomInv' /\ BirthInv'
    BY <2>2, <2>3 DEF WriteOK, DoomInv, BirthInv, Doomed, DoomedRec
  <2>8. NoPhaseSkipped' /\ CreatorsAgree'
    BY <2>2, <2>3, <2>4 DEF WriteOK, Inv, NoPhaseSkipped, CreatorsAgree
  <2>9. CopyInv'
    BY <2>3, <2>4, <2>6 DEF Inv, CopyInv, TypeOK, Record
  <2>10. CASE a \in Runners
    <3>1. /\ runLock = a /\ \A b \in Runners \ {a} : pc[b] = "idle"
          /\ a \notin Cancellers
      BY <2>4, <2>10, OneRunner
    <3>2. RunnerContinue(a, r)
      BY <2>1, <3>1 DEF Continue
    <3>3. \A b \in Runners : /\ pc'[b] \in {"idle", "loop"} /\ job'[b] = NoJob
                             /\ pc'[b] # "idle" => b = a /\ runLock' = a
      <4>1. \A b \in Runners \ {a} : pc'[b] = "idle" /\ job'[b] = NoJob
        BY <2>6, <3>1 DEF Inv, ControlInv, Actors
      <4>2. /\ pc'[a] \in {"idle", "loop"}
            /\ pc'[a] # "idle" => runLock' = a
        BY <3>1, <3>2 DEF RunnerContinue, Return, Inv, TypeOK
      <4> QED
        BY <2>6, <4>1, <4>2
    <3>4. ControlInv'
      BY <2>6, <3>1, <3>3 DEF Inv, ControlInv, Actors
    <3>5. StepOwnsRecord' /\ UnsupportedInv'
      BY <3>3 DEF StepOwnsRecord, InStep, UnsupportedInv
    <3>6. CancelNeverOverwritten'
      BY <2>2, <2>3, <3>2
         DEF RunnerContinue, WriteOK, Inv, CancelNeverOverwritten,
             CancelPromised, Doomed, DoomedRec
    <3>7. ExecutedInv'
      BY <2>2, <2>3, <2>4, <3>3
         DEF WriteOK, ExecutedInv, Doomed, DoomedRec
    <3> QED
      BY <2>5, <2>7, <2>8, <2>9, <3>4, <3>5, <3>6, <3>7 DEF Inv
  <2>11. CASE a \in Cancellers
    <3>1. a \notin Runners
      BY <2>11, ActorAssumption DEF ActorAssumption
    <3>2. CancellerContinue(a, r)
      BY <2>1, <3>1 DEF Continue
    <3>3. \A b \in Runners : pc'[b] = pc[b] /\ job'[b] = job[b]
      BY <2>6, <3>1 DEF Actors
    <3>4. ControlInv'
      <4>1. pc'[a] \in {"classify", "done"} /\ runLock' = runLock
        BY <3>2 DEF CancellerContinue, Inv, TypeOK
      <4> QED
        BY <2>6, <3>1, <3>3, <4>1 DEF Inv, ControlInv, Actors
    <3>5. StepOwnsRecord' /\ UnsupportedInv'
      BY <2>2, <2>3, <2>11, <3>3
         DEF Inv, StepOwnsRecord, InStep, UnsupportedInv
    <3>6. CancelNeverOverwritten'
      <4>1. DoomedRec(r)
        BY <2>2, <2>4, <2>11 DEF Inv, ControlInv, DoomedRec
      <4> QED
        BY <2>3, <4>1 DEF CancelNeverOverwritten, DoomedRec
    <3>7. ExecutedInv'
      BY <2>2, <2>3, <2>4, <3>3
         DEF WriteOK, Inv, ExecutedInv, Doomed, DoomedRec
    <3> QED
      BY <2>5, <2>7, <2>8, <2>9, <3>4, <3>5, <3>6, <3>7 DEF Inv
  <2> QED
    BY <2>10, <2>11 DEF Actors
<1> QED
  BY <1>1, <1>2

LEMMA StutterInv == ASSUME Inv, UNCHANGED vars PROVE Inv'
<1>1. TypeOK' /\ ControlInv' /\ CopyInv' /\ StepOwnsRecord'
  BY DEF vars, Inv, TypeOK, ControlInv, CopyInv, StepOwnsRecord, InStep
<1>2. UnsupportedInv' /\ BirthInv' /\ DoomInv' /\ CancelNeverOverwritten'
  BY DEF vars, Inv, UnsupportedInv, BirthInv, DoomInv, CancelNeverOverwritten,
         CancelPromised, Doomed
<1>3. ExecutedInv' /\ NoPhaseSkipped' /\ CreatorsAgree'
  BY DEF vars, Inv, ExecutedInv, NoPhaseSkipped, CreatorsAgree, Doomed
<1> QED
  BY <1>1, <1>2, <1>3 DEF Inv

-----------------------------------------------------------------------------
\* The inductive invariant holds throughout, whatever the interleaving of
\* creators, runners, crashes and cancellers of operations.py.
THEOREM Invariance == Spec => []Inv
<1>1. Inv /\ [Next]_vars => Inv'
  <2> SUFFICES ASSUME Inv, [Next]_vars PROVE Inv'
    OBVIOUS
  <2>1. CASE UNCHANGED vars
    BY <2>1, StutterInv
  <2>2. CASE \E p \in Params : CreateOperation(p)
    BY <2>2, CreateInv
  <2>3. CASE \E a \in Actors : MutateLoad(a) \/ MutateWrite(a)
    BY <2>3, MutateLoadInv, MutateWriteInv
  <2>4. CASE \E a \in Runners : RunnerStep(a)
    BY <2>4, AcquireInv, LoopHeadInv, StopInv, ExecuteInv, CrashInv
       DEF RunnerStep
  <2>5. CASE \E a \in Cancellers : CancellerStep(a)
    BY <2>5, StartCancelInv, ClassifyInv DEF CancellerStep
  <2> QED
    BY <2>1, <2>2, <2>3, <2>4, <2>5 DEF Next
<1> QED
  BY <1>1, InitInv, PTL DEF Spec

\* Type correctness of the engine.
THEOREM TypeCorrect == Spec => []TypeOK
  BY Invariance, PTL DEF Inv

\* cancel_operation's answer "requested" is a promise: the operation never
\* succeeds and never executes an irreversible phase.
THEOREM CancelSafety == Spec => []CancelHonoured
<1>1. Inv => CancelHonoured
  <2> SUFFICES ASSUME Inv, CancelPromised
               PROVE  /\ op.state # "succeeded"
                      /\ \A p \in executed :
                            p \in Irreversible .. NPhases => p = CancelPhase
    BY DEF CancelHonoured
  <2>1. Doomed
    BY DEF Inv, CancelNeverOverwritten, Doomed
  <2> QED
    BY <2>1, PhaseFacts, RecordFacts DEF Inv, DoomInv, ExecutedInv
<1> QED
  BY <1>1, Invariance, PTL

\* The cancel request is never overwritten by a concurrent writer.
THEOREM CancelPersists == Spec => []CancelNeverOverwritten
  BY Invariance, PTL DEF Inv

\* A step in flight owns a running record in the phase of the step.
THEOREM StepOwnership == Spec => []StepOwnsRecord
  BY Invariance, PTL DEF Inv

\* No phase is skipped, across crashes and resumed runners.
THEOREM PhasesComplete == Spec => []NoPhaseSkipped
  BY Invariance, PTL DEF Inv

\* Racing creators that are told "ok" agree on the parameters.
THEOREM CreationAgreement == Spec => []CreatorsAgree
  BY Invariance, PTL DEF Inv

-----------------------------------------------------------------------------
(***************************************************************************)
(* Action properties: a step either leaves the record alone, creates it,   *)
(* or is a successful write.                                               *)
(***************************************************************************)
LEMMA RecordStep ==
    ASSUME Inv, [Next]_vars
    PROVE  \/ op' = op
           \/ /\ op.state = "absent"
              /\ \E p \in Params : op' = NewOperation(p)
           \/ \E r \in Record : /\ WriteOK(r) /\ WriteLegal(r)
                                /\ op' = [r EXCEPT !.rev = r.rev + 1]
<1>1. CASE UNCHANGED vars
  BY <1>1 DEF vars
<1>2. CASE \E p \in Params : CreateOperation(p)
  BY <1>2 DEF CreateOperation
<1>3. CASE \E a \in Actors : MutateLoad(a)
  BY <1>3 DEF MutateLoad
<1>4. ASSUME NEW a \in Actors, MutateWrite(a)
      PROVE  \/ op' = op
             \/ \E r \in Record : /\ WriteOK(r) /\ WriteLegal(r)
                                  /\ op' = [r EXCEPT !.rev = r.rev + 1]
  <2>1. CASE op.rev # copy[a].rev
    BY <1>4, <2>1 DEF MutateWrite
  <2>2. CASE op.rev = copy[a].rev
    <3>1. PICK r \in Transform(a, copy[a]) : op' = [r EXCEPT !.rev = r.rev + 1]
      BY <1>4, <2>2 DEF MutateWrite
    <3>2. r \in Record /\ WriteOK(r) /\ WriteLegal(r)
      BY <1>4, <2>2, <3>1, WriteFacts DEF MutateWrite
    <3> QED
      BY <3>1, <3>2
  <2> QED
    BY <2>1, <2>2
<1>5. CASE \E a \in Runners : RunnerStep(a)
  BY <1>5 DEF RunnerStep, AcquireRunLock, LoopHead, StopAfterStep, ExecuteStep,
              CrashRunner
<1>6. CASE \E a \in Cancellers : CancellerStep(a)
  BY <1>6 DEF CancellerStep, StartCancel, Classify
<1> QED
  BY <1>1, <1>2, <1>3, <1>4, <1>5, <1>6 DEF Next

\* Every write keeps to _STATE_TRANSITIONS, terminal states are final and the
\* phase never moves backwards, across crashes and resumed runners.
THEOREM TransitionsLegal == Spec => LegalTransitions
<1>1. Inv /\ [Next]_vars =>
         [/\ op'.state = op.state \/ op'.state \in Successors[op.state]
          /\ op'.phase >= op.phase]_op
  <2> SUFFICES ASSUME Inv, [Next]_vars, op' # op
               PROVE  /\ \/ op'.state = op.state
                         \/ op'.state \in Successors[op.state]
                      /\ op'.phase >= op.phase
    OBVIOUS
  <2>1. CASE op.state = "absent" /\ \E p \in Params : op' = NewOperation(p)
    BY <2>1 DEF Inv, BirthInv, NoRecord, NewOperation, Successors, States
  <2>2. CASE \E r \in Record : /\ WriteLegal(r)
                               /\ op' = [r EXCEPT !.rev = r.rev + 1]
    BY <2>2 DEF WriteLegal, Record
  <2> QED
    BY <2>1, <2>2, RecordStep
<1> QED
  BY <1>1, Invariance, PTL DEF Spec, LegalTransitions

\* The engine implements OperationContract: an operation is promised to be
\* cancelled or committed, never both.
THEOREM Refinement == Spec => ImplementsContract
<1>1. Init => Contract!Init
  BY PhaseFacts DEF Init, Contract!Init, Life, Fate, NoRecord
<1>2. Inv /\ [Next]_vars => [Contract!Next]_<<Life, Fate>>
  <2> SUFFICES ASSUME Inv, [Next]_vars
               PROVE  Contract!Next \/ (Life' = Life /\ Fate' = Fate)
    OBVIOUS
  <2> USE DEF Contract!Next, Contract!Create, Contract!PromiseCancel,
              Contract!Commit, Contract!Cancelled, Contract!Succeed,
              Contract!Fail
  <2>1. CASE op' = op
    BY <2>1 DEF Life, Fate
  <2>2. CASE op.state = "absent" /\ \E p \in Params : op' = NewOperation(p)
    BY <2>2, PhaseFacts DEF Inv, BirthInv, NoRecord, NewOperation, Life, Fate
  <2>3. ASSUME NEW r \in Record, WriteOK(r), WriteLegal(r),
               op' = [r EXCEPT !.rev = r.rev + 1]
        PROVE  Contract!Next \/ (Life' = Life /\ Fate' = Fate)
    <3>1. /\ op'.state = r.state /\ op'.phase = r.phase
          /\ op'.cancel_requested = r.cancel_requested
          /\ r.phase \in Nat /\ r.state \in States
      BY <2>3, PhaseFacts DEF Record
    <3>2. /\ op.phase \in Nat /\ op.state \in States
          /\ Irreversible \in Nat /\ NPhases \in Nat
          /\ Irreversible <= NPhases
      BY RecordFacts, PhaseFacts DEF Inv
    <3>3. Life = "live" /\ op.state # "cancelled"
      BY <2>3 DEF WriteLegal, Life
    <3>4. CASE r.state \in {"queued", "running", "blocked"}
      BY <2>3, <3>1, <3>2, <3>3, <3>4
         DEF WriteOK, WriteLegal, Life, Fate, Doomed, DoomedRec
    <3>5. CASE r.state = "cancelled"
      BY <2>3, <3>1, <3>2, <3>3, <3>5
         DEF WriteLegal, Life, Fate, Doomed, DoomedRec
    <3>6. CASE r.state = "failed"
      BY <2>3, <3>1, <3>2, <3>3, <3>6 DEF WriteLegal, Life, Fate
    <3>7. CASE r.state = "succeeded"
      <4>1. ~ DoomedRec(r) /\ ~ Doomed
        BY <2>3, <3>7 DEF WriteOK
      <4>2. op.phase >= Irreversible
        BY <2>3, <3>2, <3>7, PhaseFacts DEF WriteOK, Inv, ExecutedInv
      <4> QED
        BY <2>3, <3>1, <3>2, <3>3, <3>7, <4>1, <4>2
           DEF WriteLegal, Life, Fate, Doomed, DoomedRec
    <3>8. r.state # "absent"
      BY <2>3 DEF WriteOK
    <3> QED
      BY <3>1, <3>4, <3>5, <3>6, <3>7, <3>8 DEF States, Terminal
  <2> QED
    BY <2>1, <2>2, <2>3, RecordStep
<1> QED
  BY <1>1, <1>2, Invariance, PTL DEF Spec, ImplementsContract, Contract!Spec

----------------------------------------------------------------------------
(* The maintenance command line                                            *)

JobWords == {"none", "queued", "running", "succeeded", "failed", "cancelled", "blocked"}
Commands == CommandNames \cup {"none", "other"}
JobStates == [state : JobWords, cmd : Commands, expect : Nat, agreed : Nat, cancel : BOOLEAN]
Codes == {"none", "0", "1", "2", "130", "executor_exited"}
ShellStates == [pc : {"idle", "shown", "watch", "loaded", "done"}, cmd : Commands, job : Shells \cup {"none"},
                expect : Nat, agreed : Nat, grace : BOOLEAN, exit : Codes]
ExecStates == [st : {"none", "starting", "running", "exited"}, job : Shells \cup {"none"},
               retry : BOOLEAN, ended : BOOLEAN]
Execs == Shells \X {1, 2}

\* The types of the shells', the records' and the executors' state.
CommandTypeOK ==
    /\ content \in Nat /\ readable \in BOOLEAN /\ deaths \in Nat
    /\ jobs \in [Shells -> JobStates]
    /\ shells \in [Shells -> ShellStates]
    /\ execs \in [Execs -> ExecStates]

\* What the prompt agreed to is what the record expects to find.
AgreedInv ==
    /\ \A s \in Shells : shells[s].pc = "shown" /\ shells[s].cmd \in Destructive
                        => shells[s].expect = shells[s].agreed
    /\ \A j \in Shells : jobs[j].cmd \in Destructive => jobs[j].expect = jobs[j].agreed

\* A record is run by one executor at a time and made before any runs it.
RunnerInv ==
    /\ \A s \in Shells : shells[s].pc \in {"idle", "shown"} => jobs[s].state = "none"
    /\ \A e \in Execs : execs[e].st \in {"starting", "running"} =>
          execs[e].job \in Shells /\ jobs[execs[e].job].state # "none"
    /\ \A e \in Execs : execs[e].st = "running" => jobs[execs[e].job].state = "running"
    /\ \A e, f \in Execs : execs[e].st = "running" /\ execs[f].st = "running" /\ execs[e].job = execs[f].job
                          => e = f

CommandInv == CommandTypeOK /\ AgreedInv /\ RunnerInv

\* Nobody is at the prompt after the command line has said its last word.
Left(code) == [AtPrompt EXCEPT !.pc = "done", !.exit = code]
Watches(cmd, j) == [AtPrompt EXCEPT !.pc = "watch", !.cmd = cmd, !.job = j]

\* The records the steps give a shell and an executor are of their types.
LEMMA ShellShapes ==
    /\ AtPrompt \in ShellStates /\ AtPrompt.pc = "idle"
    /\ \A code \in Codes : Left(code) \in ShellStates /\ Left(code).pc = "done"
    /\ \A cmd \in Commands, j \in Shells :
          Watches(cmd, j) \in ShellStates /\ Watches(cmd, j).pc = "watch"
<1>1. AtPrompt \in ShellStates /\ AtPrompt.pc = "idle"
  BY DEF AtPrompt, ShellStates, Commands, Codes
<1>2. ASSUME NEW code \in Codes PROVE Left(code) \in ShellStates /\ Left(code).pc = "done"
  BY <1>1 DEF Left, ShellStates
<1>3. ASSUME NEW cmd \in Commands, NEW j \in Shells
      PROVE  Watches(cmd, j) \in ShellStates /\ Watches(cmd, j).pc = "watch"
  BY <1>1 DEF Watches, ShellStates
<1> QED BY <1>1, <1>2, <1>3

LEMMA ExecShapes ==
    /\ NoExec \in ExecStates /\ NoExec.st = "none"
    /\ \A j \in Shells, again \in BOOLEAN :
          /\ Spawned(j, again) \in ExecStates /\ Spawned(j, again).st = "starting"
          /\ Spawned(j, again).job = j
    /\ \A ended \in BOOLEAN : Exited(ended) \in ExecStates /\ Exited(ended).st = "exited"
<1>1. NoExec \in ExecStates /\ NoExec.st = "none"
  BY DEF NoExec, ExecStates
<1>2. ASSUME NEW ended \in BOOLEAN PROVE Exited(ended) \in ExecStates /\ Exited(ended).st = "exited"
  BY <1>1 DEF Exited, ExecStates
<1>3. ASSUME NEW j \in Shells, NEW again \in BOOLEAN
      PROVE  /\ Spawned(j, again) \in ExecStates /\ Spawned(j, again).st = "starting"
             /\ Spawned(j, again).job = j
  BY DEF Spawned, ExecStates
<1> QED BY <1>1, <1>2, <1>3

\* The commands that replace the store are commands.
LEMMA CommandWords ==
    /\ Destructive \subseteq Commands /\ Rebuilding \subseteq Commands /\ CommandNames \subseteq Commands
    /\ "none" \in Commands /\ "other" \in Commands /\ "rebuild" \in Commands /\ "wait" \in Commands
    /\ "none" \notin Destructive /\ "other" \notin Destructive /\ "rebuild" \notin Destructive
    /\ Destructive \cap (Rebuilding \cup {"backup", "migrate"}) = {}
BY DEF Destructive, Rebuilding, Commands, CommandNames

\* A step of a shell that leaves the prompt and touches nothing else.
LEMMA ShellAway ==
    ASSUME CommandInv, NEW s \in Shells, NEW r \in ShellStates, r.pc \in {"watch", "loaded", "done"},
           shells' = [shells EXCEPT ![s] = r],
           UNCHANGED <<content, readable, jobs, execs, deaths>>
    PROVE  CommandInv'
<1>1. shells' \in [Shells -> ShellStates] /\ shells'[s] = r /\ \A u \in Shells \ {s} : shells'[u] = shells[u]
  BY DEF CommandInv, CommandTypeOK
<1>2. CommandTypeOK'
  BY <1>1 DEF CommandInv, CommandTypeOK
<1>3. AgreedInv'
  BY <1>1 DEF CommandInv, AgreedInv
<1>4. RunnerInv'
  BY <1>1 DEF CommandInv, RunnerInv
<1> QED BY <1>2, <1>3, <1>4 DEF CommandInv

\* The same with an executor spawned for a record there is.
LEMMA ShellSpawns ==
    ASSUME CommandInv, NEW s \in Shells, NEW r \in ShellStates, r.pc \in {"watch", "loaded", "done"},
           NEW j \in Shells, jobs[j].state # "none", NEW again \in BOOLEAN,
           shells' = [shells EXCEPT ![s] = r], execs' = [execs EXCEPT ![<<s, 1>>] = Spawned(j, again)],
           UNCHANGED <<content, readable, jobs, deaths>>
    PROVE  CommandInv'
<1>1. shells' \in [Shells -> ShellStates] /\ shells'[s] = r /\ \A u \in Shells \ {s} : shells'[u] = shells[u]
  BY DEF CommandInv, CommandTypeOK
<1> DEFINE e == <<s, 1>>
           new == Spawned(j, again)
<1>2. e \in Execs /\ new \in ExecStates /\ new.st = "starting" /\ new.job = j
  BY ExecShapes DEF Execs
<1>3. execs' \in [Execs -> ExecStates] /\ execs'[e] = new /\ \A f \in Execs \ {e} : execs'[f] = execs[f]
  <2> HIDE DEF e, new
  <2>1. execs' = [execs EXCEPT ![e] = new]
    BY DEF e, new
  <2> QED BY <1>2, <2>1 DEF CommandInv, CommandTypeOK
<1> HIDE DEF e, new
<1>4. CommandTypeOK'
  BY <1>1, <1>3 DEF CommandInv, CommandTypeOK
<1>5. AgreedInv'
  BY <1>1 DEF CommandInv, AgreedInv
<1>6. RunnerInv'
  BY <1>1, <1>2, <1>3 DEF CommandInv, RunnerInv
<1> QED BY <1>4, <1>5, <1>6 DEF CommandInv

\* Init: nobody has typed anything.
LEMMA CommandInitHolds == CommandInit => CommandInv
<1> SUFFICES ASSUME CommandInit PROVE CommandInv
  OBVIOUS
<1>1. /\ content \in Nat /\ readable \in BOOLEAN /\ deaths \in Nat
      /\ jobs = [s \in Shells |-> NoJobYet] /\ shells = [s \in Shells |-> AtPrompt]
      /\ execs = [e \in Execs |-> NoExec]
  BY DEF CommandInit, Execs
<1>2. NoJobYet \in JobStates /\ NoJobYet.state = "none" /\ NoJobYet.cmd = "none"
  BY DEF NoJobYet, JobStates, JobWords, Commands
<1>3. CommandTypeOK
  BY <1>1, <1>2, ShellShapes, ExecShapes DEF CommandTypeOK
<1>4. AgreedInv
  BY <1>1, <1>2, ShellShapes, CommandWords DEF AgreedInv
<1>5. RunnerInv
  BY <1>1, <1>2, ExecShapes DEF RunnerInv
<1> QED BY <1>3, <1>4, <1>5 DEF CommandInv

----------------------------------------------------------------------------
(* The steps of a shell                                                    *)

\* Saying an exit code is all that the refusals, the answers and Ctrl-C do.
LEMMA LeaveKeeps ==
    ASSUME CommandInv, NEW s \in Shells, NEW code \in Codes, Exits(s, code),
           UNCHANGED <<content, readable, jobs, execs, deaths>>
    PROVE  CommandInv'
<1>1. shells' = [shells EXCEPT ![s] = Left(code)]
  BY DEF Exits, Left
<1>2. Left(code) \in ShellStates /\ Left(code).pc \in {"watch", "loaded", "done"}
  BY ShellShapes
<1> QED BY <1>1, <1>2, ShellAway

\* The exit codes the steps use.
LEMMA CodeWords ==
    /\ "0" \in Codes /\ "1" \in Codes /\ "2" \in Codes /\ "130" \in Codes /\ "executor_exited" \in Codes
    /\ \A verdict : ExitCode(verdict) \in Codes
BY DEF Codes, ExitCode

\* What is shown is the plan, and what is agreed to is what is shown: by the
\* string to be typed, the epoch that --yes must name, or the fingerprint
\* given.
LEMMA InvokeKeeps ==
    ASSUME CommandInv, NEW s \in Shells, NEW cmd \in Typed[s], Invoke(s, cmd)
    PROVE  CommandInv'
<1>1. PICK f \in {g \in Flags : ~FlagsRefused(cmd, g) /\ EpochAsNamed(cmd, g)} :
           shells' = [shells EXCEPT ![s] =
              [AtPrompt EXCEPT !.pc = "shown", !.cmd = cmd,
                 !.expect = IF cmd = "restore_unreadable" THEN f.print ELSE content,
                 !.agreed = CASE cmd = "restore_unreadable" -> f.print
                              [] f.yes /\ cmd \in {"clear", "restore"} -> f.epoch
                              [] OTHER -> content]]
  BY DEF Invoke
<1> DEFINE x == IF cmd = "restore_unreadable" THEN f.print ELSE content
           a == CASE cmd = "restore_unreadable" -> f.print
                  [] f.yes /\ cmd \in {"clear", "restore"} -> f.epoch
                  [] OTHER -> content
           r == [AtPrompt EXCEPT !.pc = "shown", !.cmd = cmd, !.expect = x, !.agreed = a]
<1>2. cmd \in Destructive /\ shells[s].pc = "idle" /\ UNCHANGED <<content, readable, jobs, execs, deaths>>
  BY DEF Invoke
<1>3. f.print \in Nat /\ f.epoch \in Nat /\ content \in Nat
  BY CommandShape DEF Flags, Answers, NotGiven, CommandInv, CommandTypeOK
<1>4. x \in Nat /\ a = x
  <2>1. CASE cmd = "restore_unreadable"
    BY <1>3, <2>1
  <2>2. CASE f.yes /\ cmd \in {"clear", "restore"}
    <3>1. f.epoch = content
      BY <1>2, <2>2 DEF EpochAsNamed, Destructive
    <3> QED BY <1>3, <2>2, <3>1
  <2>3. CASE cmd # "restore_unreadable" /\ ~(f.yes /\ cmd \in {"clear", "restore"})
    BY <1>3, <2>3
  <2> QED BY <2>1, <2>2, <2>3
<1>5. cmd \in Commands
  BY <1>2, CommandWords
<1>6. r \in ShellStates /\ r.pc = "shown" /\ r.expect = x /\ r.agreed = a
  <2> HIDE DEF x, a
  <2> QED BY <1>4, <1>5, ShellShapes DEF ShellStates
<1>7. shells' = [shells EXCEPT ![s] = r]
  BY <1>1
<1> HIDE DEF r, x, a
<1>8. shells' \in [Shells -> ShellStates] /\ shells'[s] = r /\ \A u \in Shells \ {s} : shells'[u] = shells[u]
  BY <1>6, <1>7 DEF CommandInv, CommandTypeOK
<1>9. CommandTypeOK'
  BY <1>2, <1>8 DEF CommandInv, CommandTypeOK
<1>10. AgreedInv'
  BY <1>2, <1>4, <1>6, <1>8 DEF CommandInv, AgreedInv
<1>11. RunnerInv'
  BY <1>2, <1>6, <1>8 DEF CommandInv, RunnerInv
<1> QED BY <1>9, <1>10, <1>11 DEF CommandInv

\* backup create, migrate and rebuild agree to nothing.
LEMMA InvokePlainKeeps ==
    ASSUME CommandInv, NEW s \in Shells, NEW cmd \in Typed[s], InvokePlain(s, cmd)
    PROVE  CommandInv'
<1>1. /\ cmd \in Rebuilding \cup {"backup", "migrate"} /\ shells[s].pc = "idle"
      /\ UNCHANGED <<content, readable, jobs, execs, deaths>>
  BY DEF InvokePlain
<1>2. CASE \E code \in {"0", "1"} : Exits(s, code)
  BY <1>1, <1>2, LeaveKeeps, CodeWords
<1>3. CASE shells' = [shells EXCEPT ![s] = [AtPrompt EXCEPT !.pc = "shown", !.cmd = cmd]]
  <2> DEFINE r == [AtPrompt EXCEPT !.pc = "shown", !.cmd = cmd]
  <2>1. cmd \in Commands /\ cmd \notin Destructive
    BY <1>1 DEF Rebuilding, Destructive, Commands, CommandNames
  <2>2. r \in ShellStates /\ r.pc = "shown" /\ r.cmd = cmd
    BY <2>1, ShellShapes DEF ShellStates
  <2>3. shells' = [shells EXCEPT ![s] = r]
    BY <1>3
  <2> HIDE DEF r
  <2>4. shells' \in [Shells -> ShellStates] /\ shells'[s] = r /\ \A u \in Shells \ {s} : shells'[u] = shells[u]
    BY <2>2, <2>3 DEF CommandInv, CommandTypeOK
  <2>5. CommandTypeOK'
    BY <1>1, <2>4 DEF CommandInv, CommandTypeOK
  <2>6. AgreedInv'
    BY <1>1, <2>1, <2>2, <2>4 DEF CommandInv, AgreedInv
  <2>7. RunnerInv'
    BY <1>1, <2>2, <2>4 DEF CommandInv, RunnerInv
  <2> QED BY <2>5, <2>6, <2>7 DEF CommandInv
<1> QED BY <1>2, <1>3 DEF InvokePlain

\* The record carries what was agreed; nobody runs it yet.
LEMMA CreateKeeps ==
    ASSUME CommandInv, NEW s \in Shells, CreateJob(s)
    PROVE  CommandInv'
<1> DEFINE entry == [state |-> "queued", cmd |-> shells[s].cmd, expect |-> shells[s].expect,
                   agreed |-> shells[s].agreed, cancel |-> FALSE]
           new == Spawned(s, FALSE)
<1>1. /\ shells[s].pc = "shown" /\ jobs' = [jobs EXCEPT ![s] = entry]
      /\ execs' = [e \in Execs |-> IF e[1] = s /\ (e[2] = 1 \/ shells[s].cmd = "rebuild_wait")
                                   THEN new ELSE execs[e]]
      /\ UNCHANGED <<content, readable, deaths>>
  BY DEF CreateJob, CommandInv, CommandTypeOK
<1>2. PICK r \in ShellStates : r.pc \in {"watch", "done"} /\ shells' = [shells EXCEPT ![s] = r]
  <2>1. shells[s].cmd \in Commands
    BY DEF CommandInv, CommandTypeOK, ShellStates
  <2>2. CASE shells[s].cmd = "rebuild"
    <3>1. shells' = [shells EXCEPT ![s] = Left("0")]
      BY <2>2 DEF CreateJob, Exits, Left
    <3> QED BY <3>1, ShellShapes, CodeWords
  <2>3. CASE shells[s].cmd # "rebuild"
    <3>1. shells' = [shells EXCEPT ![s] = Watches(shells[s].cmd, s)]
      BY <2>3 DEF CreateJob, Watching, Watches
    <3> QED BY <2>1, <3>1, ShellShapes
  <2> QED BY <2>2, <2>3
<1>3. entry \in JobStates /\ entry.state = "queued" /\ entry.cmd = shells[s].cmd
      /\ entry.expect = shells[s].expect /\ entry.agreed = shells[s].agreed
  BY DEF CommandInv, CommandTypeOK, ShellStates, JobStates, JobWords
<1>4. new \in ExecStates /\ new.st = "starting" /\ new.job = s
  BY ExecShapes
<1> HIDE DEF entry, new
<1>5. shells' \in [Shells -> ShellStates] /\ shells'[s] = r /\ \A u \in Shells \ {s} : shells'[u] = shells[u]
  BY <1>2 DEF CommandInv, CommandTypeOK
<1>6. jobs' \in [Shells -> JobStates] /\ jobs'[s] = entry /\ \A u \in Shells \ {s} : jobs'[u] = jobs[u]
  BY <1>1, <1>3 DEF CommandInv, CommandTypeOK
<1>7. execs' \in [Execs -> ExecStates] /\ \A e \in Execs : execs'[e] \in {new, execs[e]}
  BY <1>1, <1>4 DEF CommandInv, CommandTypeOK
<1>8. jobs[s].state = "none"
  BY <1>1 DEF CommandInv, RunnerInv
<1>9. CommandTypeOK'
  BY <1>1, <1>5, <1>6, <1>7 DEF CommandInv, CommandTypeOK
<1>10. AgreedInv'
  BY <1>1, <1>2, <1>3, <1>5, <1>6 DEF CommandInv, AgreedInv
<1>11. RunnerInv'
  <2>1. \A u \in Shells : shells'[u].pc \in {"idle", "shown"} => jobs'[u].state = "none"
    BY <1>2, <1>5, <1>6 DEF CommandInv, RunnerInv
  <2>2. \A e \in Execs : execs'[e].st = "running" => execs'[e] = execs[e] /\ execs[e].job # s
    BY <1>4, <1>7, <1>8 DEF CommandInv, RunnerInv
  <2>3. \A e \in Execs : execs'[e].st \in {"starting", "running"} =>
           execs'[e].job \in Shells /\ jobs'[execs'[e].job].state # "none"
    BY <1>3, <1>4, <1>6, <1>7 DEF CommandInv, RunnerInv
  <2>4. \A e \in Execs : execs'[e].st = "running" => jobs'[execs'[e].job].state = "running"
    BY <1>6, <2>2 DEF CommandInv, RunnerInv
  <2> QED BY <2>1, <2>2, <2>3, <2>4 DEF CommandInv, RunnerInv
<1> QED BY <1>9, <1>10, <1>11 DEF CommandInv

\* rebuild --retry: another executor for a record that is not over.
LEMMA RetryKeeps ==
    ASSUME CommandInv, NEW s \in Shells, NEW j \in Shells, NEW cmd \in Typed[s], RetryJob(s, j, cmd)
    PROVE  CommandInv'
<1>1. cmd \in Commands /\ UNCHANGED <<content, readable, jobs, deaths>>
  BY DEF RetryJob, Commands, CommandNames
<1>2. CASE Exits(s, "1") /\ UNCHANGED execs
  BY <1>1, <1>2, LeaveKeeps, CodeWords
<1>3. CASE /\ jobs[j].state # "none" /\ execs' = [execs EXCEPT ![<<s, 1>>] = Spawned(j, TRUE)]
           /\ \/ Exits(s, "0")
              \/ shells' = [shells EXCEPT ![s] = [AtPrompt EXCEPT !.pc = "watch", !.cmd = cmd, !.job = j]]
  <2>1. PICK r \in ShellStates : r.pc \in {"watch", "loaded", "done"} /\ shells' = [shells EXCEPT ![s] = r]
    <3>1. CASE Exits(s, "0")
      <4>1. shells' = [shells EXCEPT ![s] = Left("0")]
        BY <3>1 DEF Exits, Left
      <4> QED BY <4>1, ShellShapes, CodeWords
    <3>2. CASE shells' = [shells EXCEPT ![s] = [AtPrompt EXCEPT !.pc = "watch", !.cmd = cmd, !.job = j]]
      <4>1. shells' = [shells EXCEPT ![s] = Watches(cmd, j)]
        BY <3>2 DEF Watches
      <4> QED BY <1>1, <4>1, ShellShapes
    <3> QED BY <1>3, <3>1, <3>2
  <2> QED BY <1>1, <1>3, <2>1, ShellSpawns
<1> QED BY <1>2, <1>3 DEF RetryJob

LEMMA RunJobKeeps ==
    ASSUME CommandInv, NEW s \in Shells, NEW j \in Shells, RunJob(s, j)
    PROVE  CommandInv'
<1>1. /\ jobs[j].state # "none" /\ execs' = [execs EXCEPT ![<<s, 1>>] = Spawned(j, FALSE)]
      /\ shells' = [shells EXCEPT ![s] = Left("0")]
      /\ UNCHANGED <<content, readable, jobs, deaths>>
  BY DEF RunJob, Exits, Left
<1>2. Left("0") \in ShellStates /\ Left("0").pc \in {"watch", "loaded", "done"}
  BY ShellShapes, CodeWords
<1> QED BY <1>1, <1>2, ShellSpawns

\* A cancel changes no record it finds over, and no expectation.
LEMMA CancelEffect ==
    ASSUME CommandInv, NEW s \in Shells, NEW j \in Shells, CancelJob(s, j)
    PROVE  /\ jobs' \in [Shells -> JobStates] /\ jobs[j].state # "none"
           /\ \A u \in Shells : /\ jobs'[u].cmd = jobs[u].cmd /\ jobs'[u].expect = jobs[u].expect
                                /\ jobs'[u].agreed = jobs[u].agreed
                                /\ jobs'[u].state # jobs[u].state =>
                                      jobs[u].state = "blocked" /\ jobs'[u].state = "cancelled"
<1>1. jobs[j].state # "none"
  BY DEF CancelJob
<1>2. CASE jobs' = [jobs EXCEPT ![j].state = "cancelled"] /\ jobs[j].state = "blocked"
  BY <1>1, <1>2 DEF CommandInv, CommandTypeOK, JobStates, JobWords
<1>3. CASE jobs' = jobs
  BY <1>1, <1>3 DEF CommandInv, CommandTypeOK
<1>4. CASE jobs' = [jobs EXCEPT ![j].cancel = TRUE]
  BY <1>1, <1>4 DEF CommandInv, CommandTypeOK, JobStates, JobWords
<1> QED BY <1>2, <1>3, <1>4 DEF CancelJob

LEMMA CancelKeeps ==
    ASSUME CommandInv, NEW s \in Shells, NEW j \in Shells, CancelJob(s, j)
    PROVE  CommandInv'
<1>1. PICK r \in ShellStates : r.pc = "done" /\ shells' = [shells EXCEPT ![s] = r]
  <2>1. shells' = [shells EXCEPT ![s] = Left(IF jobs[j].state \in {"succeeded", "failed"} THEN "1" ELSE "0")]
    BY DEF CancelJob, Exits, Left
  <2> QED BY <2>1, ShellShapes, CodeWords
<1>2. shells' \in [Shells -> ShellStates] /\ shells'[s] = r /\ \A u \in Shells \ {s} : shells'[u] = shells[u]
  BY <1>1 DEF CommandInv, CommandTypeOK
<1>3. UNCHANGED <<content, readable, execs, deaths>>
  BY DEF CancelJob
<1>4. CommandTypeOK'
  BY <1>2, <1>3, CancelEffect DEF CommandInv, CommandTypeOK
<1>5. AgreedInv'
  BY <1>1, <1>2, CancelEffect DEF CommandInv, AgreedInv
<1>6. RunnerInv'
  BY <1>1, <1>2, <1>3, CancelEffect DEF CommandInv, RunnerInv
<1> QED BY <1>4, <1>5, <1>6 DEF CommandInv

\* The polling loop reads: the record, the executor, the record again.
LEMMA WatchKeeps ==
    ASSUME CommandInv, NEW s \in Shells, LoadRecord(s) \/ CheckExecutor(s) \/ \E j \in Shells : WaitJob(s, j)
    PROVE  CommandInv'
<1>1. UNCHANGED <<content, readable, jobs, execs, deaths>>
  BY DEF LoadRecord, CheckExecutor, WaitJob
<1>2. shells[s] \in ShellStates
  BY DEF CommandInv, CommandTypeOK
<1>3. PICK r \in ShellStates : r.pc \in {"watch", "loaded", "done"} /\ shells' = [shells EXCEPT ![s] = r]
  <2>1. CASE \E code \in Codes : Exits(s, code)
    <3>1. PICK code \in Codes : shells' = [shells EXCEPT ![s] = Left(code)]
      BY <2>1 DEF Exits, Left
    <3> QED BY <3>1, ShellShapes
  <2>2. CASE shells' = [shells EXCEPT ![s].pc = "loaded"]
    <3> DEFINE r == [shells[s] EXCEPT !.pc = "loaded"]
    <3>1. r \in ShellStates /\ r.pc = "loaded"
      BY <1>2 DEF ShellStates
    <3>2. shells' = [shells EXCEPT ![s] = r]
      BY <2>2 DEF CommandInv, CommandTypeOK
    <3> HIDE DEF r
    <3> QED BY <3>1, <3>2
  <2>3. CASE \E grace \in BOOLEAN : shells' = [shells EXCEPT ![s].pc = "watch", ![s].grace = grace]
    <3>1. PICK grace \in BOOLEAN : shells' = [shells EXCEPT ![s].pc = "watch", ![s].grace = grace]
      BY <2>3
    <3> DEFINE r == [shells[s] EXCEPT !.pc = "watch", !.grace = grace]
    <3>2. r \in ShellStates /\ r.pc = "watch"
      BY <1>2 DEF ShellStates
    <3>3. shells' = [shells EXCEPT ![s] = r]
      BY <3>1 DEF CommandInv, CommandTypeOK, ShellStates
    <3> HIDE DEF r
    <3> QED BY <3>2, <3>3
  <2>4. CASE \E j \in Shells : WaitJob(s, j)
    <3>1. PICK j \in Shells : shells' = [shells EXCEPT ![s] = Watches("wait", j)]
      BY <2>4 DEF WaitJob, Watches
    <3> QED BY <3>1, ShellShapes, CommandWords
  <2>5. LoadRecord(s) => (\E code \in Codes : Exits(s, code)) \/ shells' = [shells EXCEPT ![s].pc = "loaded"]
    BY CodeWords DEF LoadRecord
  <2>6. CheckExecutor(s) => \/ \E code \in Codes : Exits(s, code)
                            \/ \E grace \in BOOLEAN : shells' = [shells EXCEPT ![s].pc = "watch", ![s].grace = grace]
    <3>1. (execs[Watched(s)].st = "exited") \in BOOLEAN
      OBVIOUS
    <3> QED BY <3>1, CodeWords DEF CheckExecutor
  <2> QED BY <2>1, <2>2, <2>3, <2>4, <2>5, <2>6
<1> QED BY <1>1, <1>3, ShellAway

----------------------------------------------------------------------------
(* The steps of an executor                                                *)

\* The run lock, then the claim: a record that nobody runs is run.
LEMMA BeginEffect ==
    ASSUME CommandInv, NEW e \in Execs, BeginRun(e)
    PROVE  \/ jobs' = jobs /\ execs' = [execs EXCEPT ![e] = Exited(FALSE)]
           \/ /\ \A f \in Execs : execs[f].st = "running" => execs[f].job # execs[e].job
              /\ execs' = [execs EXCEPT ![e].st = "running"]
              /\ jobs' = [jobs EXCEPT ![execs[e].job].state = "running"]
<1>1. DOMAIN execs = Execs
  BY DEF CommandInv, CommandTypeOK
<1> QED BY <1>1 DEF BeginRun, Locked

LEMMA BeginKeeps ==
    ASSUME CommandInv, NEW e \in Execs, BeginRun(e)
    PROVE  CommandInv'
<1>1. /\ execs[e].st = "starting" /\ execs[e].job \in Shells /\ jobs[execs[e].job].state # "none"
      /\ UNCHANGED <<content, readable, shells, deaths>>
  BY DEF BeginRun, CommandInv, RunnerInv
<1>2. CASE jobs' = jobs /\ execs' = [execs EXCEPT ![e] = Exited(FALSE)]
  <2>1. Exited(FALSE) \in ExecStates /\ Exited(FALSE).st = "exited"
    BY ExecShapes
  <2>2. /\ execs' \in [Execs -> ExecStates] /\ execs'[e].st = "exited"
        /\ \A f \in Execs \ {e} : execs'[f] = execs[f]
    BY <1>2, <2>1 DEF CommandInv, CommandTypeOK
  <2>3. CommandTypeOK' /\ AgreedInv'
    BY <1>1, <1>2, <2>2 DEF CommandInv, CommandTypeOK, AgreedInv
  <2>4. RunnerInv'
    BY <1>1, <1>2, <2>2 DEF CommandInv, RunnerInv
  <2> QED BY <2>3, <2>4 DEF CommandInv
<1>3. CASE /\ \A f \in Execs : execs[f].st = "running" => execs[f].job # execs[e].job
           /\ execs' = [execs EXCEPT ![e].st = "running"]
           /\ jobs' = [jobs EXCEPT ![execs[e].job].state = "running"]
  <2>1. /\ execs' \in [Execs -> ExecStates] /\ execs'[e].st = "running" /\ execs'[e].job = execs[e].job
        /\ \A f \in Execs \ {e} : execs'[f] = execs[f]
    BY <1>3 DEF CommandInv, CommandTypeOK, ExecStates
  <2>2. /\ jobs' \in [Shells -> JobStates]
        /\ \A u \in Shells : /\ jobs'[u].cmd = jobs[u].cmd /\ jobs'[u].expect = jobs[u].expect
                             /\ jobs'[u].agreed = jobs[u].agreed
                             /\ jobs'[u].state = IF u = execs[e].job THEN "running" ELSE jobs[u].state
    BY <1>1, <1>3 DEF CommandInv, CommandTypeOK, JobStates, JobWords
  <2>3. CommandTypeOK' /\ AgreedInv'
    BY <1>1, <2>1, <2>2 DEF CommandInv, CommandTypeOK, AgreedInv
  <2>4. RunnerInv'
    BY <1>1, <1>3, <2>1, <2>2 DEF CommandInv, RunnerInv
  <2> QED BY <2>3, <2>4 DEF CommandInv
<1> QED BY <1>2, <1>3, BeginEffect

\* A step that ends the run: the record and the executor, nobody else's.
LEMMA ConcludeEffect ==
    ASSUME CommandInv, NEW e \in Execs, execs[e].st = "running",
           NEW verdict \in {"succeeded", "failed", "cancelled", "blocked"}, Conclude(e, verdict)
    PROVE  /\ jobs' \in [Shells -> JobStates] /\ execs' \in [Execs -> ExecStates]
           /\ jobs'[execs[e].job].state = verdict /\ jobs'[execs[e].job].cmd \notin Destructive
           /\ \A u \in Shells \ {execs[e].job} : jobs'[u] = jobs[u]
           /\ execs'[e].st = "exited" /\ \A f \in Execs \ {e} : execs'[f] = execs[f]
<1> DEFINE j == execs[e].job
           word == IF jobs[j].cmd \in Rebuilding THEN "rebuild" ELSE "other"
           entry == [NoJobYet EXCEPT !.state = verdict, !.cmd = word]
           ended == verdict \notin {"running", "blocked"}
<1>1. jobs' = [jobs EXCEPT ![j] = entry] /\ execs' = [execs EXCEPT ![e] = Exited(ended)]
  BY DEF Conclude
<1>2. j \in Shells
  BY DEF CommandInv, RunnerInv
<1>3. word \in Commands /\ word \notin Destructive
  BY CommandWords
<1>4. NoJobYet \in JobStates
  BY DEF NoJobYet, JobStates, JobWords, Commands
<1>5. entry \in JobStates /\ entry.state = verdict /\ entry.cmd = word
  <2> HIDE DEF word
  <2> QED BY <1>3, <1>4 DEF JobStates, JobWords
<1>6. Exited(ended) \in ExecStates /\ Exited(ended).st = "exited"
  BY ExecShapes
<1> HIDE DEF entry, word, ended, j
<1>7. jobs' \in [Shells -> JobStates] /\ jobs'[j] = entry /\ \A u \in Shells \ {j} : jobs'[u] = jobs[u]
  BY <1>1, <1>2, <1>5 DEF CommandInv, CommandTypeOK
<1>8. /\ execs' \in [Execs -> ExecStates] /\ execs'[e].st = "exited"
      /\ \A f \in Execs \ {e} : execs'[f] = execs[f]
  BY <1>1, <1>6 DEF CommandInv, CommandTypeOK
<1> QED BY <1>3, <1>5, <1>7, <1>8 DEF j

\* The four ends of a run; only one of them replaces the store, and it finds
\* what the record expects.
LEMMA RunEffect ==
    ASSUME CommandInv, NEW e \in Execs, RunSteps(e)
    PROVE  /\ execs[e].st = "running" /\ shells' = shells /\ deaths' = deaths
           /\ content' \in Nat /\ readable' \in BOOLEAN
           /\ \E verdict \in {"succeeded", "failed", "cancelled", "blocked"} :
                 /\ Conclude(e, verdict)
                 /\ jobs[execs[e].job].cmd \in Destructive /\ verdict = "succeeded" => content = jobs[execs[e].job].expect
<1>1. content \in Nat /\ readable \in BOOLEAN
  BY DEF CommandInv, CommandTypeOK
<1>2. execs[e].st = "running" /\ shells' = shells /\ deaths' = deaths
  BY DEF RunSteps
<1> DEFINE cmd == jobs[execs[e].job].cmd
           x == jobs[execs[e].job].expect
<1>3. CASE Conclude(e, "cancelled") /\ UNCHANGED <<content, readable>>
  BY <1>1, <1>2, <1>3
<1>4. CASE content = x /\ content' = content + 1 /\ readable' = TRUE /\ Conclude(e, "succeeded")
  BY <1>1, <1>2, <1>4
<1>5. CASE Conclude(e, "blocked") /\ UNCHANGED <<content, readable>>
  BY <1>1, <1>2, <1>5
<1>6. CASE /\ cmd \notin Destructive /\ UNCHANGED <<content, readable>>
           /\ \E verdict \in {"succeeded", "failed", "blocked"} : Conclude(e, verdict)
  BY <1>1, <1>2, <1>6
<1> HIDE DEF cmd, x
<1> QED BY <1>3, <1>4, <1>5, <1>6 DEF RunSteps, AsExpected, cmd, x

LEMMA RunKeeps ==
    ASSUME CommandInv, NEW e \in Execs, RunSteps(e)
    PROVE  CommandInv'
<1>1. /\ execs[e].st = "running" /\ shells' = shells /\ deaths' = deaths
      /\ content' \in Nat /\ readable' \in BOOLEAN
  BY RunEffect
<1>2. PICK verdict \in {"succeeded", "failed", "cancelled", "blocked"} : Conclude(e, verdict)
  BY RunEffect
<1>3. /\ jobs' \in [Shells -> JobStates] /\ execs' \in [Execs -> ExecStates]
      /\ jobs'[execs[e].job].state = verdict /\ jobs'[execs[e].job].cmd \notin Destructive
      /\ \A u \in Shells \ {execs[e].job} : jobs'[u] = jobs[u]
      /\ execs'[e].st = "exited" /\ \A f \in Execs \ {e} : execs'[f] = execs[f]
  BY <1>1, <1>2, ConcludeEffect
<1>4. execs[e].job \in Shells /\ jobs[execs[e].job].state = "running"
  BY <1>1 DEF CommandInv, RunnerInv
<1>5. CommandTypeOK' /\ AgreedInv'
  BY <1>1, <1>3 DEF CommandInv, CommandTypeOK, AgreedInv
<1>6. RunnerInv'
  <2>1. \A f \in Execs \ {e} : execs[f].st = "running" => execs[f].job # execs[e].job
    BY <1>1 DEF CommandInv, RunnerInv
  <2>2. \A u \in Shells : jobs[u].state # "none" => jobs'[u].state # "none"
    BY <1>3
  <2>3. \A s \in Shells : shells'[s].pc \in {"idle", "shown"} => jobs'[s].state = "none"
    BY <1>1, <1>3, <1>4 DEF CommandInv, RunnerInv
  <2>4. \A f \in Execs : execs'[f].st \in {"starting", "running"} =>
           f # e /\ execs'[f] = execs[f] /\ execs[f].job \in Shells /\ jobs'[execs[f].job].state # "none"
    BY <1>3, <2>2 DEF CommandInv, RunnerInv
  <2>5. \A f \in Execs : execs'[f].st = "running" => jobs'[execs'[f].job].state = "running"
    BY <1>3, <2>1, <2>4 DEF CommandInv, RunnerInv
  <2> QED BY <2>3, <2>4, <2>5 DEF CommandInv, RunnerInv
<1> QED BY <1>5, <1>6 DEF CommandInv

LEMMA KillKeeps ==
    ASSUME CommandInv, NEW e \in Execs, KillExec(e)
    PROVE  CommandInv'
<1>1. /\ execs' = [execs EXCEPT ![e] = Exited(FALSE)] /\ deaths' = deaths + 1
      /\ UNCHANGED <<content, readable, jobs, shells>>
  BY DEF KillExec
<1>2. Exited(FALSE) \in ExecStates /\ Exited(FALSE).st = "exited"
  BY ExecShapes
<1>3. /\ execs' \in [Execs -> ExecStates] /\ execs'[e].st = "exited"
      /\ \A f \in Execs \ {e} : execs'[f] = execs[f]
  BY <1>1, <1>2 DEF CommandInv, CommandTypeOK
<1>4. CommandTypeOK'
  <2>1. deaths' \in Nat
    BY <1>1 DEF CommandInv, CommandTypeOK
  <2> QED BY <1>1, <1>3, <2>1 DEF CommandInv, CommandTypeOK
<1>5. AgreedInv'
  BY <1>1 DEF CommandInv, AgreedInv
<1>6. RunnerInv'
  BY <1>1, <1>3 DEF CommandInv, RunnerInv
<1> QED BY <1>4, <1>5, <1>6 DEF CommandInv

----------------------------------------------------------------------------
(* The command line's results                                              *)

\* One step of the whole system keeps the invariant.
LEMMA CommandStep == CommandInv /\ [CommandNext]_commandVars => CommandInv'
<1> SUFFICES ASSUME CommandInv, [CommandNext]_commandVars PROVE CommandInv'
  OBVIOUS
<1>1. ASSUME NEW s \in Shells, RefuseUsage(s) PROVE CommandInv'
  BY <1>1, LeaveKeeps, CodeWords DEF RefuseUsage
<1>2. ASSUME NEW s \in Shells, NEW cmd \in Typed[s], Invoke(s, cmd) PROVE CommandInv'
  BY <1>2, InvokeKeeps
<1>3. ASSUME NEW s \in Shells, NEW cmd \in Typed[s], InvokePlain(s, cmd) PROVE CommandInv'
  BY <1>3, InvokePlainKeeps
<1>4. ASSUME NEW s \in Shells, ConfirmationFails(s) PROVE CommandInv'
  BY <1>4, LeaveKeeps, CodeWords DEF ConfirmationFails
<1>5. ASSUME NEW s \in Shells, CreateJob(s) PROVE CommandInv'
  BY <1>5, CreateKeeps
<1>6. ASSUME NEW s \in Shells, NEW j \in Shells, NEW cmd \in Typed[s], RetryJob(s, j, cmd) PROVE CommandInv'
  BY <1>6, RetryKeeps
<1>7. ASSUME NEW s \in Shells, NEW j \in Shells, RunJob(s, j) PROVE CommandInv'
  BY <1>7, RunJobKeeps
<1>8. ASSUME NEW s \in Shells, NEW j \in Shells, CancelJob(s, j) PROVE CommandInv'
  BY <1>8, CancelKeeps
<1>9. ASSUME NEW s \in Shells, LoadRecord(s) \/ CheckExecutor(s) \/ \E j \in Shells : WaitJob(s, j)
      PROVE  CommandInv'
  BY <1>9, WatchKeeps
<1>10. ASSUME NEW s \in Shells, Interrupt(s) PROVE CommandInv'
  BY <1>10, LeaveKeeps, CodeWords DEF Interrupt
<1>11. ASSUME NEW e \in Execs, BeginRun(e) PROVE CommandInv'
  BY <1>11, BeginKeeps
<1>12. ASSUME NEW e \in Execs, RunSteps(e) PROVE CommandInv'
  BY <1>12, RunKeeps
<1>13. ASSUME NEW e \in Execs, KillExec(e) PROVE CommandInv'
  BY <1>13, KillKeeps
<1>14. CASE BreakStore
  <2>1. content' \in Nat /\ readable' = FALSE /\ UNCHANGED <<jobs, shells, execs, deaths>>
    BY <1>14 DEF BreakStore, CommandInv, CommandTypeOK
  <2>2. CommandTypeOK'
    BY <2>1 DEF CommandInv, CommandTypeOK
  <2> QED BY <2>1, <2>2 DEF CommandInv, AgreedInv, RunnerInv
<1>15. CASE UNCHANGED commandVars
  BY <1>15 DEF commandVars, CommandInv, CommandTypeOK, AgreedInv, RunnerInv
<1>16. DOMAIN execs = Execs
  BY DEF CommandInv, CommandTypeOK
<1> QED BY <1>1, <1>2, <1>3, <1>4, <1>5, <1>6, <1>7, <1>8, <1>9, <1>10, <1>11, <1>12, <1>13, <1>14, <1>15, <1>16
        DEF CommandNext

\* What was agreed at a prompt is what the record expects, and a record is
\* run by one executor, whatever shells and executors do and die.
THEOREM CommandInvHolds == CommandSpec => []CommandInv
BY CommandInitHolds, CommandStep, PTL DEF CommandSpec

\* A record that is being run turns into "succeeded" only by its executor's
\* replacing step.
LEMMA AgreedStep ==
    ASSUME CommandInv, CommandNext, NEW e \in Execs, execs[e].st = "running",
           jobs[execs[e].job].cmd \in Destructive, jobs'[execs[e].job].state = "succeeded"
    PROVE  content = jobs[execs[e].job].agreed
<1> DEFINE j == execs[e].job
<1>1. j \in Shells /\ jobs[j].state = "running" /\ DOMAIN execs = Execs
  BY DEF CommandInv, CommandTypeOK, RunnerInv
<1>2. jobs' # jobs
  BY <1>1
<1>3. ~\E s \in Shells : CreateJob(s)
  <2> SUFFICES ASSUME NEW s \in Shells, CreateJob(s) PROVE FALSE
    OBVIOUS
  <2>1. s # j
    BY <1>1 DEF CreateJob, CommandInv, RunnerInv
  <2>2. jobs'[j] = jobs[j]
    BY <1>1, <2>1 DEF CreateJob, CommandInv, CommandTypeOK
  <2> QED BY <1>1, <2>2
<1>4. ~\E s \in Shells, i \in Shells : CancelJob(s, i)
  BY <1>1, CancelEffect
<1>5. ~\E f \in Execs : BeginRun(f)
  <2> SUFFICES ASSUME NEW f \in Execs, BeginRun(f) PROVE FALSE
    OBVIOUS
  <2>1. jobs' = [jobs EXCEPT ![execs[f].job].state = "running"] /\ execs[f].job # j
    BY <1>2, BeginEffect
  <2>2. jobs'[j] = jobs[j]
    <3> HIDE DEF j
    <3> QED BY <1>1, <2>1 DEF CommandInv, CommandTypeOK
  <2> QED BY <1>1, <2>2
<1>6. PICK f \in Execs : RunSteps(f)
  <2>1. ASSUME NEW s \in Shells
        PROVE  ~(RefuseUsage(s) \/ ConfirmationFails(s) \/ LoadRecord(s) \/ CheckExecutor(s) \/ Interrupt(s))
    BY <1>2 DEF RefuseUsage, ConfirmationFails, LoadRecord, CheckExecutor, Interrupt
  <2>2. ASSUME NEW s \in Shells PROVE ~\E cmd \in Typed[s] : Invoke(s, cmd) \/ InvokePlain(s, cmd)
    BY <1>2 DEF Invoke, InvokePlain
  <2>3. ASSUME NEW s \in Shells, NEW i \in Shells
        PROVE  ~(RunJob(s, i) \/ WaitJob(s, i)) /\ ~\E cmd \in Typed[s] : RetryJob(s, i, cmd)
    BY <1>2 DEF RetryJob, RunJob, WaitJob
  <2>4. ~(\E f \in Execs : KillExec(f)) /\ ~BreakStore
    BY <1>2 DEF KillExec, BreakStore
  <2>5. ASSUME NEW s \in Shells, NEW i \in Shells PROVE ~CreateJob(s) /\ ~CancelJob(s, i)
    BY <1>3, <1>4
  <2> HIDE DEF j
  <2> QED BY <1>1, <1>5, <2>1, <2>2, <2>3, <2>4, <2>5 DEF CommandNext
<1>7. PICK verdict \in {"succeeded", "failed", "cancelled", "blocked"} :
         /\ Conclude(f, verdict) /\ execs[f].st = "running"
         /\ jobs[execs[f].job].cmd \in Destructive /\ verdict = "succeeded" => content = jobs[execs[f].job].expect
  BY <1>6, RunEffect
<1>8. execs[f].job = j /\ verdict = "succeeded"
  BY <1>1, <1>7, ConcludeEffect
<1> QED BY <1>1, <1>7, <1>8 DEF CommandInv, AgreedInv

\* A clear or a restore replaces only what its user agreed to lose.
THEOREM ReplacesHolds == CommandSpec => ReplacesWhatWasAgreed
<1>1. CommandInv /\ [CommandNext]_commandVars =>
         [\A e \in DOMAIN execs :
            LET j == execs[e].job
            IN  execs[e].st = "running" /\ jobs[j].cmd \in Destructive /\ jobs'[j].state = "succeeded"
                => content = jobs[j].agreed]_commandVars
  <2> SUFFICES ASSUME CommandInv, CommandNext, NEW e \in DOMAIN execs, execs[e].st = "running",
                      jobs[execs[e].job].cmd \in Destructive, jobs'[execs[e].job].state = "succeeded"
               PROVE  content = jobs[execs[e].job].agreed
    OBVIOUS
  <2>1. e \in Execs
    BY DEF CommandInv, CommandTypeOK
  <2> QED BY <2>1, AgreedStep
<1> QED BY <1>1, CommandInvHolds, PTL DEF CommandSpec, ReplacesWhatWasAgreed

----------------------------------------------------------------------------
(* What a watching shell reports                                           *)

Over == {"succeeded", "failed", "cancelled"}

\* A shell that watches knows the executor it watches: it runs the operation
\* that is watched, and when it brought it to its end the record says so.  The
\* grace begins when the executor is gone, so a record that was loaded during
\* it, and was not over, is one the executor did not end.
WatchOf(s) ==
    /\ shells[s].pc # "done" => shells[s].exit = "none"
    /\ shells[s].pc = "loaded" => shells[s].cmd # "wait"
    /\ shells[s].pc \in {"watch", "loaded"} /\ shells[s].cmd # "wait" =>
          /\ shells[s].job \in Shells
          /\ execs[Watched(s)].st \in {"starting", "running"} => execs[Watched(s)].job = shells[s].job
          /\ execs[Watched(s)].ended => jobs[shells[s].job].state \in Over
          /\ shells[s].grace => execs[Watched(s)].st = "exited"
          /\ shells[s].grace /\ shells[s].pc = "loaded" => ~execs[Watched(s)].ended

WatchInv == \A s \in Shells : WatchOf(s)

\* An operation that is over stays over.
OverStays == \A j \in Shells : jobs[j].state \in Over => jobs'[j].state \in Over

\* The executor a shell watches is one of its own.
LEMMA WatchedExec == \A s \in Shells : Watched(s) \in Execs
BY DEF Watched, Execs

\* A shell is not disturbed by what others do, nor by its own executor that
\* claims its operation, is killed, gives up, or ends it.
LEMMA WatchFrame ==
    ASSUME CommandInv, NEW s \in Shells, WatchOf(s), OverStays, shells'[s] = shells[s],
           LET w == execs[Watched(s)]
               v == execs'[Watched(s)]
           IN  \/ v = w
               \/ /\ w.st \in {"starting", "running"}
                  /\ v.st \in {"starting", "running"} => v.job = w.job
                  /\ v.ended => v.st = "exited" /\ jobs'[w.job].state \in Over
    PROVE  WatchOf(s)'
<1>1. Watched(s)' = Watched(s)
  BY DEF Watched
<1> QED BY <1>1 DEF WatchOf, OverStays

\* A step of one shell leaves the others alone when it leaves the executors.
LEMMA WatchShell ==
    ASSUME CommandInv, WatchInv, NEW s \in Shells, NEW r, shells' = [shells EXCEPT ![s] = r],
           execs' = execs, OverStays, WatchOf(s)'
    PROVE  WatchInv'
<1>1. \A u \in Shells \ {s} : shells'[u] = shells[u]
  BY DEF CommandInv, CommandTypeOK
<1>2. ASSUME NEW u \in Shells \ {s} PROVE WatchOf(u)'
  BY <1>1, WatchFrame DEF WatchInv
<1> QED BY <1>2 DEF WatchInv

\* A shell that has said its exit code, or has not begun to watch.
LEMMA WatchIdle ==
    ASSUME CommandInv, WatchInv, NEW s \in Shells, NEW r,
           r.pc = "done" \/ (r.pc \in {"idle", "shown"} /\ r.exit = "none"),
           shells' = [shells EXCEPT ![s] = r], execs' = execs, OverStays
    PROVE  WatchInv'
<1>1. shells'[s] = r
  BY DEF CommandInv, CommandTypeOK
<1>2. WatchOf(s)'
  BY <1>1 DEF WatchOf
<1> QED BY <1>2, WatchShell

\* What the records of a step hold.
LEMMA ExitShape == \A code : Left(code).pc = "done"
BY DEF Left, AtPrompt

LEMMA WatchShape ==
    /\ AtPrompt.exit = "none" /\ ~AtPrompt.grace
    /\ \A cmd, j : /\ Watches(cmd, j).pc = "watch" /\ Watches(cmd, j).cmd = cmd /\ Watches(cmd, j).job = j
                   /\ ~Watches(cmd, j).grace /\ Watches(cmd, j).exit = "none"
    /\ \A ended : Exited(ended).st = "exited" /\ Exited(ended).ended = ended
    /\ \A j, again : /\ Spawned(j, again).st = "starting" /\ Spawned(j, again).job = j
                     /\ ~Spawned(j, again).ended
BY DEF AtPrompt, Watches, Exited, NoExec, Spawned

\* Refusing, showing, leaving: no executor and no record changes.
LEMMA WatchQuiet ==
    ASSUME CommandInv, WatchInv, NEW s \in Shells,
           \/ RefuseUsage(s) \/ ConfirmationFails(s) \/ Interrupt(s)
           \/ \E cmd \in Typed[s] : Invoke(s, cmd) \/ InvokePlain(s, cmd)
    PROVE  WatchInv'
<1>1. UNCHANGED <<jobs, execs>>
  BY DEF RefuseUsage, ConfirmationFails, Interrupt, Invoke, InvokePlain
<1>2. OverStays
  BY <1>1 DEF OverStays
<1>3. CASE \E code : Exits(s, code)
  <2>1. PICK code : shells' = [shells EXCEPT ![s] = Left(code)]
    BY <1>3 DEF Exits, Left
  <2> QED BY <1>1, <1>2, <2>1, ExitShape, WatchIdle
<1>4. ASSUME NEW cmd, NEW x, NEW a,
             shells' = [shells EXCEPT ![s] = [AtPrompt EXCEPT !.pc = "shown", !.cmd = cmd, !.expect = x, !.agreed = a]]
      PROVE  WatchInv'
  <2> DEFINE r == [AtPrompt EXCEPT !.pc = "shown", !.cmd = cmd, !.expect = x, !.agreed = a]
  <2>1. r.pc = "shown" /\ r.exit = "none"
    BY DEF AtPrompt
  <2> QED BY <1>1, <1>2, <1>4, <2>1, WatchIdle
<1>5. ASSUME NEW cmd, shells' = [shells EXCEPT ![s] = [AtPrompt EXCEPT !.pc = "shown", !.cmd = cmd]]
      PROVE  WatchInv'
  <2> DEFINE r == [AtPrompt EXCEPT !.pc = "shown", !.cmd = cmd]
  <2>1. r.pc = "shown" /\ r.exit = "none"
    BY DEF AtPrompt
  <2> QED BY <1>1, <1>2, <1>5, <2>1, WatchIdle
<1>6. ASSUME NEW cmd \in Typed[s], Invoke(s, cmd) PROVE WatchInv'
  <2>1. PICK f \in {g \in Flags : ~FlagsRefused(cmd, g) /\ EpochAsNamed(cmd, g)} :
             shells' = [shells EXCEPT ![s] =
                [AtPrompt EXCEPT !.pc = "shown", !.cmd = cmd,
                   !.expect = IF cmd = "restore_unreadable" THEN f.print ELSE content,
                   !.agreed = CASE cmd = "restore_unreadable" -> f.print
                                [] f.yes /\ cmd \in {"clear", "restore"} -> f.epoch
                                [] OTHER -> content]]
    BY <1>6 DEF Invoke
  <2> QED BY <1>4, <2>1
<1>7. ASSUME NEW cmd \in Typed[s], InvokePlain(s, cmd) PROVE WatchInv'
  BY <1>3, <1>5, <1>7 DEF InvokePlain
<1>8. RefuseUsage(s) \/ ConfirmationFails(s) \/ Interrupt(s) => \E code : Exits(s, code)
  BY DEF RefuseUsage, ConfirmationFails, Interrupt
<1> QED BY <1>3, <1>6, <1>7, <1>8

\* The record and its executor are created together, by a shell that then
\* watches them.
LEMMA WatchCreate ==
    ASSUME CommandInv, WatchInv, NEW s \in Shells, CreateJob(s)
    PROVE  WatchInv'
<1>1. /\ shells[s].pc = "shown" /\ UNCHANGED <<content, readable, deaths>>
      /\ execs' = [e \in Execs |-> IF e[1] = s /\ (e[2] = 1 \/ shells[s].cmd = "rebuild_wait")
                                   THEN Spawned(s, FALSE) ELSE execs[e]]
      /\ \A u \in Shells \ {s} : jobs'[u] = jobs[u]
      /\ shells \in [Shells -> ShellStates]
  BY DEF CreateJob, CommandInv, CommandTypeOK
<1>2. jobs[s].state = "none"
  BY <1>1 DEF CommandInv, RunnerInv
<1>3. OverStays
  BY <1>1, <1>2 DEF OverStays, Over
<1>4. PICK r : shells' = [shells EXCEPT ![s] = r] /\ r \in {Left("0"), Watches(shells[s].cmd, s)}
  BY DEF CreateJob, Exits, Left, Watching, Watches
<1>5. shells'[s] = r /\ \A u \in Shells \ {s} : shells'[u] = shells[u]
  BY <1>1, <1>4
<1>6. ASSUME NEW u \in Shells \ {s} PROVE WatchOf(u)'
  <2>1. Watched(u) \in Execs /\ Watched(u)[1] = u
    BY DEF Watched, Execs
  <2>2. execs'[Watched(u)] = execs[Watched(u)]
    BY <1>1, <2>1
  <2> QED BY <1>3, <1>5, <2>2, WatchFrame DEF WatchInv
<1>7. WatchOf(s)'
  <2>1. CASE r = Left("0")
    BY <1>5, <2>1, ExitShape DEF WatchOf
  <2>2. CASE r = Watches(shells[s].cmd, s)
    <3>1. shells'[s].cmd = shells[s].cmd
      BY <1>5, <2>2, WatchShape
    <3>2. execs'[Watched(s)'] = Spawned(s, FALSE)
      <4>1. CASE shells[s].cmd = "rebuild_wait"
        BY <1>1, <3>1, <4>1 DEF Watched, Execs
      <4>2. CASE shells[s].cmd # "rebuild_wait"
        BY <1>1, <3>1, <4>2 DEF Watched, Execs
      <4> QED BY <4>1, <4>2
    <3>3. /\ shells'[s].pc = "watch" /\ shells'[s].job = s /\ ~shells'[s].grace /\ shells'[s].exit = "none"
      BY <1>5, <2>2, WatchShape
    <3>4. /\ execs'[Watched(s)'].st = "starting" /\ execs'[Watched(s)'].job = s /\ ~execs'[Watched(s)'].ended
      BY <3>2 DEF Spawned
    <3> QED BY <3>3, <3>4 DEF WatchOf
  <2> QED BY <1>4, <2>1, <2>2
<1> QED BY <1>6, <1>7 DEF WatchInv

\* A shell at its prompt that spawns an executor for another's record.
LEMMA WatchSpawn ==
    ASSUME CommandInv, WatchInv, NEW s \in Shells, NEW j \in Shells, NEW again, NEW cmd, cmd # "rebuild_wait",
           execs' = [execs EXCEPT ![<<s, 1>>] = Spawned(j, again)], UNCHANGED jobs,
           NEW r, shells' = [shells EXCEPT ![s] = r], r \in {Left("0"), Watches(cmd, j)}
    PROVE  WatchInv'
<1>1. shells \in [Shells -> ShellStates] /\ execs \in [Execs -> ExecStates] /\ <<s, 1>> \in Execs
  BY DEF CommandInv, CommandTypeOK, Execs
<1>2. shells'[s] = r /\ \A u \in Shells \ {s} : shells'[u] = shells[u]
  BY <1>1
<1>3. OverStays
  BY DEF OverStays
<1>4. execs'[<<s, 1>>] = Spawned(j, again) /\ \A e \in Execs : e # <<s, 1>> => execs'[e] = execs[e]
  BY <1>1
<1>5. ASSUME NEW u \in Shells \ {s} PROVE WatchOf(u)'
  <2>1. Watched(u) \in Execs /\ Watched(u) # <<s, 1>>
    BY DEF Watched, Execs
  <2> QED BY <1>2, <1>3, <1>4, <2>1, WatchFrame DEF WatchInv
<1>6. WatchOf(s)'
  <2>1. CASE r = Left("0")
    BY <1>2, <2>1, ExitShape DEF WatchOf
  <2>2. CASE r = Watches(cmd, j)
    <3>1. shells'[s].cmd = cmd
      BY <1>2, <2>2, WatchShape
    <3>2. execs'[Watched(s)'] = Spawned(j, again)
      BY <1>4, <3>1 DEF Watched
    <3> QED BY <1>2, <2>2, <3>2, WatchShape DEF WatchOf
  <2> QED BY <2>1, <2>2
<1> QED BY <1>5, <1>6 DEF WatchInv

\* rebuild --retry and operation run spawn a new one; operation cancel looks at
\* the record only.
LEMMA WatchRetry ==
    ASSUME CommandInv, WatchInv, NEW s \in Shells, NEW j \in Shells, NEW cmd \in Typed[s], RetryJob(s, j, cmd)
    PROVE  WatchInv'
<1>1. cmd # "rebuild_wait" /\ UNCHANGED jobs
  BY DEF RetryJob
<1>2. CASE Exits(s, "1") /\ UNCHANGED execs
  <2>1. shells' = [shells EXCEPT ![s] = Left("1")]
    BY <1>2 DEF Exits, Left
  <2>2. OverStays
    BY <1>1 DEF OverStays
  <2> QED BY <1>2, <2>1, <2>2, ExitShape, WatchIdle
<1>3. CASE execs' = [execs EXCEPT ![<<s, 1>>] = Spawned(j, TRUE)] /\ (Exits(s, "0") \/ shells' = [shells EXCEPT ![s] = Watches(cmd, j)])
  <2>1. \E r : shells' = [shells EXCEPT ![s] = r] /\ r \in {Left("0"), Watches(cmd, j)}
    BY <1>3 DEF Exits, Left
  <2> QED BY <1>1, <1>3, <2>1, WatchSpawn
<1> QED BY <1>2, <1>3 DEF RetryJob, Watches

LEMMA WatchRun ==
    ASSUME CommandInv, WatchInv, NEW s \in Shells, NEW j \in Shells, RunJob(s, j)
    PROVE  WatchInv'
<1>1. /\ UNCHANGED jobs /\ execs' = [execs EXCEPT ![<<s, 1>>] = Spawned(j, FALSE)]
      /\ shells' = [shells EXCEPT ![s] = Left("0")]
  BY DEF RunJob, Exits, Left
<1>2. "run" # "rebuild_wait" /\ Left("0") \in {Left("0"), Watches("run", j)}
  OBVIOUS
<1> QED BY <1>1, <1>2, WatchSpawn

LEMMA WatchCancel ==
    ASSUME CommandInv, WatchInv, NEW s \in Shells, NEW j \in Shells, CancelJob(s, j)
    PROVE  WatchInv'
<1>1. OverStays
  BY CancelEffect DEF OverStays, Over
<1>2. execs' = execs
  BY DEF CancelJob
<1>3. \E code : shells' = [shells EXCEPT ![s] = Left(code)]
  BY DEF CancelJob, Exits, Left
<1> QED BY <1>1, <1>2, <1>3, ExitShape, WatchIdle

\* operation wait looks at no executor.
LEMMA WatchWait ==
    ASSUME CommandInv, WatchInv, NEW s \in Shells, NEW j \in Shells, WaitJob(s, j)
    PROVE  WatchInv'
<1>1. shells' = [shells EXCEPT ![s] = Watches("wait", j)] /\ UNCHANGED <<jobs, execs>>
  BY DEF WaitJob, Watches
<1>2. shells'[s] = Watches("wait", j)
  BY <1>1 DEF CommandInv, CommandTypeOK
<1>3. WatchOf(s)'
  BY <1>2, WatchShape DEF WatchOf
<1>4. OverStays
  BY <1>1 DEF OverStays
<1> QED BY <1>1, <1>3, <1>4, WatchShell

\* The record first: if it is not over, an executor that is gone did not end it.
LEMMA WatchLoad ==
    ASSUME CommandInv, WatchInv, NEW s \in Shells, LoadRecord(s)
    PROVE  WatchInv'
<1>1. UNCHANGED <<jobs, execs>> /\ shells[s].pc = "watch" /\ shells[s] \in ShellStates
  BY DEF LoadRecord, CommandInv, CommandTypeOK
<1>2. OverStays
  BY <1>1 DEF OverStays
<1>3. CASE \E code : Exits(s, code)
  <2>1. \E code : shells' = [shells EXCEPT ![s] = Left(code)]
    BY <1>3 DEF Exits, Left
  <2> QED BY <1>1, <1>2, <2>1, ExitShape, WatchIdle
<1>4. CASE /\ ~Ended(jobs[shells[s].job].state) /\ shells[s].cmd # "wait"
           /\ shells' = [shells EXCEPT ![s].pc = "loaded"]
  <2> DEFINE r == [shells[s] EXCEPT !.pc = "loaded"]
  <2>1. /\ r.pc = "loaded" /\ r.cmd = shells[s].cmd /\ r.job = shells[s].job
        /\ r.grace = shells[s].grace /\ r.exit = shells[s].exit
    BY <1>1 DEF ShellStates
  <2>2. shells' = [shells EXCEPT ![s] = r] /\ shells'[s] = r
    BY <1>4 DEF CommandInv, CommandTypeOK
  <2> HIDE DEF r
  <2>3. Watched(s)' = Watched(s)
    BY <2>1, <2>2 DEF Watched
  <2>4. WatchOf(s)
    BY DEF WatchInv
  <2>5. jobs[shells[s].job].state \notin Over
    BY <1>4 DEF Ended, Over
  <2>6. WatchOf(s)'
    BY <1>1, <1>4, <2>1, <2>2, <2>3, <2>4, <2>5 DEF WatchOf
  <2> QED BY <1>1, <1>2, <2>2, <2>6, WatchShell
<1> QED BY <1>3, <1>4 DEF LoadRecord

\* Then the executor: gone for longer than the grace, or the grace begins.
LEMMA WatchCheck ==
    ASSUME CommandInv, WatchInv, NEW s \in Shells, CheckExecutor(s)
    PROVE  WatchInv'
<1>1. UNCHANGED <<jobs, execs>> /\ shells[s].pc = "loaded" /\ shells[s] \in ShellStates
  BY DEF CheckExecutor, CommandInv, CommandTypeOK
<1>2. OverStays
  BY <1>1 DEF OverStays
<1>3. CASE Exits(s, "executor_exited")
  <2>1. shells' = [shells EXCEPT ![s] = Left("executor_exited")]
    BY <1>3 DEF Exits, Left
  <2> QED BY <1>1, <1>2, <2>1, ExitShape, WatchIdle
<1>4. CASE shells' = [shells EXCEPT ![s].pc = "watch", ![s].grace = execs[Watched(s)].st = "exited"]
  <2> DEFINE r == [shells[s] EXCEPT !.pc = "watch", !.grace = execs[Watched(s)].st = "exited"]
  <2>1. /\ r.pc = "watch" /\ r.cmd = shells[s].cmd /\ r.job = shells[s].job
        /\ r.grace <=> execs[Watched(s)].st = "exited"
        /\ r.exit = shells[s].exit
    BY <1>1 DEF ShellStates
  <2>2. shells' = [shells EXCEPT ![s] = r] /\ shells'[s] = r
    BY <1>1, <1>4 DEF CommandInv, CommandTypeOK, ShellStates
  <2> HIDE DEF r
  <2>3. Watched(s)' = Watched(s)
    BY <2>1, <2>2 DEF Watched
  <2>4. WatchOf(s)
    BY DEF WatchInv
  <2>5. WatchOf(s)'
    BY <1>1, <2>1, <2>2, <2>3, <2>4 DEF WatchOf
  <2> QED BY <1>1, <1>2, <2>2, <2>5, WatchShell
<1> QED BY <1>3, <1>4 DEF CheckExecutor

\* The executors: each disturbs only the shell that watches it, and only in
\* the ways WatchFrame allows.
LEMMA WatchBegin ==
    ASSUME CommandInv, WatchInv, NEW e \in Execs, BeginRun(e)
    PROVE  WatchInv'
<1>1. execs[e].st = "starting" /\ shells' = shells /\ execs[e] \in ExecStates /\ execs[e].job \in Shells
  BY DEF BeginRun, CommandInv, CommandTypeOK, RunnerInv
<1>2. OverStays /\ execs'[e].st \in {"running", "exited"} /\ (execs'[e].st = "running" => execs'[e].job = execs[e].job)
      /\ (execs'[e].ended => execs[e].ended) /\ \A f \in Execs \ {e} : execs'[f] = execs[f]
  <2>1. CASE jobs' = jobs /\ execs' = [execs EXCEPT ![e] = Exited(FALSE)]
    <3>1. execs'[e] = Exited(FALSE) /\ \A f \in Execs \ {e} : execs'[f] = execs[f]
      BY <2>1 DEF CommandInv, CommandTypeOK
    <3> QED BY <2>1, <3>1, WatchShape DEF OverStays
  <2>2. CASE /\ jobs[execs[e].job].state \notin Over
             /\ execs' = [execs EXCEPT ![e].st = "running"]
             /\ jobs' = [jobs EXCEPT ![execs[e].job].state = "running"]
    <3>1. /\ execs'[e].st = "running" /\ execs'[e].job = execs[e].job /\ execs'[e].ended = execs[e].ended
          /\ \A f \in Execs \ {e} : execs'[f] = execs[f]
      BY <1>1, <2>2 DEF CommandInv, CommandTypeOK, ExecStates
    <3>2. \A j \in Shells : j # execs[e].job => jobs'[j] = jobs[j]
      BY <2>2 DEF CommandInv, CommandTypeOK
    <3> QED BY <2>2, <3>1, <3>2 DEF OverStays
  <2> QED BY <2>1, <2>2 DEF BeginRun, Over
<1>3. ASSUME NEW s \in Shells PROVE WatchOf(s)'
  <2>1. CASE Watched(s) # e
    BY <1>1, <1>2, <2>1, WatchedExec, WatchFrame DEF WatchInv
  <2>2. CASE Watched(s) = e
    <3>1. WatchOf(s) /\ Watched(s)' = Watched(s)
      BY <1>1 DEF WatchInv, Watched
    <3> QED BY <1>1, <1>2, <2>2, <3>1 DEF WatchOf, OverStays
  <2> QED BY <2>1, <2>2
<1> QED BY <1>3 DEF WatchInv

\* It marks the record as over, or leaves without having done so.
LEMMA WatchSteps ==
    ASSUME CommandInv, WatchInv, NEW e \in Execs, RunSteps(e)
    PROVE  WatchInv'
<1>1. execs[e].st = "running" /\ shells' = shells
  BY RunEffect
<1>2. PICK verdict \in {"succeeded", "failed", "cancelled", "blocked"} : Conclude(e, verdict)
  BY RunEffect
<1>3. /\ execs'[e].st = "exited" /\ \A f \in Execs \ {e} : execs'[f] = execs[f]
      /\ jobs'[execs[e].job].state = verdict /\ \A u \in Shells \ {execs[e].job} : jobs'[u] = jobs[u]
  BY <1>1, <1>2, ConcludeEffect
<1>4. execs'[e].ended => verdict \in Over
  <2>1. execs'[e] = Exited(verdict \notin {"running", "blocked"})
    BY <1>2 DEF Conclude, CommandInv, CommandTypeOK
  <2> QED BY <2>1, WatchShape DEF Over
<1>5. jobs[execs[e].job].state = "running"
  BY <1>1 DEF CommandInv, RunnerInv
<1>6. OverStays
  BY <1>3, <1>5 DEF OverStays, Over
<1>7. ASSUME NEW s \in Shells PROVE WatchOf(s)'
  <2>1. execs'[Watched(s)] = execs[Watched(s)] \/ Watched(s) = e
    BY <1>3, WatchedExec
  <2> QED BY <1>1, <1>3, <1>4, <1>6, <2>1, WatchFrame DEF WatchInv
<1> QED BY <1>7 DEF WatchInv

LEMMA WatchKill ==
    ASSUME CommandInv, WatchInv, NEW e \in Execs, KillExec(e)
    PROVE  WatchInv'
<1>1. execs[e].st \in {"starting", "running"} /\ UNCHANGED <<jobs, shells>>
  BY DEF KillExec
<1>2. execs'[e] = Exited(FALSE) /\ \A f \in Execs \ {e} : execs'[f] = execs[f]
  BY DEF KillExec, CommandInv, CommandTypeOK
<1>3. execs'[e].st = "exited" /\ ~execs'[e].ended
  BY <1>2, WatchShape
<1>4. OverStays
  BY <1>1 DEF OverStays
<1>5. ASSUME NEW s \in Shells PROVE WatchOf(s)'
  <2>1. execs'[Watched(s)] = execs[Watched(s)] \/ Watched(s) = e
    BY <1>2, WatchedExec
  <2> QED BY <1>1, <1>3, <1>4, <2>1, WatchFrame DEF WatchInv
<1> QED BY <1>5 DEF WatchInv

\* Nobody watches at first, and every step keeps what watchers know.
LEMMA WatchInit == CommandInit => WatchInv
<1> SUFFICES ASSUME CommandInit, NEW s \in Shells PROVE WatchOf(s)
  BY DEF WatchInv
<1>1. shells[s] = AtPrompt
  BY DEF CommandInit
<1> QED BY <1>1, ShellShapes, WatchShape DEF WatchOf

LEMMA WatchStep == CommandInv /\ WatchInv /\ [CommandNext]_commandVars => WatchInv'
<1> SUFFICES ASSUME CommandInv, WatchInv, [CommandNext]_commandVars PROVE WatchInv'
  OBVIOUS
<1>1. DOMAIN execs = Execs
  BY DEF CommandInv, CommandTypeOK
<1>2. CASE BreakStore \/ UNCHANGED commandVars
  <2>1. UNCHANGED <<jobs, shells, execs>>
    BY <1>2 DEF BreakStore, commandVars
  <2> QED BY <2>1 DEF WatchInv, WatchOf, Watched
<1> QED
  BY <1>1, <1>2, WatchQuiet, WatchCreate, WatchRetry, WatchRun, WatchCancel, WatchWait, WatchLoad, WatchCheck,
     WatchBegin, WatchSteps, WatchKill
  DEF CommandNext

\* A shell says that its executor left without an outcome only when that
\* executor had not ended the operation (_watch_detached_operation): the record
\* is loaded again after the executor was found gone.
THEOREM OutcomeIsNotMissed == CommandSpec => OutcomeNotMissed
<1>1. CommandInv /\ WatchInv /\ [CommandNext]_commandVars =>
        \A s \in Shells : shells[s].pc = "loaded" /\ shells'[s].exit = "executor_exited"
                          => ~execs[Watched(s)].ended
  <2> SUFFICES ASSUME CommandInv, WatchInv, [CommandNext]_commandVars, NEW s \in Shells,
                      shells[s].pc = "loaded", shells'[s].exit = "executor_exited"
               PROVE  ~execs[Watched(s)].ended
    OBVIOUS
  <2>1. WatchOf(s) /\ shells[s].exit = "none" /\ shells[s] \in ShellStates
    BY DEF WatchInv, WatchOf, CommandInv, CommandTypeOK
  <2>2. shells'[s] # shells[s] /\ shells[s].pc = "loaded"
    BY <2>1
  <2>3. ASSUME CheckExecutor(s) PROVE ~execs[Watched(s)].ended
    <3>1. CASE execs[Watched(s)].st = "exited" /\ GraceOver(s)
      <4>1. shells[s].cmd # "wait" /\ shells[s].grace
        BY <2>1, <3>1 DEF WatchOf, GraceOver
      <4> QED BY <2>1, <2>2, <4>1 DEF WatchOf
    <3>2. CASE ~(execs[Watched(s)].st = "exited" /\ GraceOver(s))
      <4>1. shells' = [shells EXCEPT ![s].pc = "watch", ![s].grace = execs[Watched(s)].st = "exited"]
        BY <2>3, <3>2 DEF CheckExecutor
      <4>2. shells'[s].exit = "none"
        BY <2>1, <4>1 DEF CommandInv, CommandTypeOK, ShellStates
      <4> QED BY <4>2
    <3> QED BY <3>1, <3>2
  <2>4. ASSUME Interrupt(s) PROVE FALSE
    <3>1. shells'[s] = Left("130")
      BY <2>4 DEF Interrupt, Exits, Left, CommandInv, CommandTypeOK
    <3> QED BY <3>1 DEF Left, AtPrompt
  <2>5. ASSUME LoadRecord(s) PROVE FALSE
    BY <2>2, <2>5 DEF LoadRecord
  <2>6. PICK u \in Shells : \E r : shells' = [shells EXCEPT ![u] = r] /\
           (\/ RefuseUsage(u) \/ \E cmd \in Typed[u] : Invoke(u, cmd) \/ InvokePlain(u, cmd)
            \/ ConfirmationFails(u) \/ CreateJob(u)
            \/ \E j \in Shells : \/ \E cmd \in Typed[u] : RetryJob(u, j, cmd)
                                 \/ RunJob(u, j) \/ CancelJob(u, j) \/ WaitJob(u, j)
            \/ LoadRecord(u) \/ CheckExecutor(u) \/ Interrupt(u))
    <3>1. ASSUME NEW u \in Shells
          PROVE  /\ RefuseUsage(u) \/ ConfirmationFails(u) \/ CreateJob(u) \/ Interrupt(u) => \E r : shells' = [shells EXCEPT ![u] = r]
                 /\ \A cmd \in Typed[u] : Invoke(u, cmd) \/ InvokePlain(u, cmd) => \E r : shells' = [shells EXCEPT ![u] = r]
                 /\ \A j \in Shells, cmd \in Typed[u] : RetryJob(u, j, cmd) => \E r : shells' = [shells EXCEPT ![u] = r]
                 /\ \A j \in Shells : RunJob(u, j) \/ CancelJob(u, j) \/ WaitJob(u, j) => \E r : shells' = [shells EXCEPT ![u] = r]
      BY DEF RefuseUsage, ConfirmationFails, CreateJob, Interrupt, Invoke, InvokePlain, RetryJob, RunJob, CancelJob, WaitJob, Exits, Watching
    <3>2. ASSUME NEW u \in Shells, LoadRecord(u) \/ CheckExecutor(u) PROVE \E r : shells' = [shells EXCEPT ![u] = r]
      <4>1. shells[u] \in ShellStates /\ shells \in [Shells -> ShellStates]
        BY DEF CommandInv, CommandTypeOK
      <4>2. CASE \E code : Exits(u, code)
        BY <4>2 DEF Exits
      <4>3. CASE shells' = [shells EXCEPT ![u].pc = "loaded"]
        <5>1. shells' = [shells EXCEPT ![u] = [shells[u] EXCEPT !.pc = "loaded"]]
          BY <4>1, <4>3
        <5> QED BY <5>1
      <4>4. CASE \E g \in BOOLEAN : shells' = [shells EXCEPT ![u].pc = "watch", ![u].grace = g]
        <5>1. PICK g \in BOOLEAN : shells' = [shells EXCEPT ![u].pc = "watch", ![u].grace = g]
          BY <4>4
        <5>2. shells' = [shells EXCEPT ![u] = [shells[u] EXCEPT !.pc = "watch", !.grace = g]]
          BY <4>1, <5>1 DEF ShellStates
        <5> QED BY <5>2
      <4>5. (execs[Watched(u)].st = "exited") \in BOOLEAN
        OBVIOUS
      <4> QED BY <3>2, <4>2, <4>3, <4>4, <4>5 DEF LoadRecord, CheckExecutor
    <3>3. \A e \in DOMAIN execs : ~BeginRun(e) /\ ~RunSteps(e) /\ ~KillExec(e)
      BY <2>2 DEF BeginRun, RunSteps, KillExec
    <3>4. ~BreakStore /\ ~UNCHANGED commandVars
      BY <2>2 DEF BreakStore, commandVars
    <3> QED BY <3>1, <3>2, <3>3, <3>4 DEF CommandNext
  <2>7. u = s
    BY <2>2, <2>6 DEF CommandInv, CommandTypeOK
  <2>8. CheckExecutor(s) \/ Interrupt(s) \/ LoadRecord(s)
    <3>1. ~RefuseUsage(s) /\ ~ConfirmationFails(s) /\ ~CreateJob(s) /\ ~\E cmd \in Typed[s] : Invoke(s, cmd) \/ InvokePlain(s, cmd)
      BY <2>2 DEF RefuseUsage, ConfirmationFails, CreateJob, Invoke, InvokePlain
    <3>2. \A j \in Shells : ~RunJob(s, j) /\ ~CancelJob(s, j) /\ ~WaitJob(s, j) /\ ~\E cmd \in Typed[s] : RetryJob(s, j, cmd)
      BY <2>2 DEF RunJob, CancelJob, WaitJob, RetryJob
    <3> QED BY <2>6, <2>7, <3>1, <3>2
  <2> QED BY <2>3, <2>4, <2>5, <2>8
<1>2. CommandInit => CommandInv /\ WatchInv
  BY CommandInitHolds, WatchInit
<1>3. CommandInv /\ WatchInv /\ [CommandNext]_commandVars => (CommandInv /\ WatchInv)'
  BY CommandStep, WatchStep
<1> QED BY <1>1, <1>2, <1>3, PTL DEF CommandSpec, OutcomeNotMissed
----------------------------------------------------------------------------
(* The control tool                                                        *)


Pid == Pids \cup {NoPid}
ToolPcs == {"idle", "waiting", "asking", "stopping", "done"}
Words == {"none", "running", "exited", "started", "timeout", "healthy", "unhealthy", "stopped"}
Daemons == [st : {"none", "starting", "serving", "dead"}, dir : Dirs, parent : Tools \cup {NoPid}]
ToolStates == [pc : ToolPcs, cmd : ToolCommands \cup {"none"}, pid : Pid, said : Words]

\* The types of the tools', the daemons' and the directories' state.
DaemonTypeOK ==
    /\ pidFile \in [Dirs -> Pid] /\ sockOf \in [Dirs -> Pid]
    /\ readyLogged \in [Dirs -> BOOLEAN]
    /\ daemons \in [Pids -> Daemons]
    /\ tools \in [Tools -> ToolStates]

\* The daemon p was spawned by t and runs.
ChildOf(t, p) == Up(p) /\ daemons[p].parent = t

\* A tool that has not begun has no daemon; the daemon of a verification is
\* the one its pid file names, and the one it waits for, until it is stopped.
ChildrenTracked ==
    \A t \in Tools, p \in Pids :
        ChildOf(t, p) =>
            /\ tools[t].pc # "idle"
            /\ tools[t].cmd = "verify" => /\ tools[t].pc # "done"
                                          /\ pidFile[t] = p
                                          /\ tools[t].pc = "waiting" => tools[t].pid = p

DaemonInv == DaemonTypeOK /\ ChildrenTracked

----------------------------------------------------------------------------
(* What the steps do to the daemons and to the types                       *)

\* A stop leaves no child of the tool under the pid it is given, and starts
\* nothing (_stop_pid).
LEMMA StopEffect ==
    ASSUME DaemonTypeOK, NEW t \in Tools, NEW q \in Pid, StopPid(t, q)
    PROVE  /\ daemons' \in [Pids -> Daemons]
           /\ \A u \in Tools, p \in Pids : ChildOf(u, p)' => ChildOf(u, p)
           /\ \A p \in Pids : ChildOf(t, p)' => p # q
<1>1. CASE PidAlive(t, q)
  <2>1. q \in Pids /\ daemons' = [daemons EXCEPT ![q].st = "dead"]
    BY <1>1 DEF StopPid, Kill, PidAlive, Up
  <2>2. daemons' \in [Pids -> Daemons]
    BY <2>1 DEF DaemonTypeOK, Daemons
  <2>3. \A p \in Pids : /\ p # q => daemons'[p] = daemons[p]
                        /\ daemons'[q].st = "dead" /\ daemons'[q].parent = daemons[q].parent
    BY <2>1 DEF DaemonTypeOK, Daemons
  <2> QED BY <2>1, <2>2, <2>3 DEF ChildOf, Up
<1>2. CASE ~PidAlive(t, q)
  <2>1. daemons' = daemons
    BY <1>2 DEF StopPid
  <2> QED BY <1>2, <2>1 DEF ChildOf, Up, PidAlive, DaemonTypeOK
<1> QED BY <1>1, <1>2

\* A dying daemon makes nobody a parent (DaemonDies).
LEMMA DeathEffect ==
    ASSUME DaemonTypeOK, NEW q \in Pids, Kill(q)
    PROVE  /\ daemons' \in [Pids -> Daemons]
           /\ \A u \in Tools, p \in Pids : ChildOf(u, p)' => ChildOf(u, p)
<1>1. daemons' = [daemons EXCEPT ![q].st = "dead"]
  BY DEF Kill
<1>2. daemons' \in [Pids -> Daemons]
  BY <1>1 DEF DaemonTypeOK, Daemons
<1>3. \A p \in Pids : /\ p # q => daemons'[p] = daemons[p]
                      /\ daemons'[q].st = "dead"
  BY <1>1 DEF DaemonTypeOK, Daemons
<1> QED BY <1>2, <1>3 DEF ChildOf, Up

\* Values the steps assign.
LEMMA Members ==
    /\ NoPid \in Pid /\ Pids \subseteq Pid
    /\ "waiting" \in ToolPcs /\ "asking" \in ToolPcs /\ "stopping" \in ToolPcs /\ "done" \in ToolPcs
    /\ "none" \in Words /\ "exited" \in Words /\ "started" \in Words /\ "timeout" \in Words
    /\ "healthy" \in Words /\ "unhealthy" \in Words /\ "stopped" \in Words
BY DEF Pid, ToolPcs, Words

\* The records the steps give a tool.
Finished(r, word) == [r EXCEPT !.pc = "done", !.pid = NoPid, !.said = word]
Asked(r, word) == [r EXCEPT !.pc = "stopping", !.said = word]
Waiting(cmd, q) == [NoTool EXCEPT !.pc = "waiting", !.cmd = cmd, !.pid = q]
Replied(cmd, word) == [NoTool EXCEPT !.pc = "done", !.cmd = cmd, !.said = word]

\* They are states of a tool.
LEMMA ToolShapes ==
    /\ \A r \in ToolStates, word \in Words :
          /\ Finished(r, word) \in ToolStates /\ Finished(r, word).pc = "done" /\ Finished(r, word).cmd = r.cmd
          /\ Asked(r, word) \in ToolStates /\ Asked(r, word).pc = "stopping" /\ Asked(r, word).cmd = r.cmd
    /\ \A cmd \in ToolCommands, q \in Pid :
          /\ Waiting(cmd, q) \in ToolStates /\ Waiting(cmd, q).pc = "waiting"
          /\ Waiting(cmd, q).cmd = cmd /\ Waiting(cmd, q).pid = q
    /\ \A cmd \in ToolCommands, word \in Words :
          Replied(cmd, word) \in ToolStates /\ Replied(cmd, word).cmd = cmd
<1>1. NoTool \in ToolStates
  BY DEF NoTool, ToolStates, Pid, ToolPcs, Words
<1>2. ASSUME NEW r \in ToolStates, NEW word \in Words
      PROVE  Finished(r, word) \in ToolStates /\ Finished(r, word).pc = "done" /\ Finished(r, word).cmd = r.cmd
  BY Members DEF Finished, ToolStates
<1>3. ASSUME NEW r \in ToolStates, NEW word \in Words
      PROVE  Asked(r, word) \in ToolStates /\ Asked(r, word).pc = "stopping" /\ Asked(r, word).cmd = r.cmd
  BY Members DEF Asked, ToolStates
<1>4. ASSUME NEW cmd \in ToolCommands, NEW q \in Pid
      PROVE  Waiting(cmd, q) \in ToolStates /\ Waiting(cmd, q).pc = "waiting"
             /\ Waiting(cmd, q).cmd = cmd /\ Waiting(cmd, q).pid = q
  BY <1>1, Members DEF Waiting, ToolStates
<1>5. ASSUME NEW cmd \in ToolCommands, NEW word \in Words
      PROVE  Replied(cmd, word) \in ToolStates /\ Replied(cmd, word).cmd = cmd
  BY <1>1, Members DEF Replied, ToolStates
<1> QED BY <1>2, <1>3, <1>4, <1>5

\* Saying the last word leaves a tool done with the command it ran.
LEMMA SayEffect ==
    ASSUME DaemonTypeOK, NEW t \in Tools, NEW word \in Words, Say(t, word)
    PROVE  /\ tools' \in [Tools -> ToolStates]
           /\ tools'[t].pc = "done" /\ tools'[t].cmd = tools[t].cmd
           /\ \A u \in Tools \ {t} : tools'[u] = tools[u]
<1>1. tools' = [tools EXCEPT ![t] = Finished(tools[t], word)]
  BY DEF Say, DaemonTypeOK, ToolStates, Finished
<1>2. /\ Finished(tools[t], word) \in ToolStates
      /\ Finished(tools[t], word).pc = "done" /\ Finished(tools[t], word).cmd = tools[t].cmd
  BY ToolShapes, Members DEF DaemonTypeOK
<1> QED BY <1>1, <1>2 DEF DaemonTypeOK

\* Init: nothing runs.
LEMMA InitHolds == DaemonInit => DaemonInv
<1> SUFFICES ASSUME DaemonInit PROVE DaemonInv
  OBVIOUS
<1>1. NoDaemon \in Daemons /\ NoTool \in ToolStates
  BY DEF NoDaemon, NoTool, Daemons, ToolStates, Dirs, Pid, ToolPcs, Words
<1>2. DaemonTypeOK
  BY <1>1 DEF DaemonInit, DaemonTypeOK, Pid
<1>3. \A p \in Pids : ~Up(p)
  BY DEF DaemonInit, Up, NoDaemon
<1> QED BY <1>2, <1>3 DEF DaemonInv, ChildrenTracked, ChildOf

----------------------------------------------------------------------------
(* One lemma per kind of step                                              *)

\* cmd_start: a tool that has not begun has no daemon, so the one it spawns
\* is its only one; a verification finds nobody alive in its directory.
LEMMA SpawnKeeps ==
    ASSUME DaemonInv, NEW t \in Tools, NEW cmd \in ToolCommands, NEW q \in Pids, SpawnDaemon(t, cmd, q)
    PROVE  DaemonInv'
<1> DEFINE dir == IF cmd = "verify" THEN t ELSE Shared
<1>1. dir \in Dirs /\ tools[t].pc = "idle" /\ cmd \in {"start", "verify"}
  BY DEF SpawnDaemon, Dirs
<1>2. \A p \in Pids : ~ChildOf(t, p)
  BY <1>1 DEF DaemonInv, ChildrenTracked
<1>3. CASE PidAlive(t, pidFile[dir])
  BY <1>2, <1>3 DEF PidAlive, ChildOf, Up
<1>4. CASE ~PidAlive(t, pidFile[dir])
  <2> DEFINE born == [st |-> "starting", dir |-> dir, parent |-> t]
             told == Waiting(cmd, q)
  <2>1. /\ daemons[q].st = "none"
        /\ daemons' = [daemons EXCEPT ![q] = born]
        /\ pidFile' = [pidFile EXCEPT ![dir] = q]
        /\ tools' = [tools EXCEPT ![t] = told]
        /\ UNCHANGED <<sockOf, readyLogged>>
    BY <1>4 DEF SpawnDaemon, Waiting
  <2>2. told \in ToolStates /\ told.pc = "waiting" /\ told.cmd = cmd /\ told.pid = q
    BY ToolShapes, Members
  <2>3. born \in Daemons /\ born.parent = t
    BY <1>1 DEF Daemons
  <2>4. DaemonTypeOK'
    <3> HIDE DEF born, told, dir
    <3> QED BY <1>1, <2>1, <2>2, <2>3 DEF DaemonInv, DaemonTypeOK, Pid
  <2>5. /\ daemons'[q] = born /\ \A p \in Pids \ {q} : daemons'[p] = daemons[p]
        /\ tools'[t] = told /\ \A u \in Tools \ {t} : tools'[u] = tools[u]
        /\ pidFile'[dir] = q /\ \A d \in Dirs \ {dir} : pidFile'[d] = pidFile[d]
    <3> HIDE DEF born, told, dir
    <3> QED BY <1>1, <2>1 DEF DaemonInv, DaemonTypeOK
  <2>6. \A u \in Tools \ {t} : pidFile'[u] = pidFile[u]
    BY <2>5, DaemonShape DEF Dirs
  <2>7. \A u \in Tools, p \in Pids : ChildOf(u, p)' => (ChildOf(u, p) /\ u # t) \/ (u = t /\ p = q)
    <3>1. \A p \in Pids \ {q} : \A u \in Tools : ChildOf(u, p)' => ChildOf(u, p)
      BY <2>5 DEF ChildOf, Up
    <3>2. \A u \in Tools : ChildOf(u, q)' => u = t
      BY <2>5 DEF ChildOf
    <3> QED BY <1>2, <3>1, <3>2
  <2>8. ChildrenTracked'
    <3> SUFFICES ASSUME NEW u \in Tools, NEW p \in Pids, ChildOf(u, p)'
                 PROVE  /\ tools'[u].pc # "idle"
                        /\ tools'[u].cmd = "verify" => /\ tools'[u].pc # "done"
                                                       /\ pidFile'[u] = p
                                                       /\ tools'[u].pc = "waiting" => tools'[u].pid = p
      BY DEF ChildrenTracked
    <3>1. CASE u = t
      <4>1. p = q /\ tools'[t].pc = "waiting" /\ tools'[t].cmd = cmd /\ tools'[t].pid = q
        BY <2>2, <2>5, <2>7, <3>1
      <4>2. cmd = "verify" => pidFile'[t] = q
        BY <2>5
      <4> QED BY <3>1, <4>1, <4>2
    <3>2. CASE u # t
      <4>1. ChildOf(u, p) /\ tools'[u] = tools[u] /\ pidFile'[u] = pidFile[u]
        BY <2>5, <2>6, <2>7, <3>2
      <4> QED BY <4>1 DEF DaemonInv, ChildrenTracked
    <3> QED BY <3>1, <3>2
  <2> QED BY <2>4, <2>8 DEF DaemonInv
<1> QED BY <1>3, <1>4

\* The wait for READY: it ends with the daemon gone, or goes on to the
\* questions of the verification.
LEMMA AwaitKeeps ==
    ASSUME DaemonInv, NEW t \in Tools, AwaitReady(t)
    PROVE  DaemonInv'
<1>1. tools[t].pc = "waiting" /\ UNCHANGED <<pidFile, sockOf, readyLogged, daemons>>
  BY DEF AwaitReady
<1>2. \A u \in Tools, p \in Pids : ChildOf(u, p)' <=> ChildOf(u, p)
  BY <1>1 DEF ChildOf, Up
<1>3. CASE ~PidAlive(t, tools[t].pid) /\ Say(t, "exited")
  <2>1. tools' \in [Tools -> ToolStates] /\ tools'[t].pc = "done" /\ tools'[t].cmd = tools[t].cmd
        /\ \A u \in Tools \ {t} : tools'[u] = tools[u]
    BY <1>3, SayEffect DEF DaemonInv, Words
  <2>2. tools[t].cmd = "verify" => \A p \in Pids : ~ChildOf(t, p)
    BY <1>1, <1>3 DEF DaemonInv, ChildrenTracked, PidAlive, ChildOf
  <2> QED BY <1>1, <1>2, <2>1, <2>2 DEF DaemonInv, DaemonTypeOK, ChildrenTracked
<1>4. CASE tools[t].cmd = "start" /\ Say(t, "started")
  <2>1. tools' \in [Tools -> ToolStates] /\ tools'[t].pc = "done" /\ tools'[t].cmd = tools[t].cmd
        /\ \A u \in Tools \ {t} : tools'[u] = tools[u]
    BY <1>4, SayEffect DEF DaemonInv, Words
  <2> QED BY <1>1, <1>2, <1>4, <2>1 DEF DaemonInv, DaemonTypeOK, ChildrenTracked
<1>5. CASE tools' = [tools EXCEPT ![t].pc = "asking"]
  <2>1. tools' \in [Tools -> ToolStates] /\ tools'[t].pc = "asking" /\ tools'[t].cmd = tools[t].cmd
        /\ \A u \in Tools \ {t} : tools'[u] = tools[u]
    BY <1>5 DEF DaemonInv, DaemonTypeOK, ToolStates, ToolPcs
  <2> QED BY <1>1, <1>2, <2>1 DEF DaemonInv, DaemonTypeOK, ChildrenTracked
<1> QED BY <1>3, <1>4, <1>5 DEF AwaitReady

\* The deadline of cmd_start: the daemon waited for is stopped.
LEMMA TimeoutKeeps ==
    ASSUME DaemonInv, NEW t \in Tools, StartTimesOut(t)
    PROVE  DaemonInv'
<1> DEFINE q == tools[t].pid
<1>1. /\ tools[t].pc = "waiting" /\ StopPid(t, q) /\ Say(t, "timeout")
      /\ UNCHANGED <<pidFile, sockOf, readyLogged>>
  BY DEF StartTimesOut
<1>2. q \in Pid
  BY DEF DaemonInv, DaemonTypeOK, ToolStates
<1>3. tools' \in [Tools -> ToolStates] /\ tools'[t].pc = "done" /\ tools'[t].cmd = tools[t].cmd
      /\ \A u \in Tools \ {t} : tools'[u] = tools[u]
  BY <1>1, SayEffect DEF DaemonInv, Words
<1>4. /\ daemons' \in [Pids -> Daemons]
      /\ \A u \in Tools, p \in Pids : ChildOf(u, p)' => ChildOf(u, p)
      /\ \A p \in Pids : ChildOf(t, p)' => p # q
  BY <1>1, <1>2, StopEffect DEF DaemonInv
<1>5. tools[t].cmd = "verify" => \A p \in Pids : ~ChildOf(t, p)'
  BY <1>1, <1>4 DEF DaemonInv, ChildrenTracked
<1> QED BY <1>1, <1>3, <1>4, <1>5 DEF DaemonInv, DaemonTypeOK, ChildrenTracked

\* The questions of a verification, whatever the answers: it goes on to stop.
LEMMA VerifyKeeps ==
    ASSUME DaemonInv, NEW t \in Tools, VerifyHealth(t)
    PROVE  DaemonInv'
<1>1. /\ tools[t].pc = "asking" /\ UNCHANGED <<pidFile, sockOf, readyLogged, daemons>>
      /\ \E word \in {"healthy", "unhealthy"} :
             tools' = [tools EXCEPT ![t].pc = "stopping", ![t].said = word]
  BY DEF VerifyHealth
<1>2. \A u \in Tools, p \in Pids : ChildOf(u, p)' <=> ChildOf(u, p)
  BY <1>1 DEF ChildOf, Up
<1>3. tools' \in [Tools -> ToolStates] /\ tools'[t].pc = "stopping" /\ tools'[t].cmd = tools[t].cmd
      /\ \A u \in Tools \ {t} : tools'[u] = tools[u]
  <2> PICK word \in {"healthy", "unhealthy"} :
               tools' = [tools EXCEPT ![t].pc = "stopping", ![t].said = word]
    BY <1>1
  <2>1. tools' = [tools EXCEPT ![t] = Asked(tools[t], word)]
    BY DEF DaemonInv, DaemonTypeOK, ToolStates, Asked
  <2>2. /\ Asked(tools[t], word) \in ToolStates
        /\ Asked(tools[t], word).pc = "stopping" /\ Asked(tools[t], word).cmd = tools[t].cmd
    <3>1. tools[t] \in ToolStates /\ word \in Words
      BY Members DEF DaemonInv, DaemonTypeOK
    <3> QED BY <3>1, ToolShapes
  <2> QED BY <2>1, <2>2 DEF DaemonInv, DaemonTypeOK
<1> QED BY <1>1, <1>2, <1>3 DEF DaemonInv, DaemonTypeOK, ChildrenTracked

\* A health question from outside starts and stops nothing.
LEMMA HealthKeeps ==
    ASSUME DaemonInv, NEW t \in Tools, AskHealth(t)
    PROVE  DaemonInv'
<1> DEFINE word == IF Up(sockOf[Shared]) THEN "healthy" ELSE "unhealthy"
           told == Replied("health", word)
<1>1. /\ tools[t].pc = "idle" /\ "health" \in ToolCommands /\ tools' = [tools EXCEPT ![t] = told]
      /\ UNCHANGED <<pidFile, sockOf, readyLogged, daemons>>
  BY DEF AskHealth, Replied
<1>2. \A u \in Tools, p \in Pids : ChildOf(u, p)' <=> ChildOf(u, p)
  BY <1>1 DEF ChildOf, Up
<1>3. word \in Words /\ NoPid \in Pid
  BY DEF Words, Pid
<1>4. told \in ToolStates /\ told.cmd = "health"
  <2> HIDE DEF word
  <2> QED BY <1>1, <1>3, ToolShapes, Members
<1>5. tools' \in [Tools -> ToolStates] /\ tools'[t] = told /\ \A u \in Tools \ {t} : tools'[u] = tools[u]
  <2> HIDE DEF told
  <2> QED BY <1>1, <1>4 DEF DaemonInv, DaemonTypeOK
<1>6. tools'[t].cmd = "health" /\ \A p \in Pids : ~ChildOf(t, p)
  BY <1>1, <1>4, <1>5 DEF DaemonInv, ChildrenTracked
<1> QED BY <1>1, <1>2, <1>5, <1>6 DEF DaemonInv, DaemonTypeOK, ChildrenTracked

\* cmd_stop on one directory: only that pid file changes, and no child of the
\* tool under the pid it held survives.
LEMMA StopDaemonEffect ==
    ASSUME DaemonTypeOK, NEW t \in Tools, NEW dir \in Dirs, StopDaemon(t, dir)
    PROVE  /\ daemons' \in [Pids -> Daemons] /\ pidFile' \in [Dirs -> Pid]
           /\ sockOf' \in [Dirs -> Pid] /\ readyLogged' = readyLogged
           /\ \A d \in Dirs \ {dir} : pidFile'[d] = pidFile[d]
           /\ \A u \in Tools, p \in Pids : ChildOf(u, p)' => ChildOf(u, p)
           /\ \A p \in Pids : ChildOf(t, p)' => p # pidFile[dir]
<1>1. pidFile[dir] \in Pid /\ StopPid(t, pidFile[dir])
  BY DEF StopDaemon, DaemonTypeOK
<1>2. /\ pidFile' \in [Dirs -> Pid] /\ sockOf' \in [Dirs -> Pid] /\ readyLogged' = readyLogged
      /\ \A d \in Dirs \ {dir} : pidFile'[d] = pidFile[d]
  BY DEF StopDaemon, DaemonTypeOK, Pid
<1> QED BY <1>1, <1>2, StopEffect

\* The stop command works on the shared directory: no verification's pid
\* file is there.
LEMMA StopKeeps ==
    ASSUME DaemonInv, NEW t \in Tools, Stop(t)
    PROVE  DaemonInv'
<1> DEFINE told == [pc |-> "done", cmd |-> "stop", pid |-> pidFile[Shared], said |-> "stopped"]
<1>1. /\ tools[t].pc = "idle" /\ "stop" \in ToolCommands /\ StopDaemon(t, Shared)
      /\ tools' = [tools EXCEPT ![t] = told]
  BY DEF Stop
<1>2. Shared \in Dirs /\ \A u \in Tools : u \in Dirs \ {Shared}
  BY DaemonShape DEF Dirs
<1>3. /\ daemons' \in [Pids -> Daemons] /\ pidFile' \in [Dirs -> Pid]
      /\ sockOf' \in [Dirs -> Pid] /\ readyLogged' = readyLogged
      /\ \A d \in Dirs \ {Shared} : pidFile'[d] = pidFile[d]
      /\ \A u \in Tools, p \in Pids : ChildOf(u, p)' => ChildOf(u, p)
  BY <1>1, <1>2, StopDaemonEffect DEF DaemonInv
<1>4. told \in ToolStates
  BY <1>1, <1>2 DEF ToolStates, ToolPcs, Words, DaemonInv, DaemonTypeOK
<1>5. tools' \in [Tools -> ToolStates] /\ tools'[t] = told /\ \A u \in Tools \ {t} : tools'[u] = tools[u]
  <2> HIDE DEF told
  <2> QED BY <1>1, <1>4 DEF DaemonInv, DaemonTypeOK
<1>6. \A p \in Pids : ~ChildOf(t, p)
  BY <1>1 DEF DaemonInv, ChildrenTracked
<1>7. DaemonTypeOK'
  BY <1>3, <1>5 DEF DaemonInv, DaemonTypeOK
<1>8. ChildrenTracked'
  BY <1>2, <1>3, <1>5, <1>6 DEF DaemonInv, ChildrenTracked
<1> QED BY <1>7, <1>8 DEF DaemonInv

\* The finally clause of a verification stops the daemon its pid file names:
\* the only one it may have.
LEMMA StopVerifiedKeeps ==
    ASSUME DaemonInv, NEW t \in Tools, StopVerified(t)
    PROVE  DaemonInv'
<1>1. tools[t].pc = "stopping" /\ StopDaemon(t, t) /\ tools' = [tools EXCEPT ![t].pc = "done"]
  BY DEF StopVerified
<1>2. \A u \in Tools : u \in Dirs
  BY DEF Dirs
<1>3. /\ daemons' \in [Pids -> Daemons] /\ pidFile' \in [Dirs -> Pid]
      /\ sockOf' \in [Dirs -> Pid] /\ readyLogged' = readyLogged
      /\ \A d \in Dirs \ {t} : pidFile'[d] = pidFile[d]
      /\ \A u \in Tools, p \in Pids : ChildOf(u, p)' => ChildOf(u, p)
      /\ \A p \in Pids : ChildOf(t, p)' => p # pidFile[t]
  BY <1>1, <1>2, StopDaemonEffect DEF DaemonInv
<1>4. tools' \in [Tools -> ToolStates] /\ tools'[t].pc = "done" /\ tools'[t].cmd = tools[t].cmd
      /\ \A u \in Tools \ {t} : tools'[u] = tools[u]
  BY <1>1 DEF DaemonInv, DaemonTypeOK, ToolStates, ToolPcs
<1>5. tools[t].cmd = "verify" => \A p \in Pids : ~ChildOf(t, p)'
  BY <1>3 DEF DaemonInv, ChildrenTracked
<1>6. DaemonTypeOK'
  BY <1>3, <1>4 DEF DaemonInv, DaemonTypeOK
<1>7. ChildrenTracked'
  BY <1>2, <1>3, <1>4, <1>5 DEF DaemonInv, ChildrenTracked
<1> QED BY <1>6, <1>7 DEF DaemonInv

\* A daemon that binds or dies stays its parent's, and no tool moves.
LEMMA DaemonKeeps ==
    ASSUME DaemonInv, NEW q \in Pids, BindSocket(q) \/ DaemonDies(q)
    PROVE  DaemonInv'
<1>1. UNCHANGED <<pidFile, tools>>
  BY DEF BindSocket, DaemonDies
<1>2. CASE BindSocket(q)
  <2>1. /\ daemons[q].st = "starting" /\ daemons' = [daemons EXCEPT ![q].st = "serving"]
        /\ sockOf' = [sockOf EXCEPT ![daemons[q].dir] = q]
        /\ readyLogged' = [readyLogged EXCEPT ![daemons[q].dir] = TRUE]
    BY <1>2 DEF BindSocket
  <2>2. daemons' \in [Pids -> Daemons] /\ \A p \in Pids \ {q} : daemons'[p] = daemons[p]
    BY <2>1 DEF DaemonInv, DaemonTypeOK, Daemons
  <2>3. daemons'[q].parent = daemons[q].parent
    BY <2>1 DEF DaemonInv, DaemonTypeOK, Daemons
  <2>4. sockOf' \in [Dirs -> Pid] /\ readyLogged' \in [Dirs -> BOOLEAN]
    BY <2>1 DEF DaemonInv, DaemonTypeOK, Pid
  <2>5. \A u \in Tools, p \in Pids : ChildOf(u, p)' => ChildOf(u, p)
    BY <2>1, <2>2, <2>3 DEF ChildOf, Up
  <2> QED BY <1>1, <2>2, <2>4, <2>5 DEF DaemonInv, DaemonTypeOK, ChildrenTracked
<1>3. CASE DaemonDies(q)
  <2>1. Kill(q) /\ UNCHANGED <<sockOf, readyLogged>>
    BY <1>3 DEF DaemonDies
  <2>2. /\ daemons' \in [Pids -> Daemons]
        /\ \A u \in Tools, p \in Pids : ChildOf(u, p)' => ChildOf(u, p)
    BY <2>1, DeathEffect DEF DaemonInv
  <2> QED BY <1>1, <2>1, <2>2 DEF DaemonInv, DaemonTypeOK, ChildrenTracked
<1> QED BY <1>2, <1>3

----------------------------------------------------------------------------
(* The results                                                             *)

\* Every start spawns a daemon and replaces the pid file.
StartSpawns ==
    \A t \in Tools, cmd \in ToolCommands, p \in Pids :
        SpawnDaemon(t, cmd, p) =>
            /\ daemons'[p].st = "starting" /\ daemons'[p].parent = t
            /\ pidFile'[IF cmd = "verify" THEN t ELSE Shared] = p

\* Every daemon a tool spawned and that runs is known to it: the types, and
\* which child a verification may have at each point of it.
THEOREM DaemonInvHolds == DaemonSpec => []DaemonInv
<1>1. DaemonInit => DaemonInv
  BY InitHolds
<1>2. DaemonInv /\ [DaemonNext]_daemonVars => DaemonInv'
  <2> SUFFICES ASSUME DaemonInv, [DaemonNext]_daemonVars PROVE DaemonInv'
    OBVIOUS
  <2>1. ASSUME NEW t \in Tools, NEW cmd \in ToolCommands, NEW p \in Pids, SpawnDaemon(t, cmd, p) PROVE DaemonInv'
    BY <2>1, SpawnKeeps
  <2>2. ASSUME NEW t \in Tools, AwaitReady(t) PROVE DaemonInv'
    BY <2>2, AwaitKeeps
  <2>3. ASSUME NEW t \in Tools, StartTimesOut(t) PROVE DaemonInv'
    BY <2>3, TimeoutKeeps
  <2>4. ASSUME NEW t \in Tools, VerifyHealth(t) PROVE DaemonInv'
    BY <2>4, VerifyKeeps
  <2>5. ASSUME NEW t \in Tools, AskHealth(t) PROVE DaemonInv'
    BY <2>5, HealthKeeps
  <2>6. ASSUME NEW t \in Tools, Stop(t) PROVE DaemonInv'
    BY <2>6, StopKeeps
  <2>7. ASSUME NEW t \in Tools, StopVerified(t) PROVE DaemonInv'
    BY <2>7, StopVerifiedKeeps
  <2>8. ASSUME NEW p \in Pids, BindSocket(p) \/ DaemonDies(p) PROVE DaemonInv'
    BY <2>8, DaemonKeeps
  <2>9. CASE UNCHANGED daemonVars
    BY <2>9 DEF daemonVars, DaemonInv, DaemonTypeOK, ChildrenTracked, ChildOf, Up
  <2> QED BY <2>1, <2>2, <2>3, <2>4, <2>5, <2>6, <2>7, <2>8, <2>9 DEF DaemonNext
<1> QED BY <1>1, <1>2, PTL DEF DaemonSpec

\* A verification leaves no daemon behind, whether READY never came, the
\* daemon died or answered wrongly, and whatever other tools start, stop or
\* verify meanwhile.
THEOREM VerifyLeavesNothingHolds == DaemonSpec => []VerifyLeavesNothing
<1>1. DaemonInv => VerifyLeavesNothing
  BY DEF DaemonInv, ChildrenTracked, ChildOf, VerifyLeavesNothing
<1> QED BY <1>1, DaemonInvHolds, PTL
\* The refusal "daemon already running" of cmd_start cannot be reached from a
\* command line: pid_alive takes a daemon for dead unless this very process
\* spawned it, so every start replaces the pid of the daemon that serves.
THEOREM StartNeverRefuses == DaemonSpec => [][StartSpawns]_daemonVars
<1>1. DaemonInv => StartSpawns
  <2> SUFFICES ASSUME DaemonInv, NEW t \in Tools, NEW cmd \in ToolCommands, NEW q \in Pids,
                      SpawnDaemon(t, cmd, q)
               PROVE  /\ daemons'[q].st = "starting" /\ daemons'[q].parent = t
                      /\ pidFile'[IF cmd = "verify" THEN t ELSE Shared] = q
    BY DEF StartSpawns
  <2> DEFINE dir == IF cmd = "verify" THEN t ELSE Shared
             born == [st |-> "starting", dir |-> dir, parent |-> t]
  <2>1. dir \in Dirs /\ tools[t].pc = "idle"
    BY DEF SpawnDaemon, Dirs
  <2>2. ~PidAlive(t, pidFile[dir])
    BY <2>1 DEF DaemonInv, ChildrenTracked, PidAlive, ChildOf, Up
  <2>3. daemons' = [daemons EXCEPT ![q] = born] /\ pidFile' = [pidFile EXCEPT ![dir] = q]
    BY <2>2 DEF SpawnDaemon
  <2>4. daemons'[q] = born /\ pidFile'[dir] = q
    <3> HIDE DEF born, dir
    <3> QED BY <2>1, <2>3 DEF DaemonInv, DaemonTypeOK
  <2> QED BY <2>4
<1> QED BY <1>1, DaemonInvHolds, PTL

----------------------------------------------------------------------------
(* The compatibility matrix and the rebuild.                               *)

\* The actions other than doing nothing.
Actions == {"invalidate_all", "reembed", "convert_vectors", "reuse_vectors", "rebuild_projection", "rebuild_index"}

\* What an action covers, spelled out.
LEMMA WhatCovers ==
    /\ Implies("invalidate_all") = Actions \ {"invalidate_all"}
    /\ Implies("reembed") = {"rebuild_projection", "reuse_vectors", "convert_vectors", "rebuild_index"}
    /\ Implies("convert_vectors") = {"reuse_vectors"}
    /\ \A a : a \notin {"invalidate_all", "reembed", "convert_vectors"} => Implies(a) = {}
    /\ \A a : "invalidate_all" \notin Implies(a)
BY DEF Implies, Actions

\* Dropping what is covered leaves a cover of everything dropped.
LEMMA CollapseCovers ==
    ASSUME NEW raw, NEW a \in raw \cap Actions
    PROVE  \E b \in Collapse(raw) : a \in {b} \cup Implies(b)
<1>1. "invalidate_all" \in raw => "invalidate_all" \in Collapse(raw)
  BY WhatCovers DEF Collapse
<1>2. "invalidate_all" \notin raw /\ "reembed" \in raw => "reembed" \in Collapse(raw)
  BY DEF Collapse, Implies
<1>3. CASE "invalidate_all" \in raw
  BY <1>1, <1>3, WhatCovers
<1>4. CASE "invalidate_all" \notin raw /\ "reembed" \in raw
  BY <1>2, <1>4, WhatCovers DEF Actions
<1>5. CASE raw \cap {"invalidate_all", "reembed"} = {}
  <2>1. \A c \in raw : c # "convert_vectors" => Implies(c) = {}
    BY <1>5, WhatCovers
  <2>2. \A c \in raw : c # "reuse_vectors" => c \in Collapse(raw)
    BY <2>1, WhatCovers DEF Collapse
  <2>3. "convert_vectors" \notin raw => a \in Collapse(raw)
    BY <2>1 DEF Collapse
  <2> QED BY <2>2, <2>3, WhatCovers
<1> QED BY <1>3, <1>4, <1>5

\* The action of a differing layer is in the union, or a stronger one is.
LEMMA LayerContributes ==
    ASSUME NEW want, NEW have, NEW layer \in Mismatch(want, have), layer # "fact_schema"
    PROVE  /\ layer # "vector_format" => LayerAction(layer) \in RawActions(want, have) \cap Actions
           /\ layer = "vector_format" => \E a \in {"convert_vectors", "reembed"} : a \in RawActions(want, have)
<1>1. layer \in Layers
  BY DEF Mismatch
<1>2. Contribution(want, have, layer) \subseteq RawActions(want, have) \/ RawActions(want, have) = {"noop"}
  BY DEF RawActions
<1>3. Contribution(want, have, layer) # {} => Contribution(want, have, layer) \subseteq RawActions(want, have)
  BY DEF RawActions
<1>4. layer # "vector_format" => LayerAction(layer) \in Contribution(want, have, layer) /\ LayerAction(layer) \in Actions
  BY <1>1 DEF Contribution, LayerAction, Layers, Actions
<1>5. layer = "vector_format" => \E a \in {"convert_vectors", "reembed"} : a \in Contribution(want, have, layer)
  BY DEF Contribution
<1> QED BY <1>3, <1>4, <1>5

\* The matrix is sound (compat.plan_actions), whatever layers two identities
\* differ on: a plan that reuses or converts vectors crosses neither a change
\* of epoch nor of representation, every differing layer is covered by an
\* action, and no action of a plan by another.
LEMMA MatrixSound == PlanSound
<1> SUFFICES ASSUME NEW era \in 1..RebuildEpochs, NEW rep \in Reps, NEW older \in SUBSET Layers
             PROVE  LET want == LayeredIdentity(1, FirstRep, {})
                        have == LayeredIdentity(era, rep, older)
                        plan == PlanActions(want, have, SchemaNow)
                    IN  plan # {} =>
                        /\ VectorReuse(plan) # "none" => era = 1 /\ rep = FirstRep
                        /\ \A layer \in Mismatch(want, have) : Covered(layer, plan)
                        /\ \A a, b \in plan : a \notin Implies(b)
  BY DEF PlanSound
<1> DEFINE want == LayeredIdentity(1, FirstRep, {})
           have == LayeredIdentity(era, rep, older)
           raw == RawActions(want, have)
           plan == PlanActions(want, have, SchemaNow)
<1>1. era # 1 => "store_epoch" \in Mismatch(want, have)
  <2>1. want["store_epoch"] = EpochName[1] /\ have["store_epoch"] = EpochName[era]
    BY DEF LayeredIdentity, Layers
  <2>2. era \in 1..3
    BY RebuildShape DEF RebuildShape
  <2>3. era # 1 => EpochName[1] # EpochName[era]
    BY <2>2 DEF EpochName
  <2> QED BY <2>1, <2>3 DEF Mismatch, Layers
<1>2. rep # FirstRep => "representation" \in Mismatch(want, have)
  BY DEF LayeredIdentity, Mismatch, Layers
<1> HIDE DEF want, have
<1> SUFFICES ASSUME plan # {}
             PROVE  /\ VectorReuse(plan) # "none" => era = 1 /\ rep = FirstRep
                    /\ \A layer \in Mismatch(want, have) : Covered(layer, plan)
                    /\ \A a, b \in plan : a \notin Implies(b)
  BY DEF want, have
<1>3. plan = Collapse(raw)
  BY DEF PlanActions
<1> HIDE DEF plan
<1>4. VectorReuse(plan) # "none" => plan \cap {"invalidate_all", "reembed"} = {}
  BY DEF VectorReuse
<1>5. era # 1 => VectorReuse(plan) = "none"
  <2> SUFFICES ASSUME era # 1 PROVE VectorReuse(plan) = "none"
    OBVIOUS
  <2>1. "invalidate_all" \in raw \cap Actions
    BY <1>1, LayerContributes DEF LayerAction
  <2>2. "invalidate_all" \in plan
    BY <1>3, <2>1, CollapseCovers, WhatCovers
  <2> QED BY <1>4, <2>2
<1>6. rep # FirstRep => VectorReuse(plan) = "none"
  <2> SUFFICES ASSUME rep # FirstRep PROVE VectorReuse(plan) = "none"
    OBVIOUS
  <2>1. "reembed" \in raw \cap Actions
    BY <1>2, LayerContributes DEF LayerAction
  <2>2. "reembed" \in plan \/ "invalidate_all" \in plan
    BY <1>3, <2>1, CollapseCovers, WhatCovers DEF Actions
  <2> QED BY <1>4, <2>2
<1>7. ASSUME NEW layer \in Mismatch(want, have)
      PROVE  Covered(layer, plan)
  <2>1. CASE layer = "fact_schema"
    BY <2>1 DEF Covered
  <2>2. CASE layer \notin {"fact_schema", "vector_format"}
    BY <1>3, <2>2, LayerContributes, CollapseCovers DEF Covered
  <2>3. CASE layer = "vector_format"
    <3>1. LayerAction(layer) = "convert_vectors"
      BY <2>3 DEF LayerAction
    <3>2. CASE "convert_vectors" \in raw
      BY <1>3, <3>1, <3>2, CollapseCovers DEF Covered, Actions
    <3>3. CASE "reembed" \in raw
      <4>1. "reembed" \in plan \/ "invalidate_all" \in plan
        BY <1>3, <3>3, CollapseCovers, WhatCovers DEF Actions
      <4> QED BY <2>3, <3>1, <4>1, WhatCovers DEF Covered, Actions
    <3> QED BY <2>3, <3>2, <3>3, LayerContributes
  <2> QED BY <2>1, <2>2, <2>3
<1>8. \A a, b \in plan : a \notin Implies(b)
  BY <1>3 DEF Collapse
<1> QED BY <1>5, <1>6, <1>7, <1>8

LEMMA CollapseNonEmpty ==
    ASSUME NEW want, NEW have
    PROVE  Collapse(RawActions(want, have)) # {}
<1> DEFINE raw == RawActions(want, have)
<1>1. raw = {"noop"} \/ (raw # {} /\ raw \subseteq Actions)
  <2>1. \A layer \in Layers : Contribution(want, have, layer) \subseteq Actions
    BY DEF Contribution, Layers, LayerAction, Actions
  <2>2. Mismatch(want, have) \subseteq Layers
    BY DEF Mismatch
  <2> QED BY <2>1, <2>2 DEF RawActions
<1>2. CASE raw = {"noop"}
  BY <1>2, WhatCovers DEF Collapse
<1>3. CASE raw # {} /\ raw \subseteq Actions
  BY <1>3, CollapseCovers
<1> QED BY <1>1, <1>2, <1>3

\* Every plan a builder is given is sound, for every set of formats,
\* converters and representations (compat.plan_actions).
THEOREM PlansSound == PlanSound /\ (MCSpec => []PlansAreSound)
<1>1. PlansAreSound
  BY MatrixSound DEF PlansAreSound
<1> QED BY <1>1, MatrixSound, PTL


RepNames == Reps \cup {"none"}
TagNames == Rebuilds \cup {Untagged}
Builds == [epoch : Nat, hlc : Nat, rep : RepNames, tag : TagNames]
Statuses == {"running", "begun", "built", "ready", "blocked", "discarded", "misnamed"}
Identities == {NoIdentity} \cup {LayeredIdentity(e, r, older) : e \in Nat, r \in RepNames, older \in SUBSET Layers}
MachineStates ==
    [open : BOOLEAN, rep : RepNames, act : Identities, actRep : RepNames, actGen : Builds, tag : TagNames,
     forced : BOOLEAN, verified : BOOLEAN, restarted : BOOLEAN, cur : Builds, status : Statuses \cup {"none"}]
Reasons ==
    {"none", "no_active_generation", "index_only_refused", "build_target_changed", "index_only_sidecar_missing",
     "refuse_load", "rebuild_refused", "staging_blocked", "publish_precondition_failed",
     "already_current", "index_rebuilt", "rebuilt"}
Asks ==
    [state : {"none", "running", "blocked", "refused", "already_current", "succeeded"},
     phase : {"preflight", "staging", "publishing", "cleanup"}, mode : {"auto", "full", "index_only"},
     tag : TagNames, build : Builds, restart : BOOLEAN, reason : Reasons, result : Builds]
Manifests == [state : {"ok", "none", "torn"}, gen : Builds, older : SUBSET Layers]

RecordsOK(recs) == DOMAIN recs \subseteq Builds /\ recs \in [DOMAIN recs -> Statuses]
OneLive(recs) == \A x, y \in DOMAIN recs : LiveRecord(recs, x) /\ LiveRecord(recs, y) => x = y

\* The types of the rebuild's state.
RebuildTypeOK ==
    /\ snapshot \in [epoch : 1..RebuildEpochs, hlc : Nat]
    /\ manifest \in Manifests /\ generations \subseteq Builds
    /\ RecordsOK(records)
    /\ machines \in [Rebuilds \cup {Daemon} -> MachineStates]
    /\ rebuild \in [Rebuilds -> Asks]

\* A machine works for the operation that opened it.
MachineOf(o) ==
    machines[o].open =>
        /\ machines[o].actGen \in generations /\ machines[o].act = NoIdentity
        /\ machines[o].tag = rebuild[o].tag
        /\ rebuild[o].state # "none" /\ rebuild[o].phase # "preflight"
        /\ Acting(o, "staging") =>
              /\ machines[o].forced = (rebuild[o].mode = "full")
              /\ machines[o].status \notin {"none", "blocked"}
              /\ LET b == rebuild[o].build
                 IN  b.tag = o /\ b \in DOMAIN records /\ LiveRecord(records, b) => machines[o].rep = b.rep

AskedFor(o) ==
    /\ rebuild[o].tag \in {o, Untagged}
    /\ rebuild[o].tag = o => rebuild[o].mode = "full"
    /\ rebuild[o].build.tag = o => rebuild[o].tag = o

RebuildInv ==
    /\ RebuildTypeOK
    /\ manifest.state # "none" => manifest.gen \in generations
    /\ OneLive(records)
    /\ machines[Daemon].tag = Untagged
    /\ \A o \in Rebuilds : MachineOf(o) /\ AskedFor(o)

SameMachine(m, n) ==
    /\ n.open = m.open /\ n.rep = m.rep /\ n.act = m.act /\ n.actRep = m.actRep
    /\ n.actGen = m.actGen /\ n.tag = m.tag

LEMMA BuildTypes ==
    ASSUME snapshot \in [epoch : 1..RebuildEpochs, hlc : Nat]
    PROVE  /\ NoBuild \in Builds /\ FirstBuild \in Builds
           /\ \A rep \in RepNames, tag \in TagNames :
                 /\ BuildTarget(rep, tag) \in Builds /\ BuildTarget(rep, tag).epoch = snapshot.epoch
                 /\ BuildTarget(rep, tag).rep = rep /\ BuildTarget(rep, tag).tag = tag
  BY RebuildShape DEF RebuildShape, NoBuild, FirstBuild, Builds, RepNames, TagNames, BuildTarget

LEMMA DiscardFacts ==
    ASSUME NEW recs, RecordsOK(recs), OneLive(recs), NEW keep
    PROVE  /\ RecordsOK(DiscardOthers(recs, keep)) /\ DOMAIN DiscardOthers(recs, keep) = DOMAIN recs
           /\ \A k \in DOMAIN recs : LiveRecord(DiscardOthers(recs, keep), k) => k \in keep /\ LiveRecord(recs, k)
           /\ \A k \in DOMAIN recs \cap keep : DiscardOthers(recs, keep)[k] = recs[k]
           /\ OneLive(DiscardOthers(recs, keep))
<1> DEFINE d == DiscardOthers(recs, keep)
<1>1. DOMAIN d = DOMAIN recs /\ \A k \in DOMAIN recs : d[k] = IF k \notin keep /\ LiveRecord(recs, k) THEN "discarded" ELSE recs[k]
  BY DEF DiscardOthers
<1>2. RecordsOK(d)
  BY DEF DiscardOthers, RecordsOK, Statuses
<1>3. \A k \in DOMAIN recs : LiveRecord(d, k) => k \in keep /\ LiveRecord(recs, k)
  <2> HIDE DEF d
  <2> QED BY <1>1 DEF LiveRecord
<1> HIDE DEF d
<1>4. OneLive(d)
  BY <1>1, <1>3 DEF OneLive
<1> QED BY <1>1, <1>2, <1>3, <1>4 DEF d

LEMMA WithFacts ==
    ASSUME NEW recs, RecordsOK(recs), NEW b \in Builds, NEW status \in Statuses
    PROVE  /\ RecordsOK(WithRecord(recs, b, status)) /\ DOMAIN WithRecord(recs, b, status) = DOMAIN recs \cup {b}
           /\ WithRecord(recs, b, status)[b] = status
           /\ \A k \in DOMAIN recs \ {b} : WithRecord(recs, b, status)[k] = recs[k]
  BY DEF WithRecord, RecordsOK

\* What a cycle may write down: other builds given up, one of its own with a
\* new status, or the build it starts.
WritesFor(m, recs, new) ==
    \/ \E keep : new = DiscardOthers(recs, keep)
    \/ \E b \in OwnRecords(m, recs), s \in Statuses : new = WithRecord(DiscardOthers(recs, {b}), b, s)
    \/ new = WithRecord(DiscardOthers(recs, {}), BuildTarget(m.rep, m.tag), "running")

MachineLike(m, new) == new \in MachineStates /\ SameMachine(m, new) /\ (new.status # "none" => new.forced = m.forced)

Fits(m, recs, out) == MachineLike(m, out.m) /\ WritesFor(m, recs, out.recs)

LEMMA OutcomeFits ==
    ASSUME NEW m, NEW recs, NEW n, NEW new, MachineLike(m, n), WritesFor(m, recs, new)
    PROVE  Fits(m, recs, Outcome(n, new))
  BY DEF Fits, Outcome

LEMMA ShowingFacts ==
    ASSUME NEW m \in MachineStates, NEW b \in Builds, NEW s \in Statuses \cup {"none"}
    PROVE  /\ MachineLike(m, Showing(m, b, s))
           /\ \A v \in BOOLEAN : MachineLike(m, [Showing(m, b, s) EXCEPT !.verified = v])
           /\ \A v \in BOOLEAN : MachineLike(m, Showing([m EXCEPT !.verified = v], b, s))
           /\ MachineLike(m, [Showing(m, b, "none") EXCEPT !.forced = FALSE, !.verified = FALSE])
           /\ MachineLike(m, [Showing(m, b, s) EXCEPT !.verified = FALSE])
  BY DEF MachineLike, SameMachine, MachineStates, Showing, Statuses

LEMMA StepOutcome ==
    ASSUME NEW m \in MachineStates, NEW recs, RecordsOK(recs), snapshot \in [epoch : 1..RebuildEpochs, hlc : Nat],
           NEW b \in OwnRecords(m, recs),
           NEW out, NEW atRest \in BOOLEAN,
           LET rest == DiscardOthers(recs, {b})
           IN  \/ out = GiveUp(m, rest, b)
               \/ out = Reverify(m, rest, b, atRest)
               \/ out = Outcome(Showing(m, b, "blocked"), rest)
               \/ out = Resume(m, rest, b)
    PROVE  Fits(m, recs, out)
<1> DEFINE rest == DiscardOthers(recs, {b})
           fresh == BuildTarget(m.rep, m.tag)
<1>1. b \in Builds /\ fresh \in Builds /\ NoBuild \in Builds
  BY BuildTypes DEF OwnRecords, RecordsOK, MachineStates
<1>2. WritesFor(m, recs, rest) /\ \A s \in Statuses : WritesFor(m, recs, WithRecord(rest, b, s))
  BY DEF WritesFor
<1>3. \A n, new : MachineLike(m, n) /\ WritesFor(m, recs, new) => Fits(m, recs, Outcome(n, new))
  BY OutcomeFits
<1> HIDE DEF rest
<1>4. Fits(m, recs, StartOver(m, rest, b))
  <2>1. \/ StartOver(m, rest, b) = Outcome(Showing([m EXCEPT !.verified = FALSE], b, "running"), WithRecord(rest, b, "running"))
        \/ StartOver(m, rest, b) = Outcome(Showing([m EXCEPT !.verified = FALSE], NoBuild, "none"), WithRecord(rest, b, "misnamed"))
    BY Zenon DEF StartOver
  <2>2. /\ MachineLike(m, Showing([m EXCEPT !.verified = FALSE], b, "running"))
        /\ MachineLike(m, Showing([m EXCEPT !.verified = FALSE], NoBuild, "none"))
    <3>1. "running" \in Statuses \cup {"none"} /\ "none" \in Statuses \cup {"none"} /\ FALSE \in BOOLEAN
      BY DEF Statuses
    <3> QED BY ONLY <1>1, <3>1, m \in MachineStates, ShowingFacts, Zenon
  <2>3. WritesFor(m, recs, WithRecord(rest, b, "running")) /\ WritesFor(m, recs, WithRecord(rest, b, "misnamed"))
    BY <1>2 DEF Statuses
  <2> QED BY <1>3, <2>1, <2>2, <2>3, Zenon
<1>5. /\ \A s \in Statuses : MachineLike(m, Showing(m, b, s))
      /\ MachineLike(m, [Showing(m, b, "ready") EXCEPT !.verified = TRUE])
      /\ MachineLike(m, [Showing(m, NoBuild, "none") EXCEPT !.forced = FALSE, !.verified = FALSE])
  <2>1. "ready" \in Statuses \cup {"none"} /\ "none" \in Statuses \cup {"none"} /\ TRUE \in BOOLEAN
    BY DEF Statuses
  <2> QED BY ONLY <1>1, <2>1, m \in MachineStates, ShowingFacts, Zenon
<1>6. CASE out = GiveUp(m, rest, b)
  <2>1. out = Outcome([Showing(m, NoBuild, "none") EXCEPT !.forced = FALSE, !.verified = FALSE], WithRecord(rest, b, "discarded"))
    BY <1>6, Zenon DEF GiveUp
  <2>2. WritesFor(m, recs, WithRecord(rest, b, "discarded"))
    BY <1>2 DEF Statuses
  <2> QED BY <1>3, <1>5, <2>1, <2>2, Zenon
<1>7. CASE out = Reverify(m, rest, b, atRest)
  <2>1. \/ out = Outcome([Showing(m, b, "ready") EXCEPT !.verified = TRUE], rest)
        \/ out = Outcome(Showing(m, b, "ready"), WithRecord(rest, b, "discarded"))
        \/ out = StartOver(m, rest, b)
    BY <1>7, Zenon DEF Reverify
  <2>2. WritesFor(m, recs, WithRecord(rest, b, "discarded")) /\ MachineLike(m, Showing(m, b, "ready"))
    BY <1>2, <1>5 DEF Statuses
  <2> QED BY <1>2, <1>3, <1>4, <1>5, <2>1, <2>2, Zenon
<1>8. CASE out = Outcome(Showing(m, b, "blocked"), rest)
  <2>1. MachineLike(m, Showing(m, b, "blocked"))
    BY <1>5 DEF Statuses
  <2> QED BY <1>2, <1>3, <1>8, <2>1, Zenon
<1>9. CASE out = Resume(m, rest, b)
  <2>1. \/ out = StartOver(m, rest, b)
        \/ \E s \in {"ready", "begun", "blocked", "built"} : out = Outcome(Showing(m, b, s), WithRecord(rest, b, s))
    BY <1>9, Zenon DEF Resume
  <2>2. \A s \in {"ready", "begun", "blocked", "built"} : MachineLike(m, Showing(m, b, s)) /\ WritesFor(m, recs, WithRecord(rest, b, s))
    BY <1>2, <1>5 DEF Statuses
  <2> QED BY <1>3, <1>4, <2>1, <2>2, Zenon
<1> QED BY <1>6, <1>7, <1>8, <1>9, Zenon DEF rest

LEMMA CycleOutcome ==
    ASSUME NEW m \in MachineStates, NEW recs, RecordsOK(recs), snapshot \in [epoch : 1..RebuildEpochs, hlc : Nat],
           NEW out \in Cycle(m, recs)
    PROVE  Fits(m, recs, out)
<1> DEFINE own == OwnRecords(m, recs)
           waiting == {b \in own : recs[b] = "ready"}
           fresh == BuildTarget(m.rep, m.tag)
           none == Showing(m, NoBuild, "none")
<1>1. \/ out = Outcome(none, DiscardOthers(recs, {}))
      \/ \E b \in waiting : out = LET rest == DiscardOthers(recs, {b})
              IN  IF Obsolete(m, b) THEN GiveUp(m, rest, b) ELSE Reverify(m, rest, b, TRUE)
      \/ out = Outcome([Showing(m, fresh, "running") EXCEPT !.verified = FALSE],
                      WithRecord(DiscardOthers(recs, {}), fresh, "running"))
      \/ \E b \in own : out = LET rest == DiscardOthers(recs, {b})
              IN  IF Obsolete(m, b) THEN GiveUp(m, rest, b)
                  ELSE CASE recs[b] = "blocked" -> Outcome(Showing(m, b, "blocked"), rest)
                         [] recs[b] = "ready" -> Reverify(m, rest, b, FALSE)
                         [] OTHER -> Resume(m, rest, b)
  BY DEF Cycle
<1>2. fresh \in Builds /\ NoBuild \in Builds
  BY BuildTypes DEF MachineStates
<1>3. \A n, new : MachineLike(m, n) /\ WritesFor(m, recs, new) => Fits(m, recs, Outcome(n, new))
  BY OutcomeFits
<1>4. CASE out = Outcome(none, DiscardOthers(recs, {}))
  <2>1. WritesFor(m, recs, DiscardOthers(recs, {}))
    BY DEF WritesFor
  <2>2. MachineLike(m, none)
    BY ONLY <1>2, ShowingFacts, m \in MachineStates
  <2> QED BY <1>3, <1>4, <2>1, <2>2, Zenon
<1>5. CASE out = Outcome([Showing(m, fresh, "running") EXCEPT !.verified = FALSE],
                      WithRecord(DiscardOthers(recs, {}), fresh, "running"))
  <2>1. WritesFor(m, recs, WithRecord(DiscardOthers(recs, {}), fresh, "running"))
    BY DEF WritesFor
  <2>2. MachineLike(m, [Showing(m, fresh, "running") EXCEPT !.verified = FALSE])
    <3>1. "running" \in Statuses \cup {"none"} /\ FALSE \in BOOLEAN
      BY DEF Statuses
    <3> QED BY ONLY <1>2, <3>1, ShowingFacts, m \in MachineStates, Zenon
  <2> QED BY <1>3, <1>5, <2>1, <2>2, Zenon
<1>6. ASSUME NEW b \in own, out = LET rest == DiscardOthers(recs, {b})
              IN  IF Obsolete(m, b) THEN GiveUp(m, rest, b) ELSE Reverify(m, rest, b, TRUE)
      PROVE  Fits(m, recs, out)
  <2>1. \/ out = GiveUp(m, DiscardOthers(recs, {b}), b)
        \/ out = Reverify(m, DiscardOthers(recs, {b}), b, TRUE)
    BY <1>6, Zenon
  <2> QED BY <2>1, StepOutcome
<1>7. ASSUME NEW b \in own, out = LET rest == DiscardOthers(recs, {b})
              IN  IF Obsolete(m, b) THEN GiveUp(m, rest, b)
                  ELSE CASE recs[b] = "blocked" -> Outcome(Showing(m, b, "blocked"), rest)
                         [] recs[b] = "ready" -> Reverify(m, rest, b, FALSE)
                         [] OTHER -> Resume(m, rest, b)
      PROVE  Fits(m, recs, out)
  <2>1. \/ out = GiveUp(m, DiscardOthers(recs, {b}), b)
        \/ out = Outcome(Showing(m, b, "blocked"), DiscardOthers(recs, {b}))
        \/ out = Reverify(m, DiscardOthers(recs, {b}), b, FALSE)
        \/ out = Resume(m, DiscardOthers(recs, {b}), b)
    BY <1>7, Zenon
  <2> QED BY <2>1, StepOutcome
<1> QED BY <1>1, <1>4, <1>5, <1>6, <1>7
LEMMA WritesEffect ==
    ASSUME NEW m \in MachineStates, NEW recs, RecordsOK(recs), OneLive(recs), NEW new, WritesFor(m, recs, new),
           snapshot \in [epoch : 1..RebuildEpochs, hlc : Nat]
    PROVE  /\ RecordsOK(new) /\ OneLive(new)
           /\ \A k \in DOMAIN new : LiveRecord(new, k) =>
                 (k \in DOMAIN recs /\ LiveRecord(recs, k)) \/ k = BuildTarget(m.rep, m.tag)
<1>1. ASSUME NEW keep, new = DiscardOthers(recs, keep)
      PROVE  /\ RecordsOK(new) /\ OneLive(new)
             /\ \A k \in DOMAIN new : LiveRecord(new, k) => k \in DOMAIN recs /\ LiveRecord(recs, k)
  BY <1>1, DiscardFacts
<1>2. ASSUME NEW b \in OwnRecords(m, recs), NEW s \in Statuses, new = WithRecord(DiscardOthers(recs, {b}), b, s)
      PROVE  /\ RecordsOK(new) /\ OneLive(new)
             /\ \A k \in DOMAIN new : LiveRecord(new, k) => k \in DOMAIN recs /\ LiveRecord(recs, k)
  <2> DEFINE rest == DiscardOthers(recs, {b})
  <2>1. b \in DOMAIN recs /\ LiveRecord(recs, b) /\ b \in Builds
    BY DEF OwnRecords, RecordsOK
  <2>2. RecordsOK(rest) /\ DOMAIN rest = DOMAIN recs /\ \A k \in DOMAIN recs : LiveRecord(rest, k) => k = b
    BY DiscardFacts
  <2> HIDE DEF rest
  <2>3. RecordsOK(new) /\ DOMAIN new = DOMAIN recs /\ \A k \in DOMAIN recs \ {b} : new[k] = rest[k]
    <3>1. new = WithRecord(rest, b, s)
      BY <1>2 DEF rest
    <3>2. /\ RecordsOK(WithRecord(rest, b, s)) /\ DOMAIN WithRecord(rest, b, s) = DOMAIN rest \cup {b}
          /\ \A k \in DOMAIN rest \ {b} : WithRecord(rest, b, s)[k] = rest[k]
      BY <2>1, <2>2, WithFacts
    <3> QED BY <2>1, <2>2, <3>1, <3>2
  <2>4. \A k \in DOMAIN new : LiveRecord(new, k) => k = b
    BY <2>2, <2>3 DEF LiveRecord
  <2> QED BY <2>1, <2>3, <2>4 DEF OneLive
<1>3. CASE new = WithRecord(DiscardOthers(recs, {}), BuildTarget(m.rep, m.tag), "running")
  <2> DEFINE rest == DiscardOthers(recs, {})
             fresh == BuildTarget(m.rep, m.tag)
  <2>1. fresh \in Builds /\ "running" \in Statuses
    BY BuildTypes DEF MachineStates, Statuses
  <2>2. RecordsOK(rest) /\ \A k \in DOMAIN rest : ~LiveRecord(rest, k)
    BY DiscardFacts
  <2> HIDE DEF rest, fresh
  <2>3. RecordsOK(new) /\ DOMAIN new = DOMAIN rest \cup {fresh} /\ \A k \in DOMAIN rest \ {fresh} : new[k] = rest[k]
    <3>1. new = WithRecord(rest, fresh, "running")
      BY <1>3 DEF rest, fresh
    <3>2. /\ RecordsOK(WithRecord(rest, fresh, "running")) /\ DOMAIN WithRecord(rest, fresh, "running") = DOMAIN rest \cup {fresh}
          /\ \A k \in DOMAIN rest \ {fresh} : WithRecord(rest, fresh, "running")[k] = rest[k]
      BY <2>1, <2>2, WithFacts
    <3> QED BY <3>1, <3>2
  <2>4. \A k \in DOMAIN new : LiveRecord(new, k) => k = fresh
    BY <2>2, <2>3 DEF LiveRecord
  <2> QED BY <2>3, <2>4 DEF OneLive, fresh
<1> QED BY <1>1, <1>2, <1>3 DEF WritesFor

LEMMA CycleEffect ==
    ASSUME NEW m \in MachineStates, NEW recs, RecordsOK(recs), OneLive(recs),
           snapshot \in [epoch : 1..RebuildEpochs, hlc : Nat], NEW out \in Cycle(m, recs)
    PROVE  /\ MachineLike(m, out.m) /\ RecordsOK(out.recs) /\ OneLive(out.recs)
           /\ \A k \in DOMAIN out.recs : LiveRecord(out.recs, k) =>
                 (k \in DOMAIN recs /\ LiveRecord(recs, k)) \/ k = BuildTarget(m.rep, m.tag)
<1>1. MachineLike(m, out.m) /\ WritesFor(m, recs, out.recs)
  BY CycleOutcome DEF Fits
<1> QED BY <1>1, WritesEffect

\* A plan against an identity this runtime writes is never the refusal.
LEMMA PlanNeverEmpty ==
    ASSUME NEW m \in MachineStates, m.act = NoIdentity, snapshot \in [epoch : 1..RebuildEpochs, hlc : Nat]
    PROVE  MachinePlan(m) # {}
<1> DEFINE want == LayeredIdentity(snapshot.epoch, m.rep, {})
           have == LayeredIdentity(snapshot.epoch, m.actRep, {})
<1>1. snapshot.epoch \in 1..3
  BY RebuildShape DEF RebuildShape
<1>2. /\ have["store_epoch"] = EpochName[snapshot.epoch] /\ have["representation"] = m.actRep
      /\ \A layer \in Layers \ {"store_epoch", "representation"} : have[layer] = LayerNow(layer)
  BY DEF LayeredIdentity, Layers
<1>3. EpochName[snapshot.epoch] # Undeclared /\ m.actRep # Undeclared
  BY <1>1, RebuildNames DEF RebuildNames, EpochName, Undeclared, MachineStates, RepNames
<1>4. \A layer \in Layers \ {"store_epoch", "representation"} : LayerNow(layer) # Undeclared
  BY DEF LayerNow, Undeclared, Layers
<1>5. ~Refused(have, SchemaNow)
  <2>1. /\ have["fact_schema"] = SchemaNow /\ have["vector_format"] = "format-now" /\ have["index"] = "index-now"
    BY <1>2 DEF LayerNow, SchemaNow, Layers
  <2> HIDE DEF have
  <2> QED BY <1>2, <1>3, <1>4, <2>1, RebuildNames DEF RebuildNames, Refused, Layers
<1>6. MachinePlan(m) = Collapse(RawActions(want, have))
  BY <1>5 DEF MachinePlan, PlanActions
<1> QED BY <1>6, CollapseNonEmpty
\* The records that are live after a step were live before it, or are of `tags'.
LiveFrom(tags) ==
    \A k \in DOMAIN records' : LiveRecord(records', k) =>
        (k \in DOMAIN records /\ LiveRecord(records, k)) \/ k.tag \in tags

\* A step of one machine disturbs no other operation.
LEMMA ActorStep ==
    ASSUME RebuildInv, NEW x \in Rebuilds \cup {Daemon},
           RebuildTypeOK', manifest'.state # "none" => manifest'.gen \in generations',
           generations \subseteq generations', OneLive(records'), LiveFrom({x, Untagged}),
           machines'[Daemon].tag = Untagged,
           \A p \in Rebuilds \ {x} : machines'[p] = machines[p] /\ rebuild'[p] = rebuild[p],
           x \in Rebuilds => MachineOf(x)' /\ AskedFor(x)'
    PROVE  RebuildInv'
<1>1. ASSUME NEW p \in Rebuilds \ {x}
      PROVE  MachineOf(p)' /\ AskedFor(p)'
  <2>1. MachineOf(p) /\ AskedFor(p) /\ machines'[p] = machines[p] /\ rebuild'[p] = rebuild[p] /\ p # Untagged
    BY RebuildNames DEF RebuildInv, RebuildNames
  <2>2. AskedFor(p)'
    BY <2>1 DEF AskedFor
  <2>3. rebuild[p].build.tag = p /\ rebuild[p].build \in DOMAIN records' /\ LiveRecord(records', rebuild[p].build)
        => rebuild[p].build \in DOMAIN records /\ LiveRecord(records, rebuild[p].build)
    BY <2>1 DEF LiveFrom
  <2>4. MachineOf(p)'
    BY <2>1, <2>3 DEF MachineOf, Acting
  <2> QED BY <2>2, <2>4
<1> QED BY <1>1 DEF RebuildInv

LEMMA RebuildInitInv == RebuildInit => RebuildInv
<1> SUFFICES ASSUME RebuildInit PROVE RebuildInv
  OBVIOUS
<1>1. FirstBuild \in Builds /\ NoBuild \in Builds /\ FirstRep \in RepNames
  BY RebuildShape DEF RebuildShape, FirstBuild, NoBuild, Builds, RepNames, TagNames
<1>2. Closed \in MachineStates /\ NotAsked \in Asks
  BY <1>1 DEF Closed, NotAsked, MachineStates, Asks, Reasons, Identities, TagNames, Statuses
<1>3. records = [b \in {} |-> "running"] /\ DOMAIN records = {}
  BY DEF RebuildInit
<1>4. RebuildTypeOK
  <2>1. manifest \in Manifests /\ (manifest.state # "none" => manifest.gen = FirstBuild)
    <3>1. OldLayers \subseteq Layers
      BY RebuildShape DEF RebuildShape, Layers
    <3> QED BY <1>1, <3>1 DEF RebuildInit, Manifests
  <2>2. RecordsOK(records)
    BY <1>3 DEF RecordsOK
  <2>3. snapshot \in [epoch : 1..RebuildEpochs, hlc : Nat]
    BY RebuildShape DEF RebuildInit, RebuildShape
  <2> QED BY <1>1, <1>2, <2>1, <2>2, <2>3 DEF RebuildInit, RebuildTypeOK
<1>5. manifest.state # "none" => manifest.gen \in generations
  BY DEF RebuildInit
<1>6. OneLive(records)
  BY <1>3 DEF OneLive
<1>7. \A x \in Rebuilds \cup {Daemon} : ~machines[x].open /\ machines[x].tag = Untagged
  BY DEF RebuildInit, Closed
<1>8. \A o \in Rebuilds : MachineOf(o) /\ AskedFor(o)
  BY <1>7, RebuildNames DEF RebuildInit, RebuildNames, MachineOf, AskedFor, NotAsked, NoBuild
<1> QED BY <1>4, <1>5, <1>6, <1>7, <1>8 DEF RebuildInv

\* The operation's record alone moves on.
LEMMA OnlyTheRecord ==
    ASSUME RebuildInv, NEW o \in Rebuilds, NEW ask \in Asks, rebuild' = [rebuild EXCEPT ![o] = ask],
           UNCHANGED <<snapshot, manifest, generations, records, machines>>,
           ask.tag \in {o, Untagged}, ask.tag = o => ask.mode = "full", ask.build.tag = o => ask.tag = o,
           machines[o].open => /\ ask.tag = rebuild[o].tag /\ ask.state # "none" /\ ask.phase # "preflight"
                               /\ ~(ask.state = "running" /\ ask.phase = "staging")
    PROVE  RebuildInv'
<1>1. rebuild' \in [Rebuilds -> Asks] /\ rebuild'[o] = ask /\ \A p \in Rebuilds \ {o} : rebuild'[p] = rebuild[p]
  BY DEF RebuildInv, RebuildTypeOK
<1>2. RebuildTypeOK' /\ OneLive(records') /\ LiveFrom({o, Untagged})
  BY <1>1 DEF RebuildInv, RebuildTypeOK, LiveFrom, RecordsOK, OneLive
<1>3. AskedFor(o)'
  BY <1>1 DEF AskedFor
<1>4. MachineOf(o)'
  BY <1>1 DEF RebuildInv, MachineOf, Acting
<1> QED BY <1>1, <1>2, <1>3, <1>4, ActorStep DEF RebuildInv

\* Two shapes of that: a blocked operation, and one in a later phase.
LEMMA BlockOrAdvance ==
    ASSUME RebuildInv, NEW o \in Rebuilds, rebuild[o].state = "running",
           UNCHANGED <<snapshot, manifest, generations, records, machines>>,
           \/ \E reason \in Reasons : BlockRebuild(o, reason)
           \/ \E phase \in {"publishing", "cleanup"} : AdvanceTo(o, phase)
           \/ rebuild[o].phase = "preflight" /\ AdvanceTo(o, "staging")
    PROVE  RebuildInv'
<1>1. rebuild \in [Rebuilds -> Asks] /\ rebuild[o] \in Asks /\ AskedFor(o) /\ MachineOf(o)
  BY DEF RebuildInv, RebuildTypeOK
<1>2. CASE \E reason \in Reasons : BlockRebuild(o, reason)
  <2>1. PICK reason \in Reasons : BlockRebuild(o, reason)
    BY <1>2
  <2> DEFINE ask == [rebuild[o] EXCEPT !.state = "blocked", !.reason = reason]
  <2>2. rebuild' = [rebuild EXCEPT ![o] = ask]
    BY <1>1, <2>1 DEF BlockRebuild
  <2>3. ask \in Asks /\ ask.tag = rebuild[o].tag /\ ask.mode = rebuild[o].mode /\ ask.build = rebuild[o].build
        /\ ask.state = "blocked" /\ ask.phase = rebuild[o].phase
    BY <1>1 DEF Asks
  <2> HIDE DEF ask
  <2> QED BY <1>1, <2>2, <2>3, OnlyTheRecord DEF AskedFor, MachineOf
<1>3. CASE \E phase \in {"publishing", "cleanup"} : AdvanceTo(o, phase)
  <2>1. PICK phase \in {"publishing", "cleanup"} : AdvanceTo(o, phase)
    BY <1>3
  <2> DEFINE ask == [rebuild[o] EXCEPT !.phase = phase]
  <2>2. rebuild' = [rebuild EXCEPT ![o] = ask]
    BY <1>1, <2>1 DEF AdvanceTo
  <2>3. ask \in Asks /\ ask.tag = rebuild[o].tag /\ ask.mode = rebuild[o].mode /\ ask.build = rebuild[o].build
        /\ ask.state = rebuild[o].state /\ ask.phase = phase
    BY <1>1 DEF Asks
  <2> HIDE DEF ask
  <2> QED BY <1>1, <2>2, <2>3, OnlyTheRecord DEF AskedFor, MachineOf
<1>4. CASE rebuild[o].phase = "preflight" /\ AdvanceTo(o, "staging")
  <2> DEFINE ask == [rebuild[o] EXCEPT !.phase = "staging"]
  <2>2. rebuild' = [rebuild EXCEPT ![o] = ask]
    BY <1>1, <1>4 DEF AdvanceTo
  <2>3. ask \in Asks /\ ask.tag = rebuild[o].tag /\ ask.mode = rebuild[o].mode /\ ask.build = rebuild[o].build
        /\ ask.state = rebuild[o].state /\ ask.phase = "staging"
    BY <1>1 DEF Asks
  <2> HIDE DEF ask
  <2> QED BY <1>1, <1>4, <2>2, <2>3, OnlyTheRecord DEF AskedFor, MachineOf
<1> QED BY <1>2, <1>3, <1>4

LEMMA RequestKeeps ==
    ASSUME RebuildInv, NEW o \in Rebuilds, NEW mode \in Modes, NEW restart \in Restarts, Request(o, mode, restart)
    PROVE  RebuildInv'
<1> DEFINE tag == IF mode = "full" THEN o ELSE Untagged
           asked == [NotAsked EXCEPT !.mode = mode, !.tag = tag, !.restart = restart]
<1>1. /\ rebuild \in [Rebuilds -> Asks] /\ manifest \in Manifests /\ snapshot \in [epoch : 1..RebuildEpochs, hlc : Nat]
      /\ rebuild[o].state = "none" /\ ~machines[o].open
      /\ mode \in {"auto", "full", "index_only"} /\ restart \in BOOLEAN /\ o # Untagged
  BY RebuildShape, RebuildNames DEF RebuildShape, RebuildNames, RebuildInv, RebuildTypeOK, Request, MachineOf
<1>2. tag \in TagNames /\ tag \in {o, Untagged} /\ (tag = o => mode = "full")
  BY <1>1 DEF TagNames
<1>3. DesiredRep \in RepNames
  BY <1>1, RebuildShape DEF RebuildShape, DesiredRep, RepNames, Manifests, Builds
<1>4. ~AlreadyCurrent(mode) => /\ ExpectedBuild(mode, tag) \in Builds /\ ExpectedBuild(mode, tag).tag = tag
  <2> HIDE DEF tag
  <2>1. ~AlreadyCurrent(mode) => ExpectedBuild(mode, tag) = BuildTarget(DesiredRep, tag)
    BY DEF ExpectedBuild
  <2>2. BuildTarget(DesiredRep, tag) \in Builds /\ BuildTarget(DesiredRep, tag).tag = tag
    BY <1>1, <1>2, <1>3, BuildTypes
  <2> QED BY <2>1, <2>2
<1>5. NoBuild \in Builds /\ NoBuild.tag = Untagged
  BY <1>1, BuildTypes DEF NoBuild
<1> HIDE DEF tag
<1>6. asked \in Asks /\ asked.tag = tag /\ asked.mode = mode /\ asked.build = NoBuild
  <2>1. NotAsked \in Asks /\ NotAsked.build = NoBuild
    BY <1>5 DEF NotAsked, Asks, Reasons, TagNames
  <2> QED BY <1>1, <1>2, <2>1 DEF Asks
<1>7. PICK ask : /\ rebuild' = [rebuild EXCEPT ![o] = ask]
                 /\ \/ \E s \in {"refused", "already_current"} : ask = [asked EXCEPT !.state = s]
                    \/ ~AlreadyCurrent(mode) /\ ask = [asked EXCEPT !.state = "running", !.build = ExpectedBuild(mode, tag)]
  BY DEF Request, tag
<1>8. /\ ask \in Asks /\ ask.tag = tag /\ ask.mode = mode
      /\ ask.build.tag = o => tag = o
  <2> HIDE DEF asked
  <2>1. CASE \E s \in {"refused", "already_current"} : ask = [asked EXCEPT !.state = s]
    BY <1>5, <1>6, <2>1, RebuildNames DEF RebuildNames, Asks
  <2>2. CASE ~AlreadyCurrent(mode) /\ ask = [asked EXCEPT !.state = "running", !.build = ExpectedBuild(mode, tag)]
    BY <1>4, <1>6, <2>2 DEF Asks
  <2> QED BY <1>7, <2>1, <2>2 DEF asked
<1>9. UNCHANGED <<snapshot, manifest, generations, records, machines>>
  BY DEF Request, world, derivedRoot
<1> QED BY <1>1, <1>2, <1>7, <1>8, <1>9, OnlyTheRecord

LEMMA PreflightKeeps ==
    ASSUME RebuildInv, NEW o \in Rebuilds, PreflightRebuild(o)
    PROVE  RebuildInv'
<1>1. \/ \E reason \in Reasons : BlockRebuild(o, reason)
      \/ rebuild[o].phase = "preflight" /\ AdvanceTo(o, "staging")
  <2>1. "no_active_generation" \in Reasons /\ "index_only_refused" \in Reasons /\ "build_target_changed" \in Reasons
    BY DEF Reasons
  <2> QED BY <2>1 DEF PreflightRebuild, Acting
<1> QED BY <1>1, BlockOrAdvance DEF PreflightRebuild, Acting, world, derivedRoot
LEMMA ClosedTyped == Closed \in MachineStates /\ ~Closed.open /\ Closed.act = NoIdentity
<1>1. FirstRep \in RepNames /\ NoBuild \in Builds
  BY RebuildShape DEF RebuildShape, NoBuild, Builds, RepNames, TagNames
<1> QED BY <1>1 DEF Closed, MachineStates, Identities, TagNames, Statuses

LEMMA KnownActive ==
    ASSUME RebuildInv, ActiveRead = "known"
    PROVE  manifest.gen \in generations /\ manifest.gen \in Builds
  BY DEF RebuildInv, RebuildTypeOK, ActiveRead, Manifests

\* The machine an executor works with.
LEMMA MachineForFacts ==
    ASSUME RebuildInv, NEW o \in Rebuilds, ActiveRead = "known"
    PROVE  /\ MachineFor(o) \in MachineStates /\ MachineFor(o).open /\ MachineFor(o).act = NoIdentity
           /\ MachineFor(o).actGen \in generations /\ MachineFor(o).tag = rebuild[o].tag
           /\ Acting(o, "staging") => /\ MachineFor(o).forced = (rebuild[o].mode = "full")
                                      /\ MachineFor(o).status # "blocked"
           /\ LET b == rebuild[o].build
              IN  Acting(o, "staging") /\ b.tag = o /\ b \in DOMAIN records /\ LiveRecord(records, b) => MachineFor(o).rep = b.rep
<1>1. /\ machines[o] \in MachineStates /\ rebuild[o] \in Asks /\ MachineOf(o)
      /\ manifest.gen \in generations /\ manifest.gen \in Builds
  BY KnownActive DEF RebuildInv, RebuildTypeOK
<1>2. CASE machines[o].open
  BY <1>1, <1>2 DEF MachineFor, MachineOf
<1>3. CASE ~machines[o].open
  <2> DEFINE m == [Closed EXCEPT !.open = TRUE, !.rep = PinnedRep(o), !.actRep = manifest.gen.rep,
                        !.actGen = manifest.gen, !.tag = rebuild[o].tag, !.forced = (rebuild[o].mode = "full")]
  <2>1. MachineFor(o) = m
    BY <1>3 DEF MachineFor
  <2>2. PinnedRep(o) \in RepNames /\ manifest.gen.rep \in RepNames /\ rebuild[o].tag \in TagNames
    BY <1>1, RebuildShape DEF RebuildShape, PinnedRep, DesiredRep, RepNames, Asks, Builds
  <2>3. (rebuild[o].mode = "full") \in BOOLEAN
    OBVIOUS
  <2>4. /\ m \in MachineStates /\ m.open /\ m.act = NoIdentity /\ m.actGen = manifest.gen /\ m.tag = rebuild[o].tag
        /\ m.forced = (rebuild[o].mode = "full") /\ m.status = "none" /\ m.rep = PinnedRep(o)
    <3>1. Closed.status = "none"
      BY DEF Closed
    <3> QED BY <1>1, <2>2, <2>3, <3>1, ClosedTyped DEF MachineStates
  <2>5. LET b == rebuild[o].build IN b \in DOMAIN records /\ LiveRecord(records, b) => PinnedRep(o) = b.rep
    BY DEF PinnedRep, LiveRecord
  <2> QED BY <1>1, <2>1, <2>4, <2>5
<1> QED BY <1>2, <1>3

\* What --restart and the retry leave of the records.
LEMMA RestartFacts ==
    ASSUME RebuildInv, NEW o \in Rebuilds, NEW m, m.status # "blocked"
    PROVE  LET recs == AfterRetry(o, m, AfterRestart(o, m))
               b == rebuild[o].build
           IN  /\ RecordsOK(recs) /\ OneLive(recs) /\ DOMAIN recs = DOMAIN records
               /\ \A k \in DOMAIN recs : LiveRecord(recs, k) => LiveRecord(records, k)
               /\ b \in DOMAIN records /\ LiveRecord(records, b) => LiveRecord(recs, b)
<1>1. AfterRetry(o, m, AfterRestart(o, m)) = AfterRestart(o, m)
  BY DEF AfterRetry
<1>2. RecordsOK(records) /\ OneLive(records)
  BY DEF RebuildInv, RebuildTypeOK
<1>3. CASE AfterRestart(o, m) = records
  BY <1>1, <1>2, <1>3
<1>4. CASE AfterRestart(o, m) = DiscardOthers(records, {rebuild[o].build})
  <2> DEFINE recs == DiscardOthers(records, {rebuild[o].build})
             b == rebuild[o].build
  <2>1. /\ RecordsOK(recs) /\ OneLive(recs) /\ DOMAIN recs = DOMAIN records
        /\ \A k \in DOMAIN recs : LiveRecord(recs, k) => LiveRecord(records, k)
        /\ b \in DOMAIN records => recs[b] = records[b]
    BY <1>2, DiscardFacts
  <2> HIDE DEF recs
  <2>2. b \in DOMAIN records /\ LiveRecord(records, b) => LiveRecord(recs, b)
    BY <2>1 DEF LiveRecord
  <2> QED BY <1>1, <1>4, <2>1, <2>2 DEF recs
<1> QED BY <1>3, <1>4 DEF AfterRestart

\* The staging cycle of an executor, as a step of the invariant.
LEMMA CycleKeeps ==
    ASSUME RebuildInv, NEW o \in Rebuilds, Acting(o, "staging"), ActiveRead = "known",
           NEW recs, recs = AfterRetry(o, MachineFor(o), AfterRestart(o, MachineFor(o))),
           NEW out \in Cycle([MachineFor(o) EXCEPT !.restarted = TRUE], recs),
           records' = out.recs,
           machines' = [machines EXCEPT ![o] = IF out.m.status = "begun" THEN Closed ELSE out.m],
           CASE out.m.status = "none" -> BlockRebuild(o, "rebuild_refused")
             [] out.m.status = "blocked" -> BlockRebuild(o, "staging_blocked")
             [] out.m.status = "ready" -> AdvanceTo(o, "publishing")
             [] OTHER -> UNCHANGED rebuild,
           UNCHANGED <<snapshot, manifest, generations>>
    PROVE  RebuildInv'
<1> DEFINE m == [MachineFor(o) EXCEPT !.restarted = TRUE]
           b == rebuild[o].build
<1>1. /\ snapshot \in [epoch : 1..RebuildEpochs, hlc : Nat] /\ rebuild \in [Rebuilds -> Asks] /\ rebuild[o] \in Asks
      /\ machines \in [Rebuilds \cup {Daemon} -> MachineStates] /\ AskedFor(o) /\ o # Daemon
  BY RebuildNames DEF RebuildNames, RebuildInv, RebuildTypeOK
<1>2. /\ m \in MachineStates /\ m.open /\ m.act = NoIdentity /\ m.actGen \in generations /\ m.tag = rebuild[o].tag
      /\ m.forced = (rebuild[o].mode = "full")
      /\ b.tag = o /\ b \in DOMAIN records /\ LiveRecord(records, b) => m.rep = b.rep
  BY MachineForFacts DEF MachineStates
<1>3. /\ RecordsOK(recs) /\ OneLive(recs) /\ DOMAIN recs = DOMAIN records
      /\ \A k \in DOMAIN recs : LiveRecord(recs, k) => LiveRecord(records, k)
  <2>1. MachineFor(o).status # "blocked"
    BY MachineForFacts
  <2> QED BY <2>1, RestartFacts
<1>0. out \in Cycle(m, recs)
  OBVIOUS
<1> HIDE DEF m
<1>4. /\ MachineLike(m, out.m) /\ RecordsOK(out.recs) /\ OneLive(out.recs)
      /\ \A k \in DOMAIN out.recs : LiveRecord(out.recs, k) =>
            (k \in DOMAIN recs /\ LiveRecord(recs, k)) \/ k = BuildTarget(m.rep, m.tag)
  BY <1>0, <1>1, <1>2, <1>3, CycleEffect
<1>5. BuildTarget(m.rep, m.tag).tag = m.tag /\ BuildTarget(m.rep, m.tag).rep = m.rep
  BY <1>1, <1>2, BuildTypes DEF MachineStates
<1>6. LiveFrom({o, Untagged})
  BY <1>1, <1>2, <1>3, <1>4, <1>5 DEF LiveFrom, AskedFor
<1>7. /\ machines' \in [Rebuilds \cup {Daemon} -> MachineStates]
      /\ machines'[o] = (IF out.m.status = "begun" THEN Closed ELSE out.m)
      /\ \A x \in (Rebuilds \cup {Daemon}) \ {o} : machines'[x] = machines[x]
  BY <1>1, <1>4, ClosedTyped DEF MachineLike
<1>8. /\ rebuild' \in [Rebuilds -> Asks] /\ \A p \in Rebuilds \ {o} : rebuild'[p] = rebuild[p]
      /\ rebuild'[o].tag = rebuild[o].tag /\ rebuild'[o].mode = rebuild[o].mode /\ rebuild'[o].build = b
      /\ rebuild'[o].state \in {"running", "blocked"} /\ rebuild'[o].phase \in {"staging", "publishing"}
      /\ rebuild'[o].state = "running" /\ rebuild'[o].phase = "staging" => out.m.status \notin {"none", "blocked"}
  <2>1. CASE out.m.status = "none"
    <3>1. rebuild' = [rebuild EXCEPT ![o].state = "blocked", ![o].reason = "rebuild_refused"]
      BY <2>1 DEF BlockRebuild
    <3> QED BY <1>1, <3>1 DEF Asks, Reasons, Acting
  <2>2. CASE out.m.status = "blocked"
    <3>1. rebuild' = [rebuild EXCEPT ![o].state = "blocked", ![o].reason = "staging_blocked"]
      BY <2>2 DEF BlockRebuild
    <3> QED BY <1>1, <3>1 DEF Asks, Reasons, Acting
  <2>3. CASE out.m.status = "ready"
    <3>1. rebuild' = [rebuild EXCEPT ![o].phase = "publishing"]
      BY <2>3 DEF AdvanceTo
    <3> QED BY <1>1, <2>3, <3>1 DEF Asks, Acting
  <2>4. CASE out.m.status \notin {"none", "blocked", "ready"}
    BY <1>1, <2>4 DEF Acting
  <2> QED BY <2>1, <2>2, <2>3, <2>4
<1>9. AskedFor(o)'
  BY <1>1, <1>8 DEF AskedFor
<1>10. MachineOf(o)'
  <2> SUFFICES ASSUME machines'[o].open PROVE MachineOf(o)'
    BY DEF MachineOf
  <2>1. machines'[o] = out.m
    BY <1>7, ClosedTyped
  <2>2. /\ out.m.act = NoIdentity /\ out.m.actGen \in generations /\ out.m.tag = rebuild[o].tag /\ out.m.rep = m.rep
        /\ out.m.status # "none" => out.m.forced = (rebuild[o].mode = "full")
    BY <1>2, <1>4 DEF MachineLike, SameMachine
  <2>3. b.tag = o /\ b \in DOMAIN records' /\ LiveRecord(records', b) => m.rep = b.rep
    BY <1>2, <1>3, <1>4, <1>5
  <2> QED BY <1>8, <2>1, <2>2, <2>3 DEF MachineOf, Acting
<1>11. RebuildTypeOK'
  BY <1>4, <1>7, <1>8 DEF RebuildInv, RebuildTypeOK
<1>12. OneLive(records') /\ (manifest'.state # "none" => manifest'.gen \in generations') /\ machines'[Daemon].tag = Untagged
  BY <1>1, <1>4, <1>7 DEF RebuildInv
<1> QED BY <1>6, <1>7, <1>8, <1>9, <1>10, <1>11, <1>12, ActorStep

LEMMA StageKeeps ==
    ASSUME RebuildInv, NEW o \in Rebuilds, StageRebuild(o)
    PROVE  RebuildInv'
<1>1. UNCHANGED <<snapshot, manifest, generations>> /\ Acting(o, "staging")
  BY DEF StageRebuild, world, derivedRoot
<1>2. CASE /\ UNCHANGED <<records, machines>>
           /\ (\E reason \in Reasons : BlockRebuild(o, reason)) \/ AdvanceTo(o, "publishing")
  BY <1>1, <1>2, BlockOrAdvance DEF Acting
<1>3. ASSUME NEW recs, recs = AfterRetry(o, MachineFor(o), AfterRestart(o, MachineFor(o))), ActiveRead = "known",
             NEW out \in Cycle([MachineFor(o) EXCEPT !.restarted = TRUE], recs),
             records' = out.recs,
             machines' = [machines EXCEPT ![o] = IF out.m.status = "begun" THEN Closed ELSE out.m],
             CASE out.m.status = "none" -> BlockRebuild(o, "rebuild_refused")
               [] out.m.status = "blocked" -> BlockRebuild(o, "staging_blocked")
               [] out.m.status = "ready" -> AdvanceTo(o, "publishing")
               [] OTHER -> UNCHANGED rebuild
      PROVE  RebuildInv'
  BY ONLY <1>1, <1>3, RebuildInv, o \in Rebuilds, CycleKeeps
<1>4. "refuse_load" \in Reasons /\ "index_only_sidecar_missing" \in Reasons
  BY DEF Reasons
<1> QED BY <1>2, <1>3, <1>4 DEF StageRebuild, IndexOnlyStep

\* What is published was a live record; nobody's machine but the publisher's moves.
LEMMA PublicationKeeps ==
    ASSUME RebuildInv, NEW x \in Rebuilds \cup {Daemon}, NEW b \in DOMAIN records, PublishTransaction(b),
           UNCHANGED snapshot, NEW n \in MachineStates, machines' = [machines EXCEPT ![x] = n],
           rebuild' \in [Rebuilds -> Asks], \A p \in Rebuilds \ {x} : rebuild'[p] = rebuild[p],
           x = Daemon => n.tag = Untagged,
           x \in Rebuilds => MachineOf(x)' /\ AskedFor(x)'
    PROVE  RebuildInv'
<1>1. b \in Builds /\ RecordsOK(records) /\ OneLive(records)
  BY DEF RebuildInv, RebuildTypeOK, RecordsOK
<1>2. DOMAIN records' = DOMAIN records \ {b} /\ \A k \in DOMAIN records \ {b} : records'[k] = records[k]
  BY DEF PublishTransaction
<1>3. RecordsOK(records') /\ OneLive(records') /\ LiveFrom({x, Untagged})
  <2>1. RecordsOK(records')
    BY <1>1, <1>2 DEF RecordsOK, PublishTransaction
  <2>2. \A k \in DOMAIN records' : LiveRecord(records', k) => k \in DOMAIN records /\ LiveRecord(records, k)
    BY <1>2 DEF LiveRecord
  <2> QED BY <1>1, <1>2, <2>1, <2>2 DEF OneLive, LiveFrom
<1>4. /\ machines' \in [Rebuilds \cup {Daemon} -> MachineStates] /\ machines'[x] = n
      /\ \A y \in (Rebuilds \cup {Daemon}) \ {x} : machines'[y] = machines[y]
  BY DEF RebuildInv, RebuildTypeOK
<1>5. /\ manifest' \in Manifests /\ manifest'.gen \in generations'
      /\ generations' \subseteq Builds /\ generations \subseteq generations'
  BY <1>1 DEF PublishTransaction, Manifests, RebuildInv, RebuildTypeOK
<1>6. RebuildTypeOK'
  BY <1>3, <1>4, <1>5 DEF RebuildInv, RebuildTypeOK
<1>7. machines'[Daemon].tag = Untagged /\ \A p \in Rebuilds \ {x} : machines'[p] = machines[p] /\ p # Daemon
  BY <1>4, RebuildNames DEF RebuildNames, RebuildInv
<1> QED BY <1>3, <1>5, <1>6, <1>7, ActorStep

LEMMA PublishKeeps ==
    ASSUME RebuildInv, NEW o \in Rebuilds, PublishRebuild(o)
    PROVE  RebuildInv'
<1>1. /\ Acting(o, "publishing") /\ UNCHANGED snapshot /\ rebuild \in [Rebuilds -> Asks] /\ rebuild[o] \in Asks
      /\ machines \in [Rebuilds \cup {Daemon} -> MachineStates] /\ AskedFor(o) /\ MachineOf(o) /\ o # Daemon
  BY RebuildNames DEF RebuildNames, PublishRebuild, world, RebuildInv, RebuildTypeOK
<1>2. CASE AdvanceTo(o, "cleanup") /\ UNCHANGED <<derivedRoot, records, machines>>
  BY <1>1, <1>2, BlockOrAdvance DEF Acting, derivedRoot
<1>3. ASSUME machines' = [machines EXCEPT ![o] = IF ActiveRead = "known" THEN MachineFor(o) ELSE @],
             BlockRebuild(o, "publish_precondition_failed") \/ AdvanceTo(o, "cleanup"),
             generations \subseteq generations'
      PROVE  /\ \E n \in MachineStates : machines' = [machines EXCEPT ![o] = n]
             /\ rebuild' \in [Rebuilds -> Asks] /\ \A p \in Rebuilds \ {o} : rebuild'[p] = rebuild[p]
             /\ MachineOf(o)' /\ AskedFor(o)'
  <2> DEFINE n == IF ActiveRead = "known" THEN MachineFor(o) ELSE machines[o]
  <2>1. n \in MachineStates /\ machines' = [machines EXCEPT ![o] = n]
    BY <1>1, <1>3, MachineForFacts
  <2>2. n.open => n.actGen \in generations /\ n.act = NoIdentity /\ n.tag = rebuild[o].tag
    BY <1>1, MachineForFacts DEF MachineOf
  <2> HIDE DEF n
  <2>3. machines'[o] = n
    BY <1>1, <2>1
  <2>4. /\ rebuild' \in [Rebuilds -> Asks] /\ \A p \in Rebuilds \ {o} : rebuild'[p] = rebuild[p]
        /\ rebuild'[o].tag = rebuild[o].tag /\ rebuild'[o].mode = rebuild[o].mode
        /\ rebuild'[o].build = rebuild[o].build
        /\ rebuild'[o].state \in {"running", "blocked"} /\ rebuild'[o].phase \in {"publishing", "cleanup"}
    <3>1. CASE BlockRebuild(o, "publish_precondition_failed")
      BY <1>1, <3>1 DEF BlockRebuild, Asks, Reasons, Acting
    <3>2. CASE AdvanceTo(o, "cleanup")
      BY <1>1, <3>2 DEF AdvanceTo, Asks, Acting
    <3> QED BY <1>3, <3>1, <3>2
  <2>5. MachineOf(o)'
    BY <1>3, <2>2, <2>3, <2>4 DEF MachineOf, Acting
  <2>6. AskedFor(o)'
    BY <1>1, <2>4 DEF AskedFor
  <2> QED BY <2>1, <2>4, <2>5, <2>6
<1>4. CASE /\ machines' = [machines EXCEPT ![o] = IF ActiveRead = "known" THEN MachineFor(o) ELSE @]
           /\ BlockRebuild(o, "publish_precondition_failed") \/ AdvanceTo(o, "cleanup")
           /\ UNCHANGED <<derivedRoot, records>>
  <2>1. UNCHANGED <<manifest, generations, records>>
    BY <1>4 DEF derivedRoot
  <2>2. PICK n \in MachineStates : machines' = [machines EXCEPT ![o] = n]
    BY <1>3, <1>4, <2>1
  <2>3. /\ machines' \in [Rebuilds \cup {Daemon} -> MachineStates]
        /\ \A y \in (Rebuilds \cup {Daemon}) \ {o} : machines'[y] = machines[y]
    BY <1>1, <2>2
  <2>4. rebuild' \in [Rebuilds -> Asks] /\ (\A p \in Rebuilds \ {o} : rebuild'[p] = rebuild[p]) /\ MachineOf(o)' /\ AskedFor(o)'
    BY <1>3, <1>4, <2>1
  <2>5. RebuildTypeOK' /\ OneLive(records') /\ LiveFrom({o, Untagged})
    BY <1>1, <2>1, <2>3, <2>4 DEF RebuildInv, RebuildTypeOK, LiveFrom, RecordsOK, OneLive
  <2> QED BY <1>1, <2>1, <2>3, <2>4, <2>5, ActorStep DEF RebuildInv
<1>5. CASE /\ machines' = [machines EXCEPT ![o] = IF ActiveRead = "known" THEN MachineFor(o) ELSE @]
           /\ AdvanceTo(o, "cleanup")
           /\ VerifyPublishable(MachineFor(o), MachineFor(o).cur) /\ PublishTransaction(MachineFor(o).cur)
  <2>1. generations \subseteq generations' /\ MachineFor(o).cur \in DOMAIN records
    BY <1>5 DEF PublishTransaction, VerifyPublishable
  <2> QED BY <1>1, <1>3, <1>5, <2>1, PublicationKeeps
<1> QED BY <1>2, <1>4, <1>5 DEF PublishRebuild

\* The executor's machine is gone; its record and its build may have moved.
LEMMA MachineGone ==
    ASSUME RebuildInv, NEW o \in Rebuilds, machines' = [machines EXCEPT ![o] = Closed],
           UNCHANGED <<snapshot, manifest, generations>>,
           rebuild' \in [Rebuilds -> Asks], \A p \in Rebuilds \ {o} : rebuild'[p] = rebuild[p],
           rebuild'[o].tag = rebuild[o].tag, rebuild'[o].mode = rebuild[o].mode, rebuild'[o].build = rebuild[o].build,
           RecordsOK(records'), OneLive(records'), LiveFrom({o, Untagged})
    PROVE  RebuildInv'
<1>1. /\ machines' \in [Rebuilds \cup {Daemon} -> MachineStates] /\ machines'[o] = Closed
      /\ \A y \in (Rebuilds \cup {Daemon}) \ {o} : machines'[y] = machines[y]
      /\ o # Daemon
  BY ClosedTyped, RebuildNames DEF RebuildNames, RebuildInv, RebuildTypeOK
<1>2. MachineOf(o)' /\ AskedFor(o)'
  BY <1>1, ClosedTyped DEF MachineOf, AskedFor, RebuildInv
<1>3. RebuildTypeOK'
  BY <1>1 DEF RebuildInv, RebuildTypeOK
<1> QED BY <1>1, <1>2, <1>3, ActorStep DEF RebuildInv

LEMMA SameRecords ==
    ASSUME RebuildInv, UNCHANGED records, NEW x
    PROVE  RecordsOK(records') /\ OneLive(records') /\ LiveFrom({x, Untagged})
  BY DEF RebuildInv, RebuildTypeOK, LiveFrom

LEMMA CleanupKeeps ==
    ASSUME RebuildInv, NEW o \in Rebuilds, CleanupRebuild(o)
    PROVE  RebuildInv'
<1>1. rebuild \in [Rebuilds -> Asks] /\ rebuild[o] \in Asks /\ NoBuild \in Builds
  BY BuildTypes DEF RebuildInv, RebuildTypeOK
<1>2. PICK reason \in Reasons, b \in Builds :
         rebuild' = [rebuild EXCEPT ![o].state = "succeeded", ![o].reason = reason, ![o].result = b]
  <2> DEFINE reason == IF AlreadyCurrent(rebuild[o].mode) THEN "already_current"
                       ELSE IF rebuild[o].mode = "index_only" THEN "index_rebuilt" ELSE "rebuilt"
             there == \/ manifest.state = "ok" /\ manifest.gen = rebuild[o].build
                      \/ rebuild[o].build \in DOMAIN records /\ records[rebuild[o].build] = "ready"
             b == IF there THEN rebuild[o].build ELSE NoBuild
  <2>1. reason \in Reasons /\ b \in Builds
    BY <1>1 DEF Reasons, Asks
  <2>2. rebuild' = [rebuild EXCEPT ![o].state = "succeeded", ![o].reason = reason, ![o].result = b]
    BY Zenon DEF CleanupRebuild
  <2> QED BY <2>1, <2>2
<1>3. /\ rebuild' \in [Rebuilds -> Asks] /\ \A p \in Rebuilds \ {o} : rebuild'[p] = rebuild[p]
      /\ rebuild'[o].tag = rebuild[o].tag /\ rebuild'[o].mode = rebuild[o].mode /\ rebuild'[o].build = rebuild[o].build
  BY <1>1, <1>2 DEF Asks
<1>4. UNCHANGED <<snapshot, manifest, generations, records>> /\ machines' = [machines EXCEPT ![o] = Closed]
  BY DEF CleanupRebuild, world, derivedRoot
<1> QED BY <1>3, <1>4, MachineGone, SameRecords

LEMMA ExecutorDiesKeeps ==
    ASSUME RebuildInv, NEW o \in Rebuilds, ExecutorDies(o)
    PROVE  RebuildInv'
<1>1. UNCHANGED <<snapshot, manifest, generations, rebuild>> /\ machines' = [machines EXCEPT ![o] = Closed]
  BY DEF ExecutorDies, world, derivedRoot
<1>2. RecordsOK(records) /\ OneLive(records) /\ rebuild \in [Rebuilds -> Asks]
  BY DEF RebuildInv, RebuildTypeOK
<1>3. CASE UNCHANGED records
  BY <1>1, <1>2, <1>3, MachineGone, SameRecords
<1>4. ASSUME NEW b \in DOMAIN records, records[b] = "running", records' = WithRecord(records, b, "begun")
      PROVE  RebuildInv'
  <2>1. /\ RecordsOK(records') /\ DOMAIN records' = DOMAIN records /\ \A k \in DOMAIN records \ {b} : records'[k] = records[k]
    <3>1. b \in Builds /\ "begun" \in Statuses
      BY <1>2 DEF RecordsOK, Statuses
    <3>2. /\ RecordsOK(WithRecord(records, b, "begun")) /\ DOMAIN WithRecord(records, b, "begun") = DOMAIN records \cup {b}
          /\ \A k \in DOMAIN records \ {b} : WithRecord(records, b, "begun")[k] = records[k]
      BY <1>2, <3>1, WithFacts
    <3> QED BY <1>4, <3>2
  <2>2. \A k \in DOMAIN records' : LiveRecord(records', k) => LiveRecord(records, k)
    BY <1>4, <2>1 DEF LiveRecord
  <2>3. OneLive(records') /\ LiveFrom({o, Untagged})
    BY <1>2, <2>1, <2>2 DEF OneLive, LiveFrom
  <2> QED BY <1>1, <1>2, <2>1, <2>3, MachineGone
<1> QED BY <1>3, <1>4 DEF ExecutorDies

LEMMA RetriedKeeps ==
    ASSUME RebuildInv, NEW o \in Rebuilds, RetryRebuild(o)
    PROVE  RebuildInv'
<1>1. rebuild \in [Rebuilds -> Asks]
  BY DEF RebuildInv, RebuildTypeOK
<1>2. /\ rebuild' \in [Rebuilds -> Asks] /\ \A p \in Rebuilds \ {o} : rebuild'[p] = rebuild[p]
      /\ rebuild'[o].tag = rebuild[o].tag /\ rebuild'[o].mode = rebuild[o].mode /\ rebuild'[o].build = rebuild[o].build
  <2> DEFINE ask == [rebuild[o] EXCEPT !.state = "running", !.reason = "none"]
  <2>1. ask \in Asks /\ ask.tag = rebuild[o].tag /\ ask.mode = rebuild[o].mode /\ ask.build = rebuild[o].build
    BY <1>1 DEF Asks, Reasons
  <2>2. rebuild' = [rebuild EXCEPT ![o] = ask]
    BY <1>1 DEF RetryRebuild
  <2> HIDE DEF ask
  <2> QED BY <1>1, <2>1, <2>2
<1>3. UNCHANGED <<snapshot, manifest, generations, records>> /\ machines' = [machines EXCEPT ![o] = Closed]
  BY DEF RetryRebuild, world, derivedRoot
<1> QED BY <1>2, <1>3, MachineGone, SameRecords

\* The daemon's machine alone moves, or nothing but the world.
LEMMA DaemonMoves ==
    ASSUME RebuildInv, NEW n \in MachineStates, n.tag = Untagged, machines' = [machines EXCEPT ![Daemon] = n],
           UNCHANGED <<rebuild, generations>>, snapshot' \in [epoch : 1..RebuildEpochs, hlc : Nat],
           manifest' \in Manifests, manifest'.state # "none" => manifest'.gen \in generations,
           RecordsOK(records'), OneLive(records'), LiveFrom({Daemon, Untagged})
    PROVE  RebuildInv'
<1>1. /\ machines' \in [Rebuilds \cup {Daemon} -> MachineStates] /\ machines'[Daemon] = n
      /\ \A p \in Rebuilds : machines'[p] = machines[p] /\ p # Daemon
  BY RebuildNames DEF RebuildNames, RebuildInv, RebuildTypeOK
<1>2. RebuildTypeOK'
  BY <1>1 DEF RebuildInv, RebuildTypeOK
<1> QED BY <1>1, <1>2, RebuildNames, ActorStep DEF RebuildNames

LEMMA WorldKeeps ==
    ASSUME RebuildInv, RecordEvent \/ ReplaceStore \/ FixCause \/ Damage
    PROVE  RebuildInv'
<1>1. /\ UNCHANGED <<generations, records, machines, rebuild>>
      /\ machines[Daemon] \in MachineStates /\ machines[Daemon].tag = Untagged
      /\ machines' = [machines EXCEPT ![Daemon] = machines[Daemon]]
  BY DEF RecordEvent, ReplaceStore, FixCause, Damage, derivedRoot, RebuildInv, RebuildTypeOK
<1>2. snapshot' \in [epoch : 1..RebuildEpochs, hlc : Nat]
  BY RebuildShape DEF RebuildShape, RecordEvent, ReplaceStore, FixCause, Damage, world, RebuildInv, RebuildTypeOK
<1>3. manifest' \in Manifests /\ (manifest'.state # "none" => manifest'.gen \in generations)
  BY DEF RecordEvent, ReplaceStore, FixCause, Damage, derivedRoot, RebuildInv, RebuildTypeOK, Manifests
<1> QED BY <1>1, <1>2, <1>3, DaemonMoves, SameRecords

LEMMA StartDaemonKeeps ==
    ASSUME RebuildInv, NEW rep \in Reps, StartDaemon(rep)
    PROVE  RebuildInv'
<1> DEFINE n == [Closed EXCEPT !.open = TRUE, !.rep = rep,
                        !.act = ManifestIdentity, !.actRep = manifest.gen.rep, !.actGen = manifest.gen]
<1>1. manifest \in Manifests /\ manifest.gen \in Builds /\ manifest.gen.rep \in RepNames /\ rep \in RepNames
  BY DEF RebuildInv, RebuildTypeOK, Manifests, Builds, RepNames
<1>2. ManifestIdentity \in Identities
  <2>1. manifest.gen.epoch \in Nat /\ manifest.older \in SUBSET Layers
    BY <1>1 DEF Manifests, Builds
  <2> QED BY <1>1, <2>1 DEF ManifestIdentity, Identities
<1>3. n \in MachineStates /\ n.tag = Untagged
  <2>1. Closed.tag = Untagged
    BY DEF Closed
  <2> HIDE DEF Closed
  <2> QED BY <1>1, <1>2, <2>1, ClosedTyped DEF MachineStates
<1>4. machines' = [machines EXCEPT ![Daemon] = n] /\ UNCHANGED <<rebuild, generations, snapshot, manifest, records>>
  BY DEF StartDaemon, derivedRoot
<1> HIDE DEF n
<1> QED BY <1>3, <1>4, DaemonMoves, SameRecords DEF RebuildInv, RebuildTypeOK

LEMMA DaemonCycleKeeps ==
    ASSUME RebuildInv, DaemonCycle
    PROVE  RebuildInv'
<1> DEFINE m == machines[Daemon]
<1>1. PICK out \in Cycle(m, records) : records' = out.recs /\ machines' = [machines EXCEPT ![Daemon] = out.m]
  BY DEF DaemonCycle
<1>2. /\ m \in MachineStates /\ m.tag = Untagged /\ RecordsOK(records) /\ OneLive(records)
      /\ snapshot \in [epoch : 1..RebuildEpochs, hlc : Nat]
  BY DEF RebuildInv, RebuildTypeOK
<1> HIDE DEF m
<1>3. /\ MachineLike(m, out.m) /\ RecordsOK(out.recs) /\ OneLive(out.recs)
      /\ \A k \in DOMAIN out.recs : LiveRecord(out.recs, k) =>
            (k \in DOMAIN records /\ LiveRecord(records, k)) \/ k = BuildTarget(m.rep, m.tag)
  BY <1>1, <1>2, CycleEffect
<1>4. BuildTarget(m.rep, m.tag).tag = Untagged
  BY <1>2, BuildTypes DEF MachineStates
<1>5. LiveFrom({Daemon, Untagged})
  BY <1>1, <1>3, <1>4 DEF LiveFrom
<1>6. UNCHANGED <<rebuild, generations, snapshot, manifest>>
  BY DEF DaemonCycle, world, derivedRoot
<1> QED BY <1>1, <1>2, <1>3, <1>5, <1>6, DaemonMoves DEF MachineLike, SameMachine, RebuildInv, RebuildTypeOK

LEMMA DaemonPublishKeeps ==
    ASSUME RebuildInv, DaemonPublish
    PROVE  RebuildInv'
<1> DEFINE m == machines[Daemon]
           n == [m EXCEPT !.actGen = m.cur, !.forced = FALSE, !.cur = NoBuild, !.status = "none"]
<1>1. /\ m \in MachineStates /\ m.tag = Untagged /\ machines \in [Rebuilds \cup {Daemon} -> MachineStates]
      /\ rebuild \in [Rebuilds -> Asks] /\ NoBuild \in Builds
  BY BuildTypes DEF RebuildInv, RebuildTypeOK
<1>2. n \in MachineStates /\ n.tag = Untagged
  BY <1>1 DEF MachineStates
<1>3. machines' = [machines EXCEPT ![Daemon] = n]
  BY <1>1 DEF DaemonPublish
<1>4. m.cur \in DOMAIN records /\ PublishTransaction(m.cur) /\ UNCHANGED <<snapshot, rebuild>>
  BY DEF DaemonPublish, VerifyPublishable, world
<1> HIDE DEF m, n
<1> QED BY <1>1, <1>2, <1>3, <1>4, RebuildNames, PublicationKeeps DEF RebuildNames

\* The inductive invariant of the rebuild and of the daemon's staging beside
\* it (rebuild_operation.py, staging.py): at most one build is live, and an
\* executor's machine has the tag, the representation and the force that the
\* operation's record asks for, over crashes, retries and --restart.
THEOREM RebuildInvHolds == RebuildSpec => []RebuildInv
<1>1. RebuildInv /\ [RebuildNext]_rebuildVars => RebuildInv'
  <2> SUFFICES ASSUME RebuildInv, [RebuildNext]_rebuildVars PROVE RebuildInv'
    OBVIOUS
  <2>1. CASE \E o \in Rebuilds, mode \in Modes, restart \in Restarts : Request(o, mode, restart)
    BY <2>1, RequestKeeps
  <2>2. CASE \E o \in Rebuilds : \/ PreflightRebuild(o) \/ StageRebuild(o) \/ PublishRebuild(o)
                                 \/ CleanupRebuild(o) \/ ExecutorDies(o) \/ RetryRebuild(o)
    BY <2>2, PreflightKeeps, StageKeeps, PublishKeeps, CleanupKeeps, ExecutorDiesKeeps, RetriedKeeps
  <2>3. CASE RecordEvent \/ ReplaceStore \/ FixCause \/ Damage
    BY <2>3, WorldKeeps
  <2>4. CASE (\E rep \in Reps : StartDaemon(rep)) \/ DaemonCycle \/ DaemonPublish
    BY <2>4, StartDaemonKeeps, DaemonCycleKeeps, DaemonPublishKeeps
  <2>5. CASE UNCHANGED rebuildVars
    BY <2>5 DEF rebuildVars, RebuildInv, RebuildTypeOK, MachineOf, AskedFor, Acting, RecordsOK, OneLive, LiveRecord
  <2> QED BY <2>1, <2>2, <2>3, <2>4, <2>5 DEF RebuildNext
<1> QED BY <1>1, RebuildInitInv, PTL DEF RebuildSpec

\* A forced cycle goes on with the build it finds.
LEMMA ForcedCycle ==
    ASSUME NEW m \in MachineStates, m.forced, m.act = NoIdentity, NEW recs, RecordsOK(recs), OneLive(recs),
           snapshot \in [epoch : 1..RebuildEpochs, hlc : Nat],
           NEW b \in OwnRecords(m, recs), b.tag = m.tag, b \notin generations, m.actGen \in generations,
           NEW out \in Cycle(m, recs)
    PROVE  b \in DOMAIN out.recs /\ LiveRecord(out.recs, b)
<1> DEFINE own == OwnRecords(m, recs)
           rest == DiscardOthers(recs, {b})
<1>1. own = {b} /\ b \in DOMAIN recs /\ LiveRecord(recs, b) /\ b \in Builds /\ b.epoch = snapshot.epoch /\ b.rep = m.rep
  BY DEF OwnRecords, OneLive, RecordsOK
<1>2. MachinePlan(m) # {}
  BY PlanNeverEmpty
<1>3. Cycle(m, recs) =
        {LET left == DiscardOthers(recs, {x})
         IN  IF Obsolete(m, x) THEN GiveUp(m, left, x)
             ELSE CASE recs[x] = "blocked" -> Outcome(Showing(m, x, "blocked"), left)
                    [] recs[x] = "ready" -> Reverify(m, left, x, FALSE)
                    [] OTHER -> Resume(m, left, x) : x \in own}
  <2>1. own # {}
    BY <1>1
  <2> QED BY <1>2, <2>1 DEF Cycle
<1>4. ~Obsolete(m, b) /\ ResumeGate(m, b)
  BY <1>1 DEF Obsolete, ResumeGate
<1>5. \/ out = Outcome(Showing(m, b, "blocked"), rest)
      \/ out = Reverify(m, rest, b, FALSE)
      \/ out = Resume(m, rest, b)
  BY <1>1, <1>3, <1>4
<1>6. RecordsOK(rest) /\ b \in DOMAIN rest /\ LiveRecord(rest, b)
  <2>1. RecordsOK(rest) /\ DOMAIN rest = DOMAIN recs /\ rest[b] = recs[b]
    BY <1>1, DiscardFacts
  <2> QED BY <1>1, <2>1 DEF LiveRecord
<1> HIDE DEF rest
<1>7. \/ out.recs = rest
      \/ \E s \in {"ready", "begun", "blocked", "built"} : out.recs = WithRecord(rest, b, s)
  BY <1>4, <1>5 DEF Reverify, Resume, Outcome
<1>8. ASSUME NEW s \in {"ready", "begun", "blocked", "built"}
      PROVE  b \in DOMAIN WithRecord(rest, b, s) /\ LiveRecord(WithRecord(rest, b, s), b)
  <2>1. b \in DOMAIN WithRecord(rest, b, s) /\ WithRecord(rest, b, s)[b] = s
    BY DEF WithRecord
  <2> QED BY <2>1 DEF LiveRecord
<1> QED BY <1>6, <1>7, <1>8

\* What KeepsItsBuild says of a step.
LEMMA StageKeepsItsBuild ==
    ASSUME RebuildInv, NEW o \in Rebuilds, StageRebuild(o), machines'[o] # machines[o],
           NEW b, b = rebuild[o].build, b.tag = o, b \in DOMAIN records, LiveRecord(records, b),
           b.epoch = snapshot.epoch, b \notin generations
    PROVE  b \in DOMAIN records' /\ LiveRecord(records', b)
<1> DEFINE m == [MachineFor(o) EXCEPT !.restarted = TRUE]
<1>1. /\ Acting(o, "staging") /\ rebuild[o].tag = o /\ rebuild[o].mode = "full"
      /\ snapshot \in [epoch : 1..RebuildEpochs, hlc : Nat]
  BY DEF StageRebuild, RebuildInv, RebuildTypeOK, AskedFor
<1>2. PICK recs : /\ recs = AfterRetry(o, MachineFor(o), AfterRestart(o, MachineFor(o))) /\ ActiveRead = "known"
                  /\ \E out \in Cycle(m, recs) : records' = out.recs
  BY DEF StageRebuild
<1>3. /\ m \in MachineStates /\ m.act = NoIdentity /\ m.actGen \in generations /\ m.tag = o
      /\ m.forced /\ m.rep = b.rep
  <2>1. /\ MachineFor(o) \in MachineStates /\ MachineFor(o).act = NoIdentity
        /\ MachineFor(o).actGen \in generations /\ MachineFor(o).tag = o
        /\ MachineFor(o).forced = (rebuild[o].mode = "full") /\ MachineFor(o).rep = b.rep
    BY <1>1, <1>2, MachineForFacts
  <2>2. MachineFor(o).forced
    BY <1>1, <2>1
  <2> QED BY <2>1, <2>2 DEF MachineStates
<1>4. RecordsOK(recs) /\ OneLive(recs) /\ b \in DOMAIN recs /\ LiveRecord(recs, b)
  <2>1. MachineFor(o).status # "blocked"
    BY <1>1, <1>2, MachineForFacts
  <2> QED BY <1>2, <2>1, RestartFacts
<1> HIDE DEF m
<1>5. b \in OwnRecords(m, recs)
  BY <1>3, <1>4 DEF OwnRecords
<1> QED BY <1>1, <1>2, <1>3, <1>4, <1>5, ForcedCycle

LEMMA StepKeepsItsBuild ==
    ASSUME RebuildInv, RebuildNext, NEW o \in Rebuilds, machines'[o] # machines[o],
           NEW b, b = rebuild[o].build, b.tag = o, b \in DOMAIN records, LiveRecord(records, b),
           b.epoch = snapshot.epoch, b \notin generations
    PROVE  (b \in DOMAIN records' /\ LiveRecord(records', b)) \/ b \in generations'
<1> DEFINE Stays == (b \in DOMAIN records' /\ LiveRecord(records', b)) \/ b \in generations'
<1>0. /\ machines \in [Rebuilds \cup {Daemon} -> MachineStates] /\ o # Daemon /\ RecordsOK(records)
  BY RebuildNames DEF RebuildNames, RebuildInv, RebuildTypeOK
<1>1. CASE UNCHANGED records
  BY <1>1 DEF LiveRecord
<1>2. ASSUME NEW p \in Rebuilds, ExecutorDies(p)
      PROVE  Stays
  <2>1. ASSUME NEW k \in DOMAIN records, records' = WithRecord(records, k, "begun")
        PROVE  Stays
    <3>1. /\ DOMAIN WithRecord(records, k, "begun") = DOMAIN records \cup {k} /\ WithRecord(records, k, "begun")[k] = "begun"
          /\ \A x \in DOMAIN records \ {k} : WithRecord(records, k, "begun")[x] = records[x]
      BY DEF WithRecord
    <3> QED BY <2>1, <3>1 DEF LiveRecord
  <2> QED BY <1>1, <1>2, <2>1 DEF ExecutorDies
<1>3. ASSUME NEW p \in Rebuilds, StageRebuild(p)
      PROVE  Stays
  <2>1. p # o => machines'[o] = machines[o]
    BY <1>0, <1>3 DEF StageRebuild
  <2> QED BY <1>3, <2>1, StageKeepsItsBuild
<1>4. ASSUME NEW k, PublishTransaction(k)
      PROVE  Stays
  BY <1>4 DEF PublishTransaction, LiveRecord
<1>5. ASSUME NEW p \in Rebuilds, PublishRebuild(p)
      PROVE  Stays
  BY <1>1, <1>4, <1>5 DEF PublishRebuild
<1>6. ASSUME DaemonPublish
      PROVE  Stays
  BY <1>4, <1>6 DEF DaemonPublish
<1>7. ASSUME DaemonCycle
      PROVE  FALSE
  BY <1>0, <1>7 DEF DaemonCycle
<1>8. CASE \E p \in Rebuilds : \/ \E mode \in Modes, restart \in Restarts : Request(p, mode, restart)
                               \/ PreflightRebuild(p) \/ CleanupRebuild(p) \/ RetryRebuild(p)
  BY <1>1, <1>8 DEF Request, PreflightRebuild, CleanupRebuild, RetryRebuild
<1>9. CASE RecordEvent \/ ReplaceStore \/ FixCause \/ Damage \/ \E rep \in Reps : StartDaemon(rep)
  BY <1>1, <1>9 DEF RecordEvent, ReplaceStore, FixCause, Damage, StartDaemon
<1> QED BY <1>2, <1>3, <1>5, <1>6, <1>7, <1>8, <1>9 DEF RebuildNext

\* What PublishesVerified says of a step.
LEMMA StepPublishesVerified ==
    ASSUME RebuildInv, RebuildNext, manifest'.gen # manifest.gen
    PROVE  /\ manifest'.gen \in DOMAIN records
           /\ records[manifest'.gen] = "ready" /\ manifest'.gen.epoch = snapshot.epoch
<1> DEFINE Good == /\ manifest'.gen \in DOMAIN records
                   /\ records[manifest'.gen] = "ready" /\ manifest'.gen.epoch = snapshot.epoch
<1>1. ASSUME NEW m, VerifyPublishable(m, m.cur), PublishTransaction(m.cur)
      PROVE  Good
  BY <1>1 DEF VerifyPublishable, ResumeGate, PublishTransaction
<1>2. manifest \in Manifests
  BY DEF RebuildInv, RebuildTypeOK
<1>3. Damage => manifest'.gen = manifest.gen
  BY <1>2 DEF Damage, Manifests
<1>4. ASSUME NEW o \in Rebuilds, PublishRebuild(o)
      PROVE  Good
  BY <1>1, <1>4 DEF PublishRebuild, derivedRoot
<1>5. DaemonPublish => Good
  BY <1>1 DEF DaemonPublish
<1>6. \A o \in Rebuilds : \/ \E mode \in Modes, restart \in Restarts : Request(o, mode, restart)
                          \/ PreflightRebuild(o) \/ StageRebuild(o)
                          \/ CleanupRebuild(o) \/ ExecutorDies(o) \/ RetryRebuild(o)
                          => manifest' = manifest
  BY DEF Request, PreflightRebuild, StageRebuild, CleanupRebuild, ExecutorDies, RetryRebuild, derivedRoot
<1>7. RecordEvent \/ ReplaceStore \/ FixCause \/ (\E rep \in Reps : StartDaemon(rep)) \/ DaemonCycle
      => manifest' = manifest
  BY DEF RecordEvent, ReplaceStore, FixCause, StartDaemon, DaemonCycle, derivedRoot
<1> QED BY <1>3, <1>4, <1>5, <1>6, <1>7 DEF RebuildNext

\* A rebuild ends with the build it was started for, for any operations,
\* representations, clocks and number of crashes and retries: staging keeps
\* the pinned build (RISK-68-1, _staging_representation), and whatever becomes
\* active was a ready build of the facts' epoch (verify_publishable).
THEOREM RebuildIsSound == RebuildSpec => RebuildSound
<1>1. RebuildInv /\ [RebuildNext]_rebuildVars =>
        [\A o \in Rebuilds :
          LET b == rebuild[o].build
          IN  /\ machines'[o] # machines[o] /\ b.tag = o
              /\ b \in DOMAIN records /\ LiveRecord(records, b)
              /\ b.epoch = snapshot.epoch /\ b \notin generations
              => \/ b \in DOMAIN records' /\ LiveRecord(records', b)
                 \/ b \in generations']_rebuildVars
  BY StepKeepsItsBuild
<1>2. RebuildInv /\ [RebuildNext]_rebuildVars =>
        [manifest'.gen # manifest.gen =>
          /\ manifest'.gen \in DOMAIN records
          /\ records[manifest'.gen] = "ready" /\ manifest'.gen.epoch = snapshot.epoch]_rebuildVars
  BY StepPublishesVerified
<1> QED BY <1>1, <1>2, RebuildInvHolds, PTL DEF RebuildSpec, RebuildSound, KeepsItsBuild, PublishesVerified

----------------------------------------------------------------------------
(* The status report.                                                      *)

\* The two readers of the switches agree where booleans are plainly spelled.
LEMMA ReadersAgree ==
    ASSUME NEW section \in PlainSections
    PROVE  SwitchesAgreeFor(section)
<1> DEFINE got == {k \in DOMAIN section : GetsBool(section[k])}
           value(k) == k \in got /\ GetsTrue(section[k])
<1>1. /\ DOMAIN section = SwitchKeys \cup {"enable"}
      /\ \A k \in SwitchKeys \cup {"enable"} : section[k] \in Plain
  BY DEF PlainSections
<1>plain. \A k \in SwitchKeys \cup {"enable"} :
          /\ IsBool(section[k]) <=> GetsBool(section[k])
          /\ IsTrue(section[k]) <=> GetsTrue(section[k])
          /\ GetsTrue(section[k]) => GetsBool(section[k])
  BY <1>1 DEF Plain, IsBool, GetsBool, IsTrue, GetsTrue
<1>2. HasV2(section) <=> got \cap SwitchKeys # {}
  BY <1>1, <1>plain DEF HasV2, SwitchKeys
<1>3. IsBool(section["enable"]) <=> "enable" \in got
  BY <1>1, <1>plain
<1>4. \A k \in SwitchKeys \cup {"enable"} : value(k) <=> IsTrue(section[k])
  BY <1>1, <1>plain
<1>5. [k \in SwitchKeys |-> IsTrue(section[k])] = [k \in SwitchKeys |-> value(k)]
  <2>1. \A k \in SwitchKeys : IsTrue(section[k]) = value(k)
    BY <1>4 DEF IsTrue, GetsTrue
  <2> QED BY <2>1, Zenon
<1>6. \A on, other : (on <=> other) => [k \in SwitchKeys |-> k = "reranking" /\ on]
                                       = [k \in SwitchKeys |-> k = "reranking" /\ other]
  BY Zenon
<1>7. [k \in SwitchKeys |-> k = "reranking" /\ TRUE] = [k \in SwitchKeys |-> k = "reranking"]
  BY Zenon
<1>8. IsTrue(section["enable"]) <=> value("enable")
  BY <1>4
<1>9. [k \in SwitchKeys |-> k = "reranking" /\ IsTrue(section["enable"])]
      = [k \in SwitchKeys |-> k = "reranking" /\ value("enable")]
  BY <1>8, Zenon
<1>10. IsBool(section["enable"]) = ("enable" \in got)
  BY <1>3 DEF IsBool
<1> HIDE DEF got, value
<1>11. CASE HasV2(section)
  BY <1>2, <1>5, <1>10, <1>11 DEF SwitchesAgreeFor, StatusSwitches, EngineSwitches, got, value
<1>12. CASE ~HasV2(section) /\ IsBool(section["enable"])
  <2>1. StatusSwitches(section) = [source |-> "legacy", warn |-> FALSE,
              on |-> [k \in SwitchKeys |-> k = "reranking" /\ IsTrue(section["enable"])]]
    BY <1>12 DEF StatusSwitches
  <2>2. EngineSwitches(section) = [source |-> "legacy", warn |-> FALSE,
              on |-> [k \in SwitchKeys |-> k = "reranking" /\ value("enable")]]
    BY <1>2, <1>10, <1>12 DEF EngineSwitches, got, value
  <2> QED BY <1>9, <2>1, <2>2 DEF SwitchesAgreeFor
<1>13. CASE ~HasV2(section) /\ ~IsBool(section["enable"])
  <2>1. StatusSwitches(section) = [source |-> "not_configured", warn |-> FALSE,
              on |-> [k \in SwitchKeys |-> k = "reranking" /\ TRUE]]
    BY <1>13 DEF StatusSwitches
  <2>2. EngineSwitches(section) = [source |-> "not_configured", warn |-> FALSE,
              on |-> [k \in SwitchKeys |-> k = "reranking"]]
    BY <1>2, <1>10, <1>13 DEF EngineSwitches, got
  <2> QED BY <1>7, <2>1, <2>2 DEF SwitchesAgreeFor
<1> QED BY <1>11, <1>12, <1>13

\* Exit code 0 is given only when the facts and the daemon were seen well.
LEMMA ExitIsHonest ==
    ASSUME NEW section \in Sections
    PROVE  ExitHonestFor(StatusSwitches(section))
<1> SUFFICES ASSUME NEW alpha \in BOOLEAN, NEW gamma \in BOOLEAN, NEW seen \in StoreStates,
                    NEW gap \in GapVerdicts, NEW answer \in DaemonAnswers,
                    StatusExit(StatusSwitches(section), alpha, gamma, seen, gap, Serving(answer)) = 0
             PROVE  /\ StatusSwitches(section).on["recording"] =>
                          seen \in {"no_root", "no_db", "sound"} /\ (seen = "no_root" \/ gap # "present")
                    /\ StatusSwitches(section).on["reranking"] /\ alpha => answer = "serving"
  BY DEF ExitHonestFor
<1> DEFINE sw == StatusSwitches(section)
<1>1. /\ GapShown(seen, gap) \notin {"present", "unknown"}
      /\ ~Troubled(RerankingState(sw, alpha, Serving(answer)))
      /\ ~Troubled(RecordingState(sw, seen, gap))
  BY DEF StatusExit
<1>2. sw.on["recording"] => sw.source = "v2"
  BY DEF StatusSwitches, SwitchKeys
<1>3. ASSUME sw.on["recording"]
      PROVE  seen \in {"no_root", "no_db", "sound"} /\ (seen = "no_root" \/ gap # "present")
  <2>1. FactsHealth(seen) \in {"healthy", "not_created"}
    <3>1. FactsHealth(seen) \in {"healthy", "not_created", "blocked", "degraded"}
      BY DEF FactsHealth, StoreStates
    <3>2. FactsHealth(seen) \in {"blocked", "degraded"} => RecordingState(sw, seen, gap) = FactsHealth(seen)
      BY <1>2, <1>3 DEF RecordingState
    <3> QED BY <1>1, <3>1, <3>2 DEF Troubled
  <2>2. seen \in {"no_root", "no_db", "sound"}
    BY <2>1 DEF FactsHealth, StoreStates
  <2>3. seen # "no_root" /\ gap = "present" => GapShown(seen, gap) = "present"
    BY <2>2 DEF GapShown
  <2> QED BY <1>1, <2>2, <2>3
<1>4. ASSUME sw.on["reranking"], alpha
      PROVE  answer = "serving"
  <2>1. Serving(answer) \in {"offline", "unknown"} =>
            RerankingState(sw, alpha, Serving(answer)) \in {"degraded", "unknown"}
    BY <1>4 DEF RerankingState
  <2>2. answer # "serving" => Serving(answer) \in {"offline", "unknown"}
    BY DEF Serving, DaemonAnswers
  <2> QED BY <1>1, <2>1, <2>2 DEF Troubled
<1> QED BY <1>3, <1>4

\* The status command and the engine read the same switches out of every
\* section that spells them plainly true or false, and exit code 0 is given only when nothing an enabled duty needs is
\* in doubt (status_core.collect_status, llm_rerank_config.cc).
THEOREM StatusIsHonest == StatusHonest /\ (MCSpec => []SnapshotsAreHonest)
<1>1. StatusHonest
  BY ReadersAgree, ExitIsHonest DEF StatusHonest
<1>2. SnapshotsAreHonest
  BY <1>1 DEF SnapshotsAreHonest
<1> QED BY <1>1, <1>2, PTL

==============================================================================
