--------------------------- MODULE OperationEngine ---------------------------
(***************************************************************************)
(* The durable operation engine of daemon/operations.py: one operation     *)
(* record in the store, the creators that race to create it, the runners   *)
(* that execute its phases under the executor lock, and the cancellers.    *)
(*                                                                         *)
(* Every writer goes through OperationStore.mutate: load a copy of the     *)
(* record, apply a transform to the copy, write it back only if the        *)
(* revision on disk is still the one loaded, and start over otherwise. The *)
(* load and the compare-and-swap are separate steps here, so writers of    *)
(* several processes interleave between them.                              *)
(*                                                                         *)
(* A record is abstracted to the fields that steer the engine; the log,    *)
(* the progress counters, the timestamps, the error object and the         *)
(* advisory runner_claim are written by the same transforms and read by    *)
(* none of them.                                                           *)
(***************************************************************************)
EXTENDS Naturals, FiniteSets

CONSTANTS
    NPhases,       \* the recorded phase list is 1..NPhases
    Irreversible,  \* index of irreversible_phase
    CancelPhase,   \* index of cancel_phase, or NoPhase
    Runners,       \* processes that call try_run_pending_steps
    Registered,    \* the runners whose registry knows the operation type
    Cancellers,    \* processes that call cancel_operation
    Params,        \* normalized parameters the creators submit
    MaxCrashes,    \* bound: runner crashes
    MaxProgress,   \* bound: steps that make progress without advancing
    MaxRetries     \* bound: explicit operator retries of a blocked operation

NoPhase == 0
Nobody == "nobody"
Phases == 1 .. NPhases

(***************************************************************************)
(* new_operation refuses a cancel phase that does not follow the           *)
(* irreversible phase. It would accept an irreversible first phase; the    *)
(* five registered types (clear, restore, migrate, backup.create and       *)
(* rebuild) all have reversible phases first.                              *)
(***************************************************************************)
ASSUME PhaseAssumption ==
    /\ NPhases \in Nat
    /\ Irreversible \in 2 .. NPhases
    /\ CancelPhase \in {NoPhase} \cup (Irreversible + 1) .. NPhases

ASSUME ActorAssumption ==
    /\ Registered \subseteq Runners
    /\ Runners \cap Cancellers = {}
    /\ Nobody \notin Runners

ASSUME BoundAssumption ==
    /\ MaxCrashes \in Nat
    /\ MaxProgress \in Nat
    /\ MaxRetries \in Nat

Actors == Runners \cup Cancellers

Terminal == {"succeeded", "failed", "cancelled"}
States == {"absent", "queued", "running", "blocked"} \cup Terminal

NoParams == "none"

Record == [state : States, phase : Phases, cancel_requested : BOOLEAN,
           params : Params \cup {NoParams}, rev : Nat]
NoRecord == [state |-> "absent", phase |-> 1, cancel_requested |-> FALSE,
             params |-> NoParams, rev |-> 0]

\* The transform an actor is applying through mutate, and for the transforms
\* that conclude a step, the phase the step was executed for.
StepFns == {"blocked", "failed", "apply", "advance"}
Fns == {"none", "checkpoint", "claim", "unsupported", "cancel_blocked",
        "cancel"} \cup StepFns
Job == [fn : Fns, phase : Phases]
NoJob == [fn |-> "none", phase |-> 1]

PCs == {"idle", "loop", "step", "mutate", "cas", "classify", "done"}

VARIABLES
    op,         \* the record on disk; state "absent" before it is created
    runLock,    \* holder of the executor lock (<id>.run)
    pc,         \* control point of every actor
    job,        \* the mutate call in flight of every actor
    copy,       \* the record an actor has loaded
    retrying,   \* retry_blocked of the runner's invocation
    stepped,    \* the invocation has executed at least one step
    reply,      \* disposition cancel_operation returned to a canceller
    created,    \* answer create_operation gave for each parameter set
    executed,   \* history: the phases some step has been executed for
    crashes, progressed, retries   \* counters for the bounds

vars == <<op, runLock, pc, job, copy, retrying, stepped, reply, created,
          executed, crashes, progressed, retries>>

bounds == <<crashes, progressed, retries>>

Replies == {"none", "requested", "already_cancelled", "terminal",
            "uncancellable"}

(***************************************************************************)
(* Pure part: classification and transforms of a record.                   *)
(***************************************************************************)

\* Fault: the irreversible phase itself still counts as cancelable.
IsCancelableTooLate(r) ==
    /\ r.state \notin Terminal
    /\ r.state = "queued" \/ r.phase <= Irreversible

\* Cancel is honoured before the irreversible phase, and always when queued.
IsCancelable(r) ==
    /\ r.state \notin Terminal
    /\ r.state = "queued" \/ r.phase < Irreversible

ClassifyCancel(r) ==
    IF r.state = "cancelled" THEN "already_cancelled"
    ELSE IF r.state \in {"succeeded", "failed"} THEN "terminal"
    ELSE IF ~ IsCancelable(r) THEN "uncancellable"
    ELSE "requested"

NewOperation(p) ==
    [state |-> "queued", phase |-> 1, cancel_requested |-> FALSE,
     params |-> p, rev |-> 1]

(***************************************************************************)
(* A transform maps the loaded record to the set of records to write: the  *)
(* empty set when the Python function returns False (nothing to write).    *)
(***************************************************************************)
ClaimAndStart(r, retry) ==
    IF r.state = "queued" \/ (r.state = "blocked" /\ retry)
    THEN {[r EXCEPT !.state = "running"]}
    ELSE {}

CancelCheckpoint(r) ==
    IF ~ (r.cancel_requested /\ IsCancelable(r)) \/ r.phase = CancelPhase
    THEN {}
    ELSE IF CancelPhase # NoPhase
         THEN {[r EXCEPT !.state = "running", !.phase = CancelPhase]}
         ELSE {[r EXCEPT !.state = "cancelled"]}

FailUnsupported(r) == {[r EXCEPT !.state = "failed"]}

MarkStepError(r, phase, state) ==
    IF r.phase # phase \/ r.state # "running" THEN {}
    ELSE IF r.cancel_requested /\ IsCancelable(r) THEN CancelCheckpoint(r)
    ELSE {[r EXCEPT !.state = state]}

\* Fault: the advance is not held when a cancel landed during the step.
ApplyStepResultNoHold(r, phase, advance) ==
    IF r.phase # phase THEN {}
    ELSE IF ~ advance THEN {r}
    ELSE IF phase = CancelPhase /\ r.cancel_requested
         THEN {[r EXCEPT !.state = "cancelled"]}
    ELSE IF phase = NPhases THEN {[r EXCEPT !.state = "succeeded"]}
    ELSE {[r EXCEPT !.phase = phase + 1]}

\* Fault: the successor of the last phase is looked up as well.
ApplyStepResultNoLast(r, phase, advance) ==
    IF r.phase # phase THEN {}
    ELSE IF ~ advance \/ (r.cancel_requested /\ IsCancelable(r)) THEN {r}
    ELSE IF phase = CancelPhase /\ r.cancel_requested
         THEN {[r EXCEPT !.state = "cancelled"]}
    ELSE {[r EXCEPT !.phase = phase + 1]}

\* Fault: the operation is declared succeeded one phase early.
ApplyStepResultEarly(r, phase, advance) ==
    IF r.phase # phase THEN {}
    ELSE IF ~ advance \/ (r.cancel_requested /\ IsCancelable(r)) THEN {r}
    ELSE IF phase = CancelPhase /\ r.cancel_requested
         THEN {[r EXCEPT !.state = "cancelled"]}
    ELSE IF phase >= NPhases - 1 THEN {[r EXCEPT !.state = "succeeded"]}
    ELSE {[r EXCEPT !.phase = phase + 1]}

ApplyStepResult(r, phase, advance) ==
    IF r.phase # phase THEN {}
    ELSE IF ~ advance \/ (r.cancel_requested /\ IsCancelable(r)
                                             /\ r.phase # CancelPhase)
         THEN {r}
    ELSE IF phase = CancelPhase /\ r.cancel_requested
         THEN {[r EXCEPT !.state = "cancelled"]}
    ELSE IF phase = NPhases
         THEN {[r EXCEPT !.state = "succeeded"]}
    ELSE {[r EXCEPT !.phase = phase + 1]}

CancelBlocked(r) ==
    IF r.state = "blocked" /\ IsCancelable(r)
    THEN {[r EXCEPT !.state = "cancelled"]}
    ELSE {}

\* Fault: the freshly loaded record is not classified again.
RequestCancelUnchecked(r) ==
    IF ~ r.cancel_requested THEN {[r EXCEPT !.cancel_requested = TRUE]} ELSE {}

RequestCancel(r) ==
    IF ClassifyCancel(r) = "requested" /\ ~ r.cancel_requested
    THEN {[r EXCEPT !.cancel_requested = TRUE]}
    ELSE {}

Transform(a, r) ==
    LET j == job[a] IN
    CASE j.fn = "claim"          -> ClaimAndStart(r, retrying[a])
      [] j.fn = "checkpoint"     -> CancelCheckpoint(r)
      [] j.fn = "unsupported"    -> FailUnsupported(r)
      [] j.fn = "blocked"        -> MarkStepError(r, j.phase, "blocked")
      [] j.fn = "failed"         -> MarkStepError(r, j.phase, "failed")
      [] j.fn = "apply"          -> ApplyStepResult(r, j.phase, FALSE)
      [] j.fn = "advance"        -> ApplyStepResult(r, j.phase, TRUE)
      [] j.fn = "cancel_blocked" -> CancelBlocked(r)
      [] j.fn = "cancel"         -> RequestCancel(r)
      [] OTHER                   -> {}

(***************************************************************************)
(* Creation: OperationStore.create links the new record into place and     *)
(* never overwrites; a loser gets the existing record when its parameters  *)
(* are the same and a conflict otherwise.                                  *)
(***************************************************************************)
\* Fault: the new record is renamed over an existing one.
CreateOperationOverwrites(p) ==
    /\ created[p] = "none"
    /\ op' = NewOperation(p)
    /\ created' = [created EXCEPT ![p] = "ok"]
    /\ UNCHANGED <<runLock, pc, job, copy, retrying, stepped, reply, executed,
                   bounds>>

\* Fault: the loser of the race does not compare the fingerprints.
CreateOperationAnyParams(p) ==
    /\ created[p] = "none"
    /\ op' = IF op.state = "absent" THEN NewOperation(p) ELSE op
    /\ created' = [created EXCEPT ![p] = "ok"]
    /\ UNCHANGED <<runLock, pc, job, copy, retrying, stepped, reply, executed,
                   bounds>>

CreateOperation(p) ==
    /\ created[p] = "none"
    /\ IF op.state = "absent"
       THEN /\ op' = NewOperation(p)
            /\ created' = [created EXCEPT ![p] = "ok"]
       ELSE /\ op' = op
            /\ created' = [created EXCEPT
                             ![p] = IF op.params = p THEN "ok" ELSE "conflict"]
    /\ UNCHANGED <<runLock, pc, job, copy, retrying, stepped, reply, executed,
                   bounds>>

(***************************************************************************)
(* mutate, shared by runners and cancellers. Continue(a, r) is what the    *)
(* caller does with the record mutate returns.                             *)
(***************************************************************************)
RunnerReturns(r, fn) ==
    \/ fn = "unsupported"
    \/ fn = "checkpoint" /\ r.state = "cancelled"
    \/ fn \in {"blocked", "failed"} /\ r.state # "running"

\* The invocation ends: its local variables are gone and the lock is free.
Return(a) ==
    /\ pc' = [pc EXCEPT ![a] = "idle"]
    /\ job' = [job EXCEPT ![a] = NoJob]
    /\ copy' = [copy EXCEPT ![a] = NoRecord]
    /\ retrying' = [retrying EXCEPT ![a] = FALSE]
    /\ stepped' = [stepped EXCEPT ![a] = FALSE]
    /\ runLock' = Nobody

RunnerContinue(a, r) ==
    /\ reply' = reply
    /\ \/ RunnerReturns(r, job[a].fn) /\ Return(a)
       \/ /\ ~ RunnerReturns(r, job[a].fn)
          /\ pc' = [pc EXCEPT ![a] = "loop"]
          /\ job' = [job EXCEPT ![a] = NoJob]
          /\ copy' = [copy EXCEPT ![a] = NoRecord]
          /\ UNCHANGED <<runLock, retrying, stepped>>

CancelTookEffect(r, fn) ==
    \/ fn = "cancel_blocked" /\ r.state = "cancelled"
    \/ fn = "cancel" /\ r.cancel_requested

CancellerContinue(a, r) ==
    /\ job' = [job EXCEPT ![a] = NoJob]
    /\ copy' = [copy EXCEPT ![a] = NoRecord]
    /\ UNCHANGED <<runLock, retrying, stepped>>
    /\ IF CancelTookEffect(r, job[a].fn)
       THEN /\ pc' = [pc EXCEPT ![a] = "done"]
            /\ reply' = [reply EXCEPT ![a] = "requested"]
       ELSE /\ pc' = [pc EXCEPT ![a] = "classify"]
            /\ reply' = reply

Continue(a, r) ==
    \/ a \in Runners /\ RunnerContinue(a, r)
    \/ a \in Cancellers /\ CancellerContinue(a, r)

\* load and fn(record); no write is needed when fn returns False.
MutateLoad(a) ==
    /\ pc[a] = "mutate"
    /\ \/ Transform(a, op) = {} /\ Continue(a, op)
       \/ /\ Transform(a, op) # {}
          /\ pc' = [pc EXCEPT ![a] = "cas"]
          /\ copy' = [copy EXCEPT ![a] = op]
          /\ UNCHANGED <<runLock, job, retrying, stepped, reply>>
    /\ UNCHANGED <<op, created, executed, bounds>>

\* Fault: the record is written without comparing the revision.
MutateWriteBlind(a) ==
    /\ pc[a] = "cas"
    /\ \E r \in Transform(a, copy[a]) :
          /\ op' = [r EXCEPT !.rev = r.rev + 1]
          /\ Continue(a, r)
    /\ UNCHANGED <<created, executed, bounds>>

\* _write_record with expected_rev: rename under the record lock.
MutateWrite(a) ==
    /\ pc[a] = "cas"
    /\ \/ /\ op.rev = copy[a].rev
          /\ \E r \in Transform(a, copy[a]) :
                /\ op' = [r EXCEPT !.rev = r.rev + 1]
                /\ Continue(a, r)
       \/ /\ op.rev # copy[a].rev
          /\ pc' = [pc EXCEPT ![a] = "mutate"]
          /\ copy' = [copy EXCEPT ![a] = NoRecord]
          /\ UNCHANGED <<op, runLock, job, retrying, stepped, reply>>
    /\ UNCHANGED <<created, executed, bounds>>

(***************************************************************************)
(* try_run_pending_steps.                                                  *)
(***************************************************************************)
\* Fault: the executor lock is not exclusive.
AcquireRunLockShared(a, retry) ==
    /\ pc[a] = "idle"
    /\ op.state # "absent"
    /\ retry => retries < MaxRetries
    /\ retries' = IF retry THEN retries + 1 ELSE retries
    /\ runLock' = a
    /\ retrying' = [retrying EXCEPT ![a] = retry]
    /\ pc' = [pc EXCEPT ![a] = "loop"]
    /\ UNCHANGED <<op, job, copy, stepped, reply, created, executed, crashes,
                   progressed>>

AcquireRunLock(a, retry) ==
    /\ pc[a] = "idle"
    /\ op.state # "absent"
    /\ runLock = Nobody
    /\ retry => retries < MaxRetries
    /\ retries' = IF retry THEN retries + 1 ELSE retries
    /\ runLock' = a
    /\ retrying' = [retrying EXCEPT ![a] = retry]
    /\ pc' = [pc EXCEPT ![a] = "loop"]
    /\ UNCHANGED <<op, job, copy, stepped, reply, created, executed, crashes,
                   progressed>>

StartMutate(a, fn) ==
    /\ pc' = [pc EXCEPT ![a] = "mutate"]
    /\ job' = [job EXCEPT ![a] = [fn |-> fn, phase |-> op.phase]]

CancelPending == op.cancel_requested /\ IsCancelable(op)

\* Fault: a blocked operation is left alone before its cancel is looked at.
LoopReturnsFirst(a) ==
    \/ op.state \in Terminal
    \/ op.state = "blocked" /\ ~ retrying[a]

\* The head of the loop reads the record and decides on what it read: return
\* on a terminal record, honour a pending cancel before anything else, leave a
\* blocked operation to an explicit retry, claim, or execute a step.
LoopReturns(a) ==
    \/ op.state \in Terminal
    \/ op.state = "blocked" /\ ~ retrying[a] /\ ~ CancelPending

LoopHead(a) ==
    /\ pc[a] = "loop"
    /\ \/ LoopReturns(a) /\ Return(a)
       \/ /\ ~ LoopReturns(a)
          /\ \/ CancelPending /\ StartMutate(a, "checkpoint")
             \/ /\ ~ CancelPending /\ op.state \in {"queued", "blocked"}
                /\ StartMutate(a, "claim")
             \/ /\ ~ CancelPending /\ op.state = "running"
                /\ a \in Registered
                /\ pc' = [pc EXCEPT ![a] = "step"]
                /\ job' = [job EXCEPT ![a] = [fn |-> "none",
                                              phase |-> op.phase]]
             \/ /\ ~ CancelPending /\ op.state = "running"
                /\ a \notin Registered
                /\ StartMutate(a, "unsupported")
          /\ UNCHANGED <<runLock, copy, retrying, stepped>>
    /\ UNCHANGED <<op, reply, created, executed, bounds>>

\* max_steps (`operation run --once`): the invocation stops between steps.
StopAfterStep(a) ==
    /\ pc[a] = "loop"
    /\ op.state = "running" /\ stepped[a] /\ ~ CancelPending
    /\ Return(a)
    /\ UNCHANGED <<op, reply, created, executed, bounds>>

\* A step of the phase runs to its outcome: progress, advance, OperationBlocked
\* or OperationFailed. What it did is real before anything is persisted.
ExecuteStep(a, outcome) ==
    /\ pc[a] = "step"
    /\ outcome = "apply" => progressed < MaxProgress
    /\ progressed' = IF outcome = "apply" THEN progressed + 1 ELSE progressed
    /\ executed' = executed \cup {job[a].phase}
    /\ job' = [job EXCEPT ![a].fn = outcome]
    /\ stepped' = [stepped EXCEPT
                     ![a] = stepped[a] \/ outcome \in {"apply", "advance"}]
    /\ pc' = [pc EXCEPT ![a] = "mutate"]
    /\ UNCHANGED <<op, runLock, copy, retrying, reply, created, crashes,
                   retries>>

\* Fault: a lock file that nobody removes instead of a kernel lock.
CrashRunnerKeepsLock(a) ==
    /\ pc[a] # "idle"
    /\ crashes < MaxCrashes
    /\ crashes' = crashes + 1
    /\ pc' = [pc EXCEPT ![a] = "idle"]
    /\ job' = [job EXCEPT ![a] = NoJob]
    /\ copy' = [copy EXCEPT ![a] = NoRecord]
    /\ UNCHANGED <<op, runLock, retrying, stepped, reply, created, executed,
                   progressed, retries>>

\* The process dies, or mutate gives up with OperationConflict: the kernel (or
\* the finally clause) releases the executor lock, nothing else is written.
CrashRunner(a) ==
    /\ pc[a] # "idle"
    /\ crashes < MaxCrashes
    /\ crashes' = crashes + 1
    /\ Return(a)
    /\ UNCHANGED <<op, reply, created, executed, progressed, retries>>

(***************************************************************************)
(* cancel_operation.                                                       *)
(***************************************************************************)
StartCancel(a) ==
    /\ pc[a] = "idle"
    /\ op.state # "absent"
    /\ pc' = [pc EXCEPT ![a] = "classify"]
    /\ UNCHANGED <<op, runLock, job, copy, retrying, stepped, reply, created,
                   executed, bounds>>

Classify(a) ==
    /\ pc[a] = "classify"
    /\ \/ /\ ClassifyCancel(op) # "requested"
          /\ pc' = [pc EXCEPT ![a] = "done"]
          /\ reply' = [reply EXCEPT ![a] = ClassifyCancel(op)]
          /\ job' = job
       \/ /\ ClassifyCancel(op) = "requested"
          /\ StartMutate(a, IF op.state = "blocked" /\ CancelPhase = NoPhase
                            THEN "cancel_blocked" ELSE "cancel")
          /\ reply' = reply
    /\ UNCHANGED <<op, runLock, copy, retrying, stepped, created, executed,
                   bounds>>

-----------------------------------------------------------------------------
Init ==
    /\ op = NoRecord
    /\ runLock = Nobody
    /\ pc = [a \in Actors |-> "idle"]
    /\ job = [a \in Actors |-> NoJob]
    /\ copy = [a \in Actors |-> NoRecord]
    /\ retrying = [a \in Actors |-> FALSE]
    /\ stepped = [a \in Actors |-> FALSE]
    /\ reply = [a \in Cancellers |-> "none"]
    /\ created = [p \in Params |-> "none"]
    /\ executed = {}
    /\ crashes = 0 /\ progressed = 0 /\ retries = 0

RunnerStep(a) ==
    \/ \E retry \in BOOLEAN : AcquireRunLock(a, retry)
    \/ LoopHead(a)
    \/ StopAfterStep(a)
    \/ \E outcome \in StepFns : ExecuteStep(a, outcome)
    \/ CrashRunner(a)

CancellerStep(a) == StartCancel(a) \/ Classify(a)

Next ==
    \/ \E p \in Params : CreateOperation(p)
    \/ \E a \in Actors : MutateLoad(a) \/ MutateWrite(a)
    \/ \E a \in Runners : RunnerStep(a)
    \/ \E a \in Cancellers : CancellerStep(a)

Spec == Init /\ [][Next]_vars

(***************************************************************************)
(* Fairness. A live process keeps executing its loop, a step returns, and  *)
(* the caller of `operation run` invokes the runner again after a crash.   *)
(* No step is required to make progress without advancing, nothing needs   *)
(* to crash, and an operator need not retry or cancel.                     *)
(***************************************************************************)
RunnerFairness(a) ==
    /\ WF_vars(AcquireRunLock(a, FALSE))
    /\ WF_vars(LoopHead(a))
    /\ WF_vars(\E outcome \in StepFns : ExecuteStep(a, outcome))

FairSpec ==
    /\ Spec
    /\ \A a \in Actors : WF_vars(MutateLoad(a) \/ MutateWrite(a))
    /\ \A a \in Runners : RunnerFairness(a)
    /\ \A a \in Cancellers : WF_vars(Classify(a))

-----------------------------------------------------------------------------
(***************************************************************************)
(* Properties.                                                             *)
(***************************************************************************)

\* Type invariant of the engine's state.
TypeOK ==
    /\ op \in Record
    /\ runLock \in Runners \cup {Nobody}
    /\ pc \in [Actors -> PCs]
    /\ job \in [Actors -> Job]
    /\ copy \in [Actors -> Record]
    /\ retrying \in [Actors -> BOOLEAN]
    /\ stepped \in [Actors -> BOOLEAN]
    /\ reply \in [Cancellers -> Replies]
    /\ created \in [Params -> {"none", "ok", "conflict"}]
    /\ executed \in SUBSET Phases
    /\ crashes \in 0 .. MaxCrashes
    /\ progressed \in 0 .. MaxProgress
    /\ retries \in 0 .. MaxRetries

CancelPromised == \E c \in Cancellers : reply[c] = "requested"

\* A cancel that cancel_operation answered "requested" is honoured: whatever
\* the runner was doing when the request landed, the operation never succeeds
\* and no step of an irreversible phase is ever executed; only the
\* compensation phase may still run.
CancelHonoured ==
    CancelPromised =>
        /\ op.state # "succeeded"
        /\ executed \cap (Irreversible .. NPhases) \subseteq {CancelPhase}

\* The request itself survives every concurrent write of the runner ("a
\* concurrently running executor can never overwrite it").
CancelNeverOverwritten ==
    CancelPromised => op.cancel_requested \/ op.state = "cancelled"

InStep(a) ==
    \/ pc[a] = "step"
    \/ pc[a] \in {"mutate", "cas"} /\ job[a].fn \in StepFns

\* While a step executes, and until its outcome is persisted, the record on
\* disk stays in the running state and in the phase of the step, however
\* cancellers and crashed executors interleave. _apply_step_result_transform
\* relies on it: it does not look at the state before it writes one.
StepOwnsRecord ==
    \A a \in Runners :
        InStep(a) => op.state = "running" /\ op.phase = job[a].phase

\* Across crashes, retries and resumed runners no phase is skipped: a phase is
\* executed only after every phase before it, except for the jump of a
\* cancelled operation into its compensation phase, and an operation that
\* succeeded has executed them all.
NoPhaseSkipped ==
    /\ \A p \in executed : \/ \A q \in 1 .. p : q \in executed
                           \/ p = CancelPhase /\ op.cancel_requested
    /\ op.state = "succeeded" => executed = Phases

\* Two creators with the same operation id: whoever is told its operation
\* exists finds its own parameters in the record.
CreatorsAgree == \A p \in Params : created[p] = "ok" => op.params = p

\* _STATE_TRANSITIONS, which the transforms enforce only in part.
Successors ==
    [s \in States |->
        CASE s = "absent"  -> {"queued"}
          [] s = "queued"  -> {"running", "cancelled"}
          [] s = "running" -> {"blocked", "failed", "succeeded", "cancelled"}
          [] s = "blocked" -> {"running", "cancelled"}
          [] OTHER         -> {}]

\* Every write keeps to the documented state table (terminal states are
\* final) and never moves the phase backwards, after a crash included.
LegalTransitions ==
    [][/\ op'.state = op.state \/ op'.state \in Successors[op.state]
       /\ op'.phase >= op.phase]_op

\* A promised cancel is carried out without an operator's retry: the operation
\* becomes terminal, unless its compensation itself is blocked.
CancelConcludes ==
    CancelPromised ~> \/ op.state \in Terminal
                      \/ op.state = "blocked" /\ op.phase = CancelPhase

\* A created operation is not left behind by crashes of its executors: it
\* becomes terminal or blocked, also when a dead runner held the lock.
OperationSettles ==
    op.state \in {"queued", "running"} ~> op.state \in Terminal \cup {"blocked"}

(***************************************************************************)
(* The engine implements OperationContract: the fate of an operation is    *)
(* read off its record.                                                    *)
(***************************************************************************)
Life ==
    IF op.state \in {"queued", "running", "blocked"} THEN "live" ELSE op.state

Fate ==
    IF op.cancel_requested \/ op.state = "cancelled" THEN "cancelling"
    ELSE IF op.phase >= Irreversible THEN "committed"
    ELSE "open"

Contract == INSTANCE OperationContract WITH life <- Life, fate <- Fate

\* Refinement: no interleaving of creators, runners, crashes and cancellers
\* makes an operation both cancelled and committed.
ImplementsContract == Contract!Spec

=============================================================================
