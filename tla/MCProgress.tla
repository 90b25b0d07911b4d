----------------------------- MODULE MCProgress -----------------------------
(***************************************************************************)
(* What has to come to an end: an operation, here with the phase machine   *)
(* of rebuild (four phases, no compensation), the shells that create,      *)
(* watch and cancel operations, and the worker of a recorder.  The three   *)
(* share no variable of the model, so a behaviour explores one of them,    *)
(* the one `part' names; so does the fairness.                             *)
(***************************************************************************)
EXTENDS OperationEngine, CommandLine, RecorderCoordinator

CONSTANTS r1, r2, c1, p1, p2, Parts
VARIABLE part

MCTyped == [s \in Shells |->
    IF s = "s1" THEN {"clear", "restore", "restore_unreadable", "restore_no_store", "backup", "rebuild", "rebuild_wait"}
                ELSE {"clear", "restore_unreadable", "retry", "retry_wait", "wait", "cancel", "run"}]

MCVars == <<vars, commandVars, recorderVars, part>>
MCInit ==
    /\ part \in Parts /\ Init /\ CommandInit /\ RecorderInit
    /\ part # "shells" => content = 1 /\ readable
MCNext ==
    /\ UNCHANGED part
    /\ \/ part = "engine" /\ Next /\ UNCHANGED <<commandVars, recorderVars>>
       \/ part = "shells" /\ CommandNext /\ UNCHANGED <<vars, recorderVars>>
       \/ part = "recorder" /\ RecorderNext /\ UNCHANGED <<vars, commandVars>>

\* The fairness of FairSpec, CommandSpec and RecorderFairSpec, each in its part.
EngineFairness ==
    /\ \A a \in Actors : WF_vars(part = "engine" /\ (MutateLoad(a) \/ MutateWrite(a)))
    /\ \A a \in Runners :
          /\ WF_vars(part = "engine" /\ AcquireRunLock(a, FALSE))
          /\ WF_vars(part = "engine" /\ LoopHead(a))
          /\ WF_vars(part = "engine" /\ \E fn \in StepFns : ExecuteStep(a, fn))
    /\ \A a \in Cancellers : WF_vars(part = "engine" /\ Classify(a))
ShellFairness ==
    /\ \A s \in Shells : WF_commandVars(part = "shells" /\ (LoadRecord(s) \/ CheckExecutor(s)))
    /\ \A e \in Shells \X {1, 2} : WF_commandVars(part = "shells" /\ (BeginRun(e) \/ RunSteps(e)))
RecorderFairness ==
    /\ WF_recorderVars(part = "recorder" /\ ReadStep)
    /\ \A p \in Procs : WF_recorderVars(part = "recorder" /\ Worker(p))

MCSpec == MCInit /\ [][MCNext]_MCVars /\ EngineFairness /\ ShellFairness /\ RecorderFairness
==============================================================================
