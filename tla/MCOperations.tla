---------------------------- MODULE MCOperations ----------------------------
(***************************************************************************)
(* Safety of the operations and of the processes they meet: the operation  *)
(* engine with the phase machine of clear and restore (six phases,         *)
(* compensation in reopening), the rebuild operation, the seam between an  *)
(* operation that replaces the facts and the daemon, the recorders of two  *)
(* input processes, and the tool that starts and stops the daemon.  The    *)
(* parts share no variable of the model, so a behaviour explores one of    *)
(* them, the one `part' names.  StatusReport has no state.                 *)
(***************************************************************************)
EXTENDS OperationEngine, RebuildOperation, MaintenanceSeam, RecorderCoordinator, DaemonControl,
        StatusReport, TLC

CONSTANTS r1, r2, c1, p1, p2, Parts
VARIABLE part

\* Two runners and two input processes are interchangeable.
ActorSymmetry == Permutations({r1, r2}) \cup Permutations(Procs)

MCFormats == {"format-now", "format-old"}
MCConverters == {}
MCFingerprints == {"index-now", "index-old"}

MCVars == <<vars, rebuildVars, seamVars, recorderVars, daemonVars, part>>
MCInit ==
    /\ part \in Parts /\ Init /\ RebuildInit /\ SeamInit /\ RecorderInit /\ DaemonInit
    /\ part # "rebuild" => manifest.state = "ok" /\ manifest.older = {} /\ sidecar = "real"
    /\ part # "seam" => minted = 0
MCNext ==
    /\ UNCHANGED part
    /\ \/ part = "engine" /\ Next /\ UNCHANGED <<rebuildVars, seamVars, recorderVars, daemonVars>>
       \/ part = "rebuild" /\ RebuildNext /\ UNCHANGED <<vars, seamVars, recorderVars, daemonVars>>
       \/ part = "seam" /\ SeamNext /\ UNCHANGED <<vars, rebuildVars, recorderVars, daemonVars>>
       \/ part = "recorder" /\ RecorderNext /\ UNCHANGED <<vars, rebuildVars, seamVars, daemonVars>>
       \/ part = "daemon" /\ DaemonNext /\ UNCHANGED <<vars, rebuildVars, seamVars, recorderVars>>
MCSpec == MCInit /\ [][MCNext]_MCVars

\* The two statements about operators alone are evaluated in the states in
\* which no tool has started: the matrix (compat.plan_actions) and the
\* snapshot (status_core.collect_status).
AtRest == part = "daemon" /\ tools = [t \in Tools |-> NoTool]
PlansAreSound == AtRest => PlanSound
SnapshotsAreHonest == AtRest => StatusHonest
==============================================================================
