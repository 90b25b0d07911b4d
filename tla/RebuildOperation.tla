-------------------------- MODULE RebuildOperation --------------------------
(***************************************************************************)
(* The `rebuild' operation (daemon/rebuild_operation.py): the preview the  *)
(* command line takes before it creates the operation, and the four steps  *)
(* an executor runs, each of which drives one cycle of a staging machine   *)
(* of its own, next to the daemon's staging machine and publisher, which   *)
(* share the derived root.                                                 *)
(*                                                                         *)
(* The engine that owns the record is OperationEngine; the publisher and   *)
(* the serving side are GenerationPublish.  A generation id is what it is  *)
(* the digest of: the epoch and the clock of its facts, the representation *)
(* and the tag of an explicit rebuild.                                     *)
(***************************************************************************)
EXTENDS CompatMatrix, Naturals, Functions

CONSTANTS
    Rebuilds,       \* operation ids; also the fresh tags of --full
    Modes,          \* the modes asked for: "auto", "full", "index_only"
    Restarts,       \* values of --restart
    Reps,           \* representations
    FirstRep,       \* the representation of the generation active at the start
    OldLayers,      \* layers on which the active generation may be outdated
    Sidecars,       \* states of its index sidecar at the start
    PublishSeam,    \* whether the host wires the publish transaction
    RebuildEpochs, RebuildClock,  \* bounds: epochs, events recorded in one
    MaxUpsets,      \* bound: steps of the world around the operation
    MaxReruns       \* bound: crashes and retries of an executor

ASSUME RebuildShape ==
    /\ Modes \subseteq {"auto", "full", "index_only"} /\ Restarts \subseteq BOOLEAN
    /\ FirstRep \in Reps /\ PublishSeam \in BOOLEAN
    /\ OldLayers \subseteq {"fact_schema", "vector_format", "projection", "index"}
    /\ Sidecars \subseteq {"none", "empty", "real"}
    /\ RebuildEpochs \in 1..3 /\ RebuildClock \in Nat /\ MaxUpsets \in Nat /\ MaxReruns \in Nat

VARIABLES
    snapshot,   \* the fact store: [epoch, hlc]
    unfit,      \* representations that cannot embed some recorded event
    manifest,   \* the active manifest: [state, gen, older]
    generations, damaged,  \* generations/, and those that fail their reopening
    sidecar,    \* index/<active>/index.ann
    records,    \* staging/<id>/progress.json: id -> status
    machines,   \* per operation and for the daemon: its staging machine
    rebuild,    \* per operation: [state, phase, mode, tag, build, restart, reason, result]
    desired,    \* the representation the daemon is configured for
    upsets, reruns

rebuildVars == <<snapshot, unfit, manifest, generations, damaged, sidecar, records, machines, rebuild,
                 desired, upsets, reruns>>
derivedRoot == <<manifest, generations, damaged, sidecar>>
world == <<snapshot, unfit, desired>>

Daemon == "daemon"
Untagged == "untagged"

\* Ids are distinct words; the runtime reads the vector format it writes, its
\* own index fingerprint is well formed (compat.compose_index_fingerprint), and
\* every representation has a name.
ASSUME RebuildNames ==
    /\ Daemon \notin Rebuilds /\ Untagged \notin Rebuilds
    /\ "format-now" \in SupportedFormats /\ "index-now" \in Fingerprints
    /\ Undeclared \notin Reps

NoBuild == [epoch |-> 0, hlc |-> 0, rep |-> "none", tag |-> Untagged]
Closed == [open |-> FALSE, rep |-> FirstRep, act |-> NoIdentity, actRep |-> FirstRep, actGen |-> NoBuild,
           tag |-> Untagged, forced |-> FALSE, verified |-> FALSE, restarted |-> FALSE,
           cur |-> NoBuild, status |-> "none"]
NotAsked == [state |-> "none", phase |-> "preflight", mode |-> "auto", tag |-> Untagged, build |-> NoBuild,
             restart |-> FALSE, reason |-> "none", result |-> NoBuild]
FirstBuild == [epoch |-> 1, hlc |-> 0, rep |-> FirstRep, tag |-> Untagged]

RebuildInit ==
    /\ snapshot = [epoch |-> 1, hlc |-> 0] /\ unfit = {} /\ desired = FirstRep
    /\ \E older \in SUBSET OldLayers, state \in {"ok", "none"} :
           manifest = [state |-> state, gen |-> IF state = "ok" THEN FirstBuild ELSE NoBuild, older |-> older]
    /\ generations = {FirstBuild} /\ damaged = {} /\ sidecar \in Sidecars
    /\ records = [b \in {} |-> "running"]
    /\ machines = [m \in Rebuilds \cup {Daemon} |-> Closed]
    /\ rebuild = [o \in Rebuilds |-> NotAsked]
    /\ upsets = 0 /\ reruns = 0

----------------------------------------------------------------------------
(* Identities and targets                                                  *)

EpochName == <<"e1", "e2", "e3">>
LayerNow(layer) == CASE layer = "fact_schema" -> "schema-now" [] layer = "vector_format" -> "format-now"
                     [] layer = "projection" -> "projection-now" [] OTHER -> "index-now"
LayerOld(layer) == CASE layer = "fact_schema" -> "schema-old" [] layer = "vector_format" -> "format-old"
                     [] layer = "projection" -> "projection-old" [] OTHER -> "index-old"
SchemaNow == LayerNow("fact_schema")

LayeredIdentity(epoch, rep, older) ==
    [layer \in Layers |-> CASE layer = "store_epoch" -> EpochName[epoch]
                            [] layer = "representation" -> rep
                            [] OTHER -> IF layer \in older THEN LayerOld(layer) ELSE LayerNow(layer)]

\* _active_identity: what the manifest says, and whether it may be loaded.
ManifestIdentity == IF manifest.state = "ok"
                    THEN LayeredIdentity(manifest.gen.epoch, manifest.gen.rep, manifest.older) ELSE NoIdentity
ActiveRead == IF manifest.state = "none" THEN "absent"
              ELSE IF manifest.state = "torn" \/ Refused(ManifestIdentity, SchemaNow) THEN "refused"
              ELSE "known"

\* _desired_provider: a rebuild keeps the active representation.
DesiredRep == IF ActiveRead = "known" THEN manifest.gen.rep ELSE FirstRep
BuildTarget(rep, tag) == [epoch |-> snapshot.epoch, hlc |-> snapshot.hlc, rep |-> rep, tag |-> tag]
MatrixPlan == PlanActions(LayeredIdentity(snapshot.epoch, DesiredRep, {}), ManifestIdentity, SchemaNow)
NothingToBuild(plan) == plan \in {{"noop"}, {"rebuild_index"}}

\* _active_generation_healthy
HealthyActive == manifest.gen \in generations \ damaged

\* _is_already_current, _is_auto_already_current
AlreadyCurrent(mode) == mode = "auto" /\ ActiveRead = "known" /\ NothingToBuild(MatrixPlan) /\ HealthyActive

\* _index_only_refusal
IndexOnlyRefused == ActiveRead # "known" \/ ~HealthyActive \/ sidecar = "none"

ExpectedBuild(mode, tag) == IF AlreadyCurrent(mode) THEN manifest.gen ELSE BuildTarget(DesiredRep, tag)

----------------------------------------------------------------------------
(* The staging machine: one cycle yields the records and the machine       *)

\* "begun" is a running record without a chunk beside its vectors file.
LiveRecord(recs, b) == recs[b] \in {"running", "begun", "built", "ready", "blocked"}

\* _find_own_record: any live build of the current epoch and this representation.
OwnRecords(m, recs) == {b \in DOMAIN recs : /\ LiveRecord(recs, b)
                                            /\ b.epoch = snapshot.epoch /\ b.rep = m.rep}

\* _mark_stale_records_discarded
DiscardOthers(recs, keep) ==
    [b \in DOMAIN recs |-> IF b \notin keep /\ LiveRecord(recs, b) THEN "discarded" ELSE recs[b]]
WithRecord(recs, b, status) == [x \in DOMAIN recs \cup {b} |-> IF x = b THEN status ELSE recs[x]]
Showing(m, b, status) == [m EXCEPT !.cur = b, !.status = status]
Outcome(m, recs) == [m |-> m, recs |-> recs]

\* Fault: a build is recognised by its facts and representation alone.
GateUntagged(m, b) == b.epoch = snapshot.epoch /\ b.rep = m.rep

\* _resume_gate: the target recomputed as of the recorded clock is the recorded one.
ResumeGate(m, b) == b.epoch = snapshot.epoch /\ b.rep = m.rep /\ b.tag = m.tag

\* A build given up outside the noop gate is started again in its own
\* directory; a newer target leaves there a record that names another id.
StartOver(m, recs, b) ==
    LET fresh == BuildTarget(m.rep, m.tag)
        cleared == [m EXCEPT !.verified = FALSE]
    IN  IF fresh = b THEN Outcome(Showing(cleared, b, "running"), WithRecord(recs, b, "running"))
        ELSE Outcome(Showing(cleared, NoBuild, "none"), WithRecord(recs, b, "misnamed"))

\* _reverify_ready; in the noop gate the stale copy of the record is shown.
Reverify(m, recs, b, atRest) ==
    IF m.verified \/ ResumeGate(m, b) THEN Outcome([Showing(m, b, "ready") EXCEPT !.verified = TRUE], recs)
    ELSE IF atRest THEN Outcome(Showing(m, b, "ready"), WithRecord(recs, b, "discarded"))
    ELSE StartOver(m, recs, b)

\* _resume_build and _finalize_build: a chunk per cycle, then the container.
\* A begun record raises: O_EXCL finds its vectors file.
Resume(m, recs, b) ==
    LET next == IF recs[b] = "built" THEN "ready" ELSE IF recs[b] = "begun" THEN "begun"
                ELSE IF b.rep \in unfit THEN "blocked" ELSE "built"
    IN  IF ResumeGate(m, b) THEN Outcome(Showing(m, b, next), WithRecord(recs, b, next))
        ELSE StartOver(m, recs, b)

Obsolete(m, b) == b \in generations \/ b = m.actGen
GiveUp(m, recs, b) == Outcome([Showing(m, NoBuild, "none") EXCEPT !.forced = FALSE, !.verified = FALSE],
                              WithRecord(recs, b, "discarded"))

\* plan_actions over the machine's own idea of the active identity.
MachinePlan(m) ==
    PlanActions(LayeredIdentity(snapshot.epoch, m.rep, {}),
                IF m.act # NoIdentity THEN m.act ELSE LayeredIdentity(snapshot.epoch, m.actRep, {}),
                SchemaNow)

\* StagingBuildMachine._cycle: the outcomes of one cycle of machine m.
Cycle(m, recs) ==
    LET plan == MachinePlan(m)
        fresh == BuildTarget(m.rep, m.tag)
        own == OwnRecords(m, recs)
        pending == {b \in own : recs[b] = "ready"}
        none == Showing(m, NoBuild, "none")
        atRest == NothingToBuild(plan) /\ ~m.forced
    IN  IF plan = {} \/ (atRest /\ pending = {}) \/ (~atRest /\ own = {} /\ fresh \in generations)
        THEN {Outcome(none, DiscardOthers(recs, {}))}
        ELSE IF atRest
        THEN {LET rest == DiscardOthers(recs, {b})
              IN  IF Obsolete(m, b) THEN GiveUp(m, rest, b) ELSE Reverify(m, rest, b, TRUE) : b \in pending}
        ELSE IF own = {}
        THEN {Outcome([Showing(m, fresh, "running") EXCEPT !.verified = FALSE],
                      WithRecord(DiscardOthers(recs, {}), fresh, "running"))}
        ELSE {LET rest == DiscardOthers(recs, {b})
              IN  IF Obsolete(m, b) THEN GiveUp(m, rest, b)
                  ELSE CASE recs[b] = "blocked" -> Outcome(Showing(m, b, "blocked"), rest)
                         [] recs[b] = "ready" -> Reverify(m, rest, b, FALSE)
                         [] OTHER -> Resume(m, rest, b) : b \in own}

----------------------------------------------------------------------------
(* The command and the operation's steps                                   *)

Acting(o, phase) == rebuild[o].state = "running" /\ rebuild[o].phase = phase
AdvanceTo(o, phase) == rebuild' = [rebuild EXCEPT ![o].phase = phase]
BlockRebuild(o, reason) == rebuild' = [rebuild EXCEPT ![o].state = "blocked", ![o].reason = reason]

\* _cmd_rebuild: preview, and an operation only when there is something to do.
Request(o, mode, restart) ==
    /\ rebuild[o].state = "none"
    /\ \A p \in Rebuilds : rebuild[p].state \notin {"running", "blocked"}
    /\ LET tag == IF mode = "full" THEN o ELSE Untagged
           refused == ActiveRead # "known" \/ (mode = "index_only" /\ IndexOnlyRefused)
           asked == [NotAsked EXCEPT !.mode = mode, !.tag = tag, !.restart = restart]
       IN  rebuild' = [rebuild EXCEPT ![o] =
               IF refused THEN [asked EXCEPT !.state = "refused"]
               ELSE IF AlreadyCurrent(mode) THEN [asked EXCEPT !.state = "already_current"]
               ELSE [asked EXCEPT !.state = "running", !.build = ExpectedBuild(mode, tag)]]
    /\ UNCHANGED <<world, derivedRoot, records, machines, upsets, reruns>>

\* _step_preflight: the same gates again, and the target must not have moved.
PreflightRebuild(o) ==
    /\ Acting(o, "preflight")
    /\ LET r == rebuild[o]
       IN  IF ActiveRead # "known" THEN BlockRebuild(o, "no_active_generation")
           ELSE IF r.mode = "index_only" /\ IndexOnlyRefused THEN BlockRebuild(o, "index_only_refused")
           ELSE IF r.build # ExpectedBuild(r.mode, r.tag) THEN BlockRebuild(o, "build_target_changed")
           ELSE AdvanceTo(o, "staging")
    /\ UNCHANGED <<world, derivedRoot, records, machines, upsets, reruns>>

\* Fault: a retry takes the representation that is active by now.
UnpinnedRep(o) == DesiredRep

\* _staging_representation: a retry continues with the record's own.
PinnedRep(o) == IF rebuild[o].build \in DOMAIN records /\ records[rebuild[o].build] # "misnamed"
                THEN rebuild[o].build.rep ELSE DesiredRep

\* _machine_for: the machine of this executor, or a new one.
MachineFor(o) ==
    IF machines[o].open THEN machines[o]
    ELSE [Closed EXCEPT !.open = TRUE, !.rep = PinnedRep(o), !.actRep = manifest.gen.rep,
                        !.actGen = manifest.gen, !.tag = rebuild[o].tag,
                        !.forced = (rebuild[o].mode = "full")]

\* --restart discards every other staging record, once per executor.
AfterRestart(o, m) == IF rebuild[o].restart /\ ~m.restarted
                      THEN DiscardOthers(records, {rebuild[o].build}) ELSE records
\* machine.retry(), when the machine itself has shown this build blocked.
AfterRetry(o, m, recs) == IF m.status = "blocked" /\ m.cur = rebuild[o].build /\ m.cur \in DOMAIN recs
                          THEN WithRecord(recs, m.cur, "running") ELSE recs

\* _index_only_sidecar_ready and _rebuild_usearch_sidecar
IndexOnlyStep(o) == IF ActiveRead = "known" /\ sidecar = "real" /\ HealthyActive
                    THEN AdvanceTo(o, "publishing") ELSE BlockRebuild(o, "index_only_sidecar_missing")

\* _step_staging; what a cycle raises ends the executor.
StageRebuild(o) ==
    /\ Acting(o, "staging")
    /\ \/ /\ AlreadyCurrent(rebuild[o].mode) \/ (rebuild[o].mode = "auto" /\ ActiveRead = "refused")
          /\ IF ActiveRead = "refused" THEN BlockRebuild(o, "refuse_load") ELSE AdvanceTo(o, "publishing")
          /\ UNCHANGED <<records, machines>>
       \/ /\ rebuild[o].mode = "index_only" /\ IndexOnlyStep(o)
          /\ UNCHANGED <<records, machines>>
       \/ /\ rebuild[o].mode # "index_only" /\ ~AlreadyCurrent(rebuild[o].mode) /\ ActiveRead = "known"
          /\ LET m == MachineFor(o)
                 recs == AfterRetry(o, m, AfterRestart(o, m))
             IN  \E out \in Cycle([m EXCEPT !.restarted = TRUE], recs) :
                    /\ records' = out.recs
                    /\ machines' = [machines EXCEPT ![o] = IF out.m.status = "begun" THEN Closed ELSE out.m]
                    /\ CASE out.m.status = "none" -> BlockRebuild(o, "rebuild_refused")
                         [] out.m.status = "blocked" -> BlockRebuild(o, "staging_blocked")
                         [] out.m.status = "ready" -> AdvanceTo(o, "publishing")
                         [] OTHER -> UNCHANGED rebuild
    /\ UNCHANGED <<world, derivedRoot, upsets, reruns>>

\* Fault: a ready record is published without the gate.
PublishUngated(m, b) == b \in DOMAIN records
\* verify_publishable
VerifyPublishable(m, b) == b \in DOMAIN records /\ records[b] = "ready" /\ ResumeGate(m, b)

\* The publish transaction: rename into generations/, then the manifest.
PublishTransaction(b) ==
    /\ generations' = generations \cup {b} /\ damaged' = damaged \ {b}
    /\ manifest' = [state |-> "ok", gen |-> b, older |-> {}]
    /\ records' = [x \in DOMAIN records \ {b} |-> records[x]]
    /\ sidecar' = "none"

\* _step_publishing; a machine of a new executor has run no cycle yet.
PublishRebuild(o) ==
    /\ Acting(o, "publishing")
    /\ LET m == MachineFor(o)
       IN  \/ /\ AlreadyCurrent(rebuild[o].mode) \/ rebuild[o].mode = "index_only"
              /\ AdvanceTo(o, "cleanup") /\ UNCHANGED <<derivedRoot, records, machines>>
           \/ /\ ~AlreadyCurrent(rebuild[o].mode) /\ rebuild[o].mode # "index_only"
              /\ machines' = [machines EXCEPT ![o] = IF ActiveRead = "known" THEN m ELSE @]
              /\ IF ActiveRead # "known" \/ m.cur = NoBuild \/ ~VerifyPublishable(m, m.cur)
                 THEN BlockRebuild(o, "publish_precondition_failed") /\ UNCHANGED <<derivedRoot, records>>
                 ELSE /\ AdvanceTo(o, "cleanup")
                      /\ IF PublishSeam THEN PublishTransaction(m.cur) ELSE UNCHANGED <<derivedRoot, records>>
    /\ UNCHANGED <<world, upsets, reruns>>

\* _step_cleanup: what the manifest or the ready record shows of this build.
CleanupRebuild(o) ==
    /\ Acting(o, "cleanup")
    /\ machines' = [machines EXCEPT ![o] = Closed]
    /\ LET b == rebuild[o].build
           there == \/ manifest.state = "ok" /\ manifest.gen = b
                    \/ b \in DOMAIN records /\ records[b] = "ready"
       IN  rebuild' = [rebuild EXCEPT ![o].state = "succeeded",
              ![o].reason = IF AlreadyCurrent(rebuild[o].mode) THEN "already_current"
                            ELSE IF rebuild[o].mode = "index_only" THEN "index_rebuilt" ELSE "rebuilt",
              ![o].result = IF there THEN b ELSE NoBuild]
    /\ UNCHANGED <<world, derivedRoot, records, upsets, reruns>>

\* The executor dies: the record stays, the machine is gone.  The first chunk
\* of its build may have been under way.
ExecutorDies(o) ==
    /\ rebuild[o].state = "running" /\ machines[o].open /\ reruns < MaxReruns
    /\ reruns' = reruns + 1 /\ machines' = [machines EXCEPT ![o] = Closed]
    /\ \/ UNCHANGED records
       \/ \E b \in {machines[o].cur} \cap DOMAIN records :
             records[b] = "running" /\ b.hlc > 0 /\ records' = WithRecord(records, b, "begun")
    /\ UNCHANGED <<world, derivedRoot, rebuild, upsets>>

\* rebuild --retry, operation run --retry: a new executor takes the phase up.
RetryRebuild(o) ==
    /\ rebuild[o].state = "blocked" /\ reruns < MaxReruns
    /\ reruns' = reruns + 1
    /\ rebuild' = [rebuild EXCEPT ![o].state = "running", ![o].reason = "none"]
    /\ machines' = [machines EXCEPT ![o] = Closed]
    /\ UNCHANGED <<world, derivedRoot, records, upsets>>

----------------------------------------------------------------------------
(* The daemon and the recorders                                            *)

Upset == upsets < MaxUpsets /\ upsets' = upsets + 1

RecordEvent == /\ snapshot.hlc < RebuildClock /\ Upset
               /\ snapshot' = [snapshot EXCEPT !.hlc = @ + 1]
               /\ \E hard \in SUBSET {FirstRep} : unfit' = unfit \cup hard
               /\ UNCHANGED <<derivedRoot, records, machines, rebuild, desired, reruns>>
ReplaceStore == /\ snapshot.epoch < RebuildEpochs /\ Upset
                /\ snapshot' = [epoch |-> snapshot.epoch + 1, hlc |-> 0] /\ unfit' = {}
                /\ UNCHANGED <<derivedRoot, records, machines, rebuild, desired, reruns>>
FixCause == /\ unfit # {} /\ Upset /\ unfit' = {}
            /\ UNCHANGED <<snapshot, desired, derivedRoot, records, machines, rebuild, reruns>>
Damage == /\ Upset
          /\ \/ damaged' = damaged \cup {manifest.gen} /\ UNCHANGED manifest
             \/ manifest' = [manifest EXCEPT !.state = "torn"] /\ UNCHANGED damaged
          /\ manifest.state = "ok"
          /\ UNCHANGED <<world, generations, sidecar, records, machines, rebuild, reruns>>

\* The daemon starts with the manifest it finds and the configured representation.
StartDaemon(rep) ==
    /\ ~machines[Daemon].open /\ Upset /\ ActiveRead = "known"
    /\ desired' = rep
    /\ machines' = [machines EXCEPT ![Daemon] = [Closed EXCEPT !.open = TRUE, !.rep = rep,
                        !.act = ManifestIdentity, !.actRep = manifest.gen.rep, !.actGen = manifest.gen]]
    /\ UNCHANGED <<snapshot, unfit, derivedRoot, records, rebuild, reruns>>
DaemonCycle ==
    /\ machines[Daemon].open
    /\ \E out \in Cycle(machines[Daemon], records) :
          /\ records' = out.recs /\ machines' = [machines EXCEPT ![Daemon] = out.m]
          /\ <<records', machines'>> # <<records, machines>>
    /\ UNCHANGED <<world, derivedRoot, rebuild, upsets, reruns>>
DaemonPublish ==
    LET m == machines[Daemon]
    IN  /\ m.open /\ m.status = "ready" /\ VerifyPublishable(m, m.cur)
        /\ PublishTransaction(m.cur)
        /\ machines' = [machines EXCEPT ![Daemon].actGen = m.cur, ![Daemon].forced = FALSE,
                                        ![Daemon].cur = NoBuild, ![Daemon].status = "none"]
        /\ UNCHANGED <<world, rebuild, upsets, reruns>>

RebuildNext ==
    \/ \E o \in Rebuilds : \/ \E mode \in Modes, restart \in Restarts : Request(o, mode, restart)
                           \/ PreflightRebuild(o) \/ StageRebuild(o) \/ PublishRebuild(o)
                           \/ CleanupRebuild(o) \/ ExecutorDies(o) \/ RetryRebuild(o)
    \/ RecordEvent \/ ReplaceStore \/ FixCause \/ Damage
    \/ \E rep \in Reps : StartDaemon(rep)
    \/ DaemonCycle \/ DaemonPublish

RebuildSpec == RebuildInit /\ [][RebuildNext]_rebuildVars

----------------------------------------------------------------------------
(* Properties                                                              *)

\* The matrix is sound, whatever layers two identities differ on
\* (compat.plan_actions): a plan that reuses or converts vectors never
\* crosses a change of epoch or of representation, every differing layer is
\* covered by some action, and no action of the plan by another one.
Covered(layer, plan) ==
    \/ layer = "fact_schema"
    \/ layer = "vector_format" /\ "reembed" \in plan
    \/ \E a \in plan : LayerAction(layer) \in {a} \cup Implies(a)
PlanSound ==
    \A epoch \in 1..RebuildEpochs, rep \in Reps, older \in SUBSET Layers :
        LET want == LayeredIdentity(1, FirstRep, {})
            have == LayeredIdentity(epoch, rep, older)
            plan == PlanActions(want, have, SchemaNow)
        IN  plan # {} =>
            /\ VectorReuse(plan) # "none" => epoch = 1 /\ rep = FirstRep
            /\ \A layer \in Mismatch(want, have) : Covered(layer, plan)
            /\ \A a, b \in plan : a \notin Implies(b)

\* A `rebuild --full' never throws away the build it was created for while the facts
\* still have the epoch the build is pinned to, whatever the daemon made
\* active meanwhile, unless that build is published (RISK-68-1,
\* _staging_representation).
KeepsItsBuild ==
    [][\A o \in Rebuilds :
          LET b == rebuild[o].build
          IN  /\ machines'[o] # machines[o] /\ b.tag = o
              /\ b \in DOMAIN records /\ LiveRecord(records, b)
              /\ b.epoch = snapshot.epoch /\ b \notin generations
              => \/ b \in DOMAIN records' /\ LiveRecord(records', b)
                 \/ b \in generations']_rebuildVars

\* What becomes active was a ready build of the tag, the representation and
\* the epoch its publisher computed, and it is whole (verify_publishable).
PublishesVerified ==
    [][manifest'.gen # manifest.gen =>
          /\ manifest'.gen \in DOMAIN records
          /\ records[manifest'.gen] = "ready" /\ manifest'.gen.epoch = snapshot.epoch]_rebuildVars

\* `rebuild --retry <build_id>' continues a blocked build: a step of the
\* retried operation does not find the record still blocked once the cause
\* is gone (rebuild_operation.py, --retry).
RetryContinues ==
    [][\A o \in Rebuilds :
          rebuild[o].state = "running" /\ rebuild'[o].reason = "staging_blocked"
             => rebuild[o].build.rep \in unfit]_rebuildVars

\* The ready build a rebuild leaves behind is for the daemon's publisher to
\* pick up: its staging machine does not discard it while its facts' epoch
\* and representation are the active ones.
ReadyPickedUp ==
    [][\A o \in Rebuilds :
          LET b == rebuild[o].result
          IN  rebuild[o].state = "succeeded" /\ b \in DOMAIN records /\ records[b] = "ready"
              /\ b.epoch = snapshot.epoch /\ b.rep = desired
              => b \in generations' \/ records'[b] = "ready"]_rebuildVars

\* A rebuild ends with the build it was started for: staging keeps the pinned
\* build over restarts and other writers, and what it publishes was verified.
RebuildSound == KeepsItsBuild /\ PublishesVerified

=============================================================================
