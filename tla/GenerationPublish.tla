------------------------- MODULE GenerationPublish -------------------------
(***************************************************************************)
(* The blue-green life of a derived generation inside the daemon: the      *)
(* resumable staging builder (staging.py, StagingBuildMachine), the        *)
(* publisher that makes a ready build the active one (publish.py), the     *)
(* retention sweeps and the rollback pointer (retention.py), the switch,   *)
(* epoch rebuild and rollback recovery of the delta machine (delta.py) and *)
(* the one-shot builder it calls (generation.py), wired by server.py.      *)
(*                                                                         *)
(* Three threads share the derived root: the staging worker (one cycle is  *)
(* one step; it runs under the publish lock), the publisher (one step per  *)
(* file operation of the publish transaction) and the delta worker.  The   *)
(* startup sweep runs in the server thread beside them.  The recorders     *)
(* append facts and maintenance replaces the store under a new epoch; the  *)
(* staging machine and the publisher are not told.                         *)
(*                                                                         *)
(* A generation is content addressed: epoch, watermark and representation  *)
(* determine it.  Catching up, queries and vectors are DeltaMachine's.     *)
(***************************************************************************)
EXTENDS Integers, FiniteSets

CONSTANTS
    Reprs,          \* representation ids
    ConfigRepr,     \* the representation the configuration declares active
    Hard,           \* <<epoch, hlc, repr>>: facts a provider cannot embed
    MaxHlc,         \* bound on the facts of one epoch
    MaxEpoch,       \* bound on store epochs
    MaxEvents       \* bound on facts, new epochs, crashes, faults, damage

ASSUME PublishAssumption ==
    /\ ConfigRepr \in Reprs
    /\ MaxHlc \in Nat /\ MaxEpoch \in Nat \ {0}
    /\ MaxEvents \in Nat

VARIABLES
    epoch, hlc,         \* the fact store
    gens, dmg,          \* generations/<id>; the ids whose container is damaged
    stg,                \* staging/<id>: id -> status of its record
    ckpt,               \* delta/<id>/: id -> consumed watermark
    amani, rmani,       \* the active and the rollback manifest
    up, cfg,            \* the daemon process; its desired representation
    swp,                \* the startup sweep: what it has read
    srv, prov, decl,    \* delta: snapshot's generation, provider, declared id
    refused, dblk,      \* delta: _refuse_reason, _blocked
    pend, result,       \* delta: _pending_publish, _publish_result
    dwk,                \* delta worker: a rebuild in progress
    act, actId,         \* staging: _active_identity, _active_generation_id
    forced, ready,      \* staging: forced build flags, _ready_generation_id
    verified, cur,      \* staging: _ready_verified, _current_progress
    pub,                \* publisher thread: program counter and locals
    committed, switched,\* publisher: _committed_ and _switched_generation_id
    overlap,            \* history: a sweep ran beside a publish
    events              \* what the bound counts

factVars  == <<epoch, hlc>>
diskVars  == <<gens, dmg, stg, ckpt, amani, rmani>>
deltaVars == <<srv, prov, decl, refused, dblk, pend, result, dwk>>
stageVars == <<act, actId, forced, ready, verified, cur>>
pubVars   == <<pub, committed, switched>>
procVars  == <<up, cfg, swp>>
tally     == <<overlap, events>>
vars == <<epoch, hlc, gens, dmg, stg, ckpt, amani, rmani, up, cfg, swp, srv,
          prov, decl, refused, dblk, pend, result, dwk, act, actId, forced,
          ready, verified, cur, pub, committed, switched, overlap, events>>

-----------------------------------------------------------------------------
(* Generations, staging records and manifests.                             *)

Gen   == [e : 1..MaxEpoch, h : 0..MaxHlc, r : Reprs]
NoGen == [e |-> 0, h |-> 0, r |-> "none"]
Torn  == [e |-> -1, h |-> 0, r |-> "torn"]   \* a manifest that does not parse
G0    == [e |-> 1, h |-> 0, r |-> ConfigRepr]

\* The target a builder with representation r computes now.
Target(r) == [e |-> epoch, h |-> hlc, r |-> r]

\* "oneshot" is the record of build_generation, "parked" a directory whose
\* progress record was moved out; neither is readable to the staging machine.
\* "begun" is a running record without a chunk beside its vectors file.
Status   == {"running", "begun", "built", "ready", "blocked", "discarded",
             "parked", "oneshot"}
Live     == {"running", "begun", "built", "ready", "blocked"}
Readable == Live \cup {"discarded"}

\* A provider of representation r meets a fact it cannot embed in (lo, hi].
Blocks(e, lo, hi, r) == \E h \in (lo + 1)..hi : <<e, h, r>> \in Hard

Put(f, g, v) == [x \in DOMAIN f \cup {g} |-> IF x = g THEN v ELSE f[x]]
Drop(f, g)   == [x \in DOMAIN f \ {g} |-> f[x]]

StatusOf(g) == IF g \in DOMAIN stg THEN stg[g] ELSE "absent"

Healthy(g) == g \in gens /\ g \notin dmg          \* open_generation succeeds

\* live_staging_generation_ids, and what retention_sweep leaves.
LiveStaging == {g \in DOMAIN stg : stg[g] \in Live}
SweptCkpt(keep) ==
    [g \in DOMAIN ckpt \cap (keep \cup LiveStaging) |-> ckpt[g]]
SweptStg == [g \in {x \in DOMAIN stg : stg[x] # "discarded"} |-> stg[g]]

Idle   == [pc |-> "poll", g |-> NoGen]
NoCur  == [g |-> NoGen, st |-> "none"]
NoAct  == [e |-> 0, r |-> "none"]
NoWork == [pc |-> "idle", g |-> NoGen]
NoSweep == [pc |-> "none", keep |-> {}, seen |-> {}]

Init ==
    /\ epoch = 1 /\ hlc = 0
    /\ gens = {G0} /\ dmg = {} /\ stg = [g \in {} |-> "running"]
    /\ amani \in {NoGen, G0} /\ rmani = NoGen
    /\ ckpt = [g \in {amani} \ {NoGen} |-> 0]
    /\ up = FALSE /\ cfg = ConfigRepr /\ swp = NoSweep
    /\ srv = NoGen /\ prov = ConfigRepr /\ decl = G0
    /\ refused = FALSE /\ dblk = FALSE /\ pend = NoGen /\ result = FALSE
    /\ dwk = NoWork
    /\ act = NoAct /\ actId = G0 /\ forced = FALSE /\ ready = NoGen
    /\ verified = FALSE /\ cur = NoCur
    /\ pub = Idle /\ committed = NoGen /\ switched = NoGen
    /\ overlap = FALSE /\ events = 0

-----------------------------------------------------------------------------
(* The world around the derived root.                                      *)

Event == events < MaxEvents /\ events' = events + 1

RecordFact ==
    /\ hlc < MaxHlc /\ Event
    /\ hlc' = hlc + 1
    /\ UNCHANGED <<epoch, diskVars, procVars, deltaVars, stageVars, pubVars,
                   overlap>>

\* clear, restore and migrate publish a store of a new epoch.  The delta
\* worker is a registered builder and is idle; the others run on.
ReplaceFacts ==
    /\ epoch < MaxEpoch /\ dwk.pc = "idle" /\ Event
    /\ epoch' = epoch + 1 /\ hlc' = 0
    /\ UNCHANGED <<diskVars, procVars, deltaVars, stageVars, pubVars, overlap>>

\* A container or a manifest is damaged while the daemon is down.
Damage ==
    /\ ~up /\ Event
    /\ \/ /\ \E g \in gens \ dmg : dmg' = dmg \cup {g}
          /\ UNCHANGED amani
       \/ /\ amani # NoGen
          /\ amani' = Torn /\ UNCHANGED dmg
    /\ UNCHANGED <<factVars, gens, stg, ckpt, rmani, procVars, deltaVars,
                   stageVars, pubVars, overlap>>

\* The process dies.  A crash inside _verify_container_dance leaves the
\* staging directory without its progress record; one inside the first chunk
\* of _build_chunks leaves the vectors file it has created.
Crash ==
    /\ up /\ Event
    /\ up' = FALSE /\ swp' = NoSweep
    /\ \/ UNCHANGED stg
       \/ \E g \in DOMAIN stg : /\ stg[g] \in {"built", "ready"}
                                /\ stg' = [stg EXCEPT ![g] = "parked"]
       \/ \E g \in DOMAIN stg : /\ stg[g] = "running" /\ g.h > 0
                                /\ stg' = [stg EXCEPT ![g] = "begun"]
    /\ srv' = NoGen /\ refused' = FALSE /\ dblk' = FALSE
    /\ pend' = NoGen /\ result' = FALSE /\ dwk' = NoWork
    /\ act' = NoAct /\ forced' = FALSE /\ ready' = NoGen
    /\ verified' = FALSE /\ cur' = NoCur
    /\ pub' = Idle /\ committed' = NoGen /\ switched' = NoGen
    /\ UNCHANGED <<factVars, gens, dmg, ckpt, amani, rmani, cfg, prov, decl,
                   actId, overlap>>

-----------------------------------------------------------------------------
(* Process start: the config seam of server.py, the constructor of the     *)
(* delta machine, then the workers and the startup sweep.                  *)

\* resolve_active_identity and the overrides it gives both machines.
Declared == IF amani \in Gen THEN amani ELSE G0
StartRepr == Declared.r

\* Everything a start sets apart from what was loaded.
StartWith(g, isRefused, isBlocked) ==
    /\ ~up /\ up' = TRUE
    /\ \E r \in Reprs : cfg' = r
    /\ swp' = [NoSweep EXCEPT !.pc = "due"]
    /\ srv' = g /\ prov' = StartRepr
    /\ refused' = isRefused /\ dblk' = isBlocked
    /\ act' = IF amani \in Gen THEN [e |-> amani.e, r |-> amani.r] ELSE NoAct
    /\ forced' = isRefused
    /\ actId' = IF amani' \in Gen /\ ~isRefused THEN amani' ELSE Declared
    /\ UNCHANGED <<factVars, pend, result, dwk, ready, verified, cur, pubVars,
                   tally>>

\* _load_or_build_generation finds the declared generation and serves it.
StartServe ==
    /\ amani # Torn /\ Healthy(Declared) /\ Declared.e = epoch
    /\ UNCHANGED diskVars
    /\ decl' = Declared
    /\ StartWith(Declared, FALSE, FALSE)

\* Nothing published and no usable container, or one of another epoch: the
\* one-shot build.  A directory in its way makes the constructor, and the
\* start of the daemon, fail.
BuildsAtStart ==
    \/ amani = NoGen /\ ~(Healthy(G0) /\ epoch = 1)
    \/ amani \in Gen /\ Healthy(amani) /\ amani.e # epoch

TargetFree(t) == t \notin gens /\ t \notin DOMAIN stg

StartBuild ==
    LET t == Target(StartRepr)
    IN  /\ BuildsAtStart /\ TargetFree(t)
        /\ decl' = Declared
        /\ UNCHANGED <<ckpt, amani, rmani>>
        /\ \/ /\ ~Blocks(t.e, 0, t.h, t.r)
              /\ StartWith(t, FALSE, FALSE)
              /\ gens' = gens \cup {t} /\ dmg' = dmg \ {t}
              /\ UNCHANGED stg
           \/ /\ Blocks(t.e, 0, t.h, t.r)
              /\ StartWith(NoGen, FALSE, TRUE)
              /\ stg' = Put(stg, t, "oneshot")
              /\ UNCHANGED <<gens, dmg>>

\* _recover_via_rollback is called: the manifest does not parse, or what it
\* names is missing or fails open_generation.
Broken == amani = Torn \/ (amani \in Gen /\ ~Healthy(amani))

\* The rollback may be served: it is not the damaged id, it opens, it is of
\* this epoch and representation and its delta can be caught up.
Recoverable ==
    /\ rmani \in Gen /\ rmani # Declared /\ Healthy(rmani)
    /\ rmani.e = epoch /\ rmani.r = StartRepr
    /\ ~Blocks(rmani.e, rmani.h, hlc, rmani.r)

StartRecover ==
    /\ Broken /\ Recoverable
    /\ amani' = rmani /\ rmani' = NoGen
    /\ gens' = {rmani} /\ dmg' = dmg
    /\ ckpt' = [g \in (DOMAIN ckpt \cap LiveStaging) \cup {rmani} |->
                   IF g = rmani THEN hlc ELSE ckpt[g]]
    /\ stg' = SweptStg
    /\ decl' = rmani
    /\ StartWith(rmani, FALSE, FALSE)

\* _refuse_recovery: park refused and force a background rebuild.  The
\* damaged container is isolated unless only the manifest is damaged; an
\* unusable pointer is cleared.
StartRefuse ==
    /\ Broken /\ ~Recoverable
    /\ gens' = IF amani = Torn THEN gens ELSE gens \ {amani}
    /\ rmani' = IF \/ rmani = Declared
                   \/ rmani \in Gen /\ ~Healthy(rmani)
                   \/ rmani \in Gen /\ rmani.e # epoch
                THEN NoGen ELSE rmani
    /\ decl' = Declared
    /\ UNCHANGED <<dmg, stg, ckpt, amani>>
    /\ StartWith(NoGen, TRUE, FALSE)

Start == StartServe \/ StartBuild \/ StartRecover \/ StartRefuse

\* sweep_from_manifests of the server thread: it reads both manifests, lists
\* generations/ and then removes directory after directory.
SweepRead ==
    /\ up /\ swp.pc = "due"
    /\ swp' = [pc |-> "listed", keep |-> {amani, rmani}, seen |-> gens]
    /\ UNCHANGED <<factVars, diskVars, up, cfg, deltaVars, stageVars, pubVars,
                   tally>>

SweepRemove ==
    /\ up /\ swp.pc = "listed"
    /\ gens' = gens \ (swp.seen \ swp.keep)
    /\ ckpt' = SweptCkpt(swp.keep) /\ stg' = SweptStg
    /\ swp' = NoSweep
    /\ UNCHANGED <<factVars, dmg, amani, rmani, up, cfg, deltaVars, stageVars,
                   pubVars, tally>>

-----------------------------------------------------------------------------
(* The delta worker: _cycle takes a pending switch first, even when        *)
(* refused, then parks when refused or blocked, then rebuilds when the     *)
(* store epoch is not the one it serves.                                   *)

DeltaFree == up /\ dwk.pc = "idle"

\* _perform_publish_switch: swap only what verifies, for the epoch the
\* publisher expects.
Switchable(g) == g.e = epoch /\ Healthy(g) /\ g \in DOMAIN ckpt

SwitchPointer ==
    /\ DeltaFree /\ pend # NoGen
    /\ pend' = NoGen /\ result' = Switchable(pend)
    /\ IF Switchable(pend)
       THEN /\ srv' = pend /\ prov' = pend.r /\ decl' = pend
            /\ refused' = FALSE /\ dblk' = FALSE
       ELSE UNCHANGED <<srv, prov, decl, refused, dblk>>
    /\ UNCHANGED <<factVars, diskVars, procVars, dwk, stageVars, pubVars,
                   tally>>

\* _perform_rebuild, first half: hide the snapshot, drop the checkpoint,
\* then reuse the declared generation or start the one-shot build.  A switch
\* queued since the cycle began is aborted.
RebuildBegin ==
    LET t == Target(prov)
    IN  /\ DeltaFree /\ ~refused /\ ~dblk
        /\ srv = NoGen \/ srv.e # epoch
        /\ srv' = NoGen /\ pend' = NoGen
        /\ result' = IF pend = NoGen THEN result ELSE FALSE
        /\ ckpt' = IF srv = NoGen THEN ckpt ELSE Drop(ckpt, srv)
        /\ \/ /\ Healthy(decl) /\ decl.e = epoch
              /\ dwk' = [pc |-> "install", g |-> decl]
              /\ UNCHANGED <<stg, dblk>>
           \/ /\ ~(Healthy(decl) /\ decl.e = epoch) /\ TargetFree(t)
              /\ stg' = Put(stg, t, "oneshot")
              /\ dblk' = Blocks(t.e, 0, t.h, t.r)
              /\ dwk' = IF dblk' THEN NoWork ELSE [pc |-> "build", g |-> t]
        /\ UNCHANGED <<factVars, gens, dmg, amani, rmani, procVars, prov,
                       decl, refused, stageVars, pubVars, tally>>

\* The final identity check of build_generation and its rename.  A fact
\* recorded meanwhile, or a staging build of the same target that removed
\* the directory, makes the worker start over.
RebuildRename ==
    /\ up /\ dwk.pc = "build"
    /\ IF StatusOf(dwk.g) = "oneshot" /\ dwk.g = Target(prov)
       THEN /\ gens' = gens \cup {dwk.g} /\ dmg' = dmg \ {dwk.g}
            /\ stg' = Drop(stg, dwk.g)
            /\ dwk' = [dwk EXCEPT !.pc = "install"]
       ELSE /\ stg' = IF StatusOf(dwk.g) = "oneshot"
                      THEN [stg EXCEPT ![dwk.g] = "parked"] ELSE stg
            /\ dwk' = NoWork
            /\ UNCHANGED <<gens, dmg>>
    /\ UNCHANGED <<factVars, ckpt, amani, rmani, procVars, srv, prov, decl,
                   refused, dblk, pend, result, stageVars, pubVars, tally>>

RebuildInstall ==
    /\ up /\ dwk.pc = "install"
    /\ srv' = dwk.g
    /\ dwk' = [dwk EXCEPT !.pc = "sweep"]
    /\ UNCHANGED <<factVars, diskVars, procVars, prov, decl, refused, dblk,
                   pend, result, stageVars, pubVars, tally>>

\* A publish has parked its record and its switch is not done.
Publishing == \/ pub.pc \in {"rename", "renamed", "opened",
                             "switch", "wait"}
              \/ committed # switched

\* The epoch sweep: the rollback pointer goes, and every generation but the
\* new one.
RebuildSweep ==
    /\ up /\ dwk.pc = "sweep"
    /\ rmani' = NoGen
    /\ gens' = gens \cap {dwk.g}
    /\ ckpt' = SweptCkpt({dwk.g}) /\ stg' = SweptStg
    /\ overlap' = (overlap \/ Publishing)
    /\ dwk' = NoWork
    /\ UNCHANGED <<factVars, dmg, amani, procVars, srv, prov, decl, refused,
                   dblk, pend, result, stageVars, pubVars, events>>

\* _catch_up_batch brings the checkpoint of the served generation up to the
\* facts; _maybe_request_compaction may then ask for a build.
CatchUp ==
    /\ DeltaFree /\ pend = NoGen /\ ~refused /\ ~dblk
    /\ srv # NoGen /\ srv.e = epoch
    /\ LET base == IF srv \in DOMAIN ckpt THEN ckpt[srv] ELSE srv.h
       IN  IF Blocks(epoch, base, hlc, srv.r)
           THEN dblk' = TRUE /\ UNCHANGED <<ckpt, forced>>
           ELSE /\ base < hlc
                /\ ckpt' = Put(ckpt, srv, hlc)
                /\ forced' \in {forced, TRUE}
                /\ UNCHANGED dblk
    /\ UNCHANGED <<factVars, gens, dmg, stg, amani, rmani, procVars, srv, prov,
                   decl, refused, pend, result, dwk, act, actId, ready,
                   verified, cur, pubVars, tally>>

-----------------------------------------------------------------------------
(* The staging worker.  One _cycle is one step, under the publish lock.    *)

Locked == pub.pc \notin {"poll", "retry"}

\* _active_identity_value: the manifest's identity as of process start, or
\* the declared representation over the current facts.
ActiveIdentity == IF act = NoAct THEN [e |-> epoch, r |-> actId.r] ELSE act

\* plan_actions says noop, and no compaction or forced rebuild is asked for.
Matches == ActiveIdentity = [e |-> epoch, r |-> cfg] /\ ~forced

\* _find_own_record, _find_ready_pending.
Own == {g \in LiveStaging : g.e = epoch /\ g.r = cfg}
ReadyPending == {g \in Own : stg[g] = "ready"}

\* _mark_stale_records_discarded.
Marked(keep) ==
    [g \in DOMAIN stg |->
        IF g \notin keep /\ stg[g] \in Live THEN "discarded" ELSE stg[g]]

StagingTurn == up /\ ~Locked

\* Either own record is already published: discard it and stop forcing.
Obsolete(g) == g \in gens \/ g = actId

\* The noop gate, with no ready build to keep.
StagingIdle ==
    /\ StagingTurn /\ Matches /\ ReadyPending = {}
    /\ stg' = Marked({}) /\ cur' = NoCur
    /\ <<stg, cur>> # <<stg', cur'>>
    /\ UNCHANGED <<factVars, gens, dmg, ckpt, amani, rmani, procVars, deltaVars,
                   act, actId, forced, ready, verified, pubVars, tally>>

StagingObsolete ==
    /\ StagingTurn
    /\ \E g \in IF Matches THEN ReadyPending ELSE Own :
           /\ Obsolete(g)
           /\ stg' = [Marked({g}) EXCEPT ![g] = "discarded"]
    /\ forced' = FALSE /\ ready' = NoGen /\ verified' = FALSE /\ cur' = NoCur
    /\ UNCHANGED <<factVars, gens, dmg, ckpt, amani, rmani, procVars, deltaVars,
                   act, actId, pubVars, tally>>

\* No record of its own: start the build of the current target, unless it
\* is already published.  A directory of the same id is removed first.
StagingStart ==
    /\ StagingTurn /\ ~Matches /\ Own = {}
    /\ LET t == Target(cfg)
       IN  IF t \in gens
           THEN stg' = Marked({}) /\ cur' = NoCur
           ELSE stg' = Put(Marked({}), t, "running")
                /\ cur' = [g |-> t, st |-> "running"]
    /\ verified' = IF Target(cfg) \in gens THEN verified ELSE FALSE
    /\ <<stg, cur, verified>> # <<stg', cur', verified'>>
    /\ UNCHANGED <<factVars, gens, dmg, ckpt, amani, rmani, procVars, deltaVars,
                   act, actId, forced, ready, pubVars, tally>>

\* _resume_build: embed the rows, or block on one that cannot be embedded.
StagingEmbed ==
    /\ StagingTurn /\ ~Matches
    /\ \E g \in Own :
           /\ ~Obsolete(g) /\ stg[g] = "running"
           /\ g.h = 0 \/ dwk.pc # "build"                \* the builder lease
           /\ LET st == IF Blocks(g.e, 0, g.h, g.r) THEN "blocked" ELSE "built"
              IN  /\ stg' = [Marked({g}) EXCEPT ![g] = st]
                  /\ cur' = [g |-> g, st |-> st]
    /\ UNCHANGED <<factVars, gens, dmg, ckpt, amani, rmani, procVars, deltaVars,
                   act, actId, forced, ready, verified, pubVars, tally>>

\* _finalize_build: manifest, reopen verification, the ready mark.
StagingFinalize ==
    /\ StagingTurn /\ ~Matches
    /\ \E g \in Own :
           /\ ~Obsolete(g) /\ stg[g] = "built"
           /\ stg' = [Marked({g}) EXCEPT ![g] = "ready"]
           /\ cur' = [g |-> g, st |-> "ready"] /\ ready' = g
    /\ UNCHANGED <<factVars, gens, dmg, ckpt, amani, rmani, procVars, deltaVars,
                   act, actId, forced, verified, pubVars, tally>>

\* A build discarded outside the noop gate is started again in the directory
\* of its old id: with a newer target its record does not match the name.
Restarted(g) == IF Matches THEN "discarded"
                ELSE IF g = Target(cfg) THEN "running" ELSE "parked"

\* _reverify_ready: a ready build found on disk is offered once verified; a
\* failure discards it and starts over in the same cycle.
StagingReverify ==
    /\ StagingTurn /\ ~verified
    /\ \E g \in ReadyPending :
           /\ ~Obsolete(g)
           /\ \/ /\ stg' = Marked({g}) /\ cur' = [g |-> g, st |-> "ready"]
                 /\ ready' = g /\ verified' = TRUE /\ UNCHANGED events
              \/ /\ Event
                 /\ stg' = [Marked({g}) EXCEPT ![g] = Restarted(g)]
                 /\ cur' = IF Restarted(g) = "parked" THEN NoCur
                           ELSE [g |-> g, st |-> IF Matches THEN "ready" ELSE "running"]
                 /\ ready' = NoGen /\ UNCHANGED verified
    /\ UNCHANGED <<factVars, gens, dmg, ckpt, amani, rmani, procVars, deltaVars,
                   act, actId, forced, pubVars, overlap>>

\* A blocked record, or one verified before, only refreshes _sync_state.  A
\* begun one raises on every cycle: O_EXCL finds its vectors file.
StagingPark ==
    /\ StagingTurn
    /\ \E g \in Own :
           /\ ~Obsolete(g)
           /\ \/ stg[g] \in {"blocked", "begun"} /\ ~Matches
              \/ stg[g] = "ready" /\ verified
           /\ stg' = Marked({g}) /\ cur' = [g |-> g, st |-> stg[g]]
    /\ <<stg, cur>> # <<stg', cur'>>
    /\ UNCHANGED <<factVars, gens, dmg, ckpt, amani, rmani, procVars, deltaVars,
                   act, actId, forced, ready, verified, pubVars, tally>>

Staging == \/ StagingIdle \/ StagingObsolete \/ StagingStart \/ StagingEmbed
           \/ StagingFinalize \/ StagingReverify \/ StagingPark

-----------------------------------------------------------------------------
(* The publisher.  "verify" to "switch" hold the publish lock.             *)

At(pc) == up /\ pub.pc = pc

Goto(pc) == pub' = [pub EXCEPT !.pc = pc]

Done == pub' = Idle

\* Mutant: the retry waits for a switch it does not queue again.
PublishRetryWaits ==
    /\ At("poll") /\ committed # switched
    /\ pub' = [Idle EXCEPT !.pc = "retry"]
    /\ UNCHANGED <<factVars, diskVars, procVars, deltaVars, stageVars,
                   committed, switched, tally>>

\* _cycle with a committed publish that is not switched: only the handshake.
PublishRetry ==
    /\ At("poll") /\ committed # switched
    /\ pend' = IF pend = NoGen THEN committed ELSE pend
    /\ pub' = [Idle EXCEPT !.pc = "retry"]
    /\ UNCHANGED <<factVars, diskVars, procVars, srv, prov, decl, refused, dblk,
                   result, dwk, stageVars, committed, switched, tally>>

\* The answer of a retried handshake: no sweep, no success hook.
PublishRetried ==
    /\ At("retry") /\ Done
    /\ \/ pend = NoGen /\ result /\ switched' = committed
       \/ pend = NoGen /\ ~result /\ UNCHANGED switched
       \/ pend # NoGen /\ UNCHANGED switched               \* the deadline
    /\ UNCHANGED <<factVars, diskVars, procVars, deltaVars, stageVars,
                   committed, tally>>

\* Mutant: the build is picked while an older publish is not switched.
PublishPickEarly ==
    /\ At("poll")
    /\ ready # NoGen /\ ready \in DOMAIN stg
    /\ cur = [g |-> ready, st |-> "ready"]
    /\ pub' = [pc |-> "verify", g |-> ready]
    /\ UNCHANGED <<factVars, diskVars, procVars, deltaVars, stageVars,
                   committed, switched, tally>>

\* _cycle picks the ready build the staging machine reports, takes the lock,
\* and finishes a publish the manifest already names.
PublishPick ==
    /\ At("poll") /\ committed = switched
    /\ ready # NoGen /\ ready \in DOMAIN stg
    /\ cur = [g |-> ready, st |-> "ready"]
    /\ pub' = [pc |-> "verify", g |-> ready]
    /\ UNCHANGED <<factVars, diskVars, procVars, deltaVars, stageVars,
                   committed, switched, tally>>

PublishAlready ==
    /\ At("verify") /\ amani = pub.g
    /\ IF pub.g \in gens THEN UNCHANGED <<gens, dmg, stg>>
       ELSE /\ gens' = gens \cup {pub.g} /\ dmg' = dmg \ {pub.g}
            /\ stg' = Drop(stg, pub.g)
    /\ Goto("switch")
    /\ UNCHANGED <<factVars, ckpt, amani, rmani, procVars, deltaVars, stageVars,
                   committed, switched, tally>>

\* verify_publishable: the record is still ready and its target recomputes.
Publishable(g) == StatusOf(g) = "ready" /\ g.e = epoch /\ g.r = cfg

PublishReject ==
    /\ At("verify") /\ amani # pub.g /\ ~Publishable(pub.g)
    /\ stg' = IF StatusOf(pub.g) \in Live THEN [stg EXCEPT ![pub.g] = "discarded"]
              ELSE stg
    /\ ready' = NoGen /\ verified' = FALSE
    /\ Done
    /\ UNCHANGED <<factVars, gens, dmg, ckpt, amani, rmani, procVars, deltaVars,
                   act, actId, forced, cur, committed, switched, tally>>

\* _build_staging_delta absorbs (H0, H1] into the checkpoint of the build; a
\* fact that cannot be embedded blocks it.
PublishAbsorb ==
    /\ At("verify") /\ amani # pub.g /\ Publishable(pub.g)
    /\ IF Blocks(pub.g.e, pub.g.h, hlc, pub.g.r)
       THEN /\ stg' = [stg EXCEPT ![pub.g] = "blocked"]
            /\ ready' = NoGen /\ verified' = FALSE
            /\ Done /\ UNCHANGED ckpt
       ELSE /\ ckpt' = Put(ckpt, pub.g, hlc)
            /\ Goto("park") /\ UNCHANGED <<stg, ready, verified>>
    /\ UNCHANGED <<factVars, gens, dmg, amani, rmani, procVars, deltaVars, act,
                   actId, forced, cur, committed, switched, tally>>

\* _park_progress, then the rename into generations/.
PublishPark ==
    /\ At("park")
    /\ stg' = [stg EXCEPT ![pub.g] = "parked"]
    /\ overlap' = (overlap \/ swp.pc # "none")
    /\ Goto("rename")
    /\ UNCHANGED <<factVars, gens, dmg, ckpt, amani, rmani, procVars, deltaVars,
                   stageVars, committed, switched, events>>

PublishRename ==
    /\ At("rename")
    /\ stg' = Drop(stg, pub.g)
    /\ gens' = gens \cup {pub.g} /\ dmg' = dmg \ {pub.g}
    /\ Goto("renamed")
    /\ UNCHANGED <<factVars, ckpt, amani, rmani, procVars, deltaVars, stageVars,
                   committed, switched, tally>>

\* Before the commit point an error moves the container back.
RolledBack ==
    /\ gens' = gens \ {pub.g}
    /\ stg' = IF pub.g \in gens THEN Put(stg, pub.g, "ready") ELSE stg
    /\ Done

\* register_healthy_rollback makes the generation served now the rollback;
\* then the new container is opened for its manifest.
PublishRegister ==
    /\ At("renamed")
    /\ rmani' = IF srv # NoGen /\ srv # pub.g /\ Healthy(srv) THEN srv
                ELSE rmani
    /\ \/ Healthy(pub.g) /\ Goto("opened") /\ UNCHANGED <<gens, stg>>
       \/ ~Healthy(pub.g) /\ RolledBack
    /\ UNCHANGED <<factVars, dmg, ckpt, amani, procVars, deltaVars, stageVars,
                   committed, switched, tally>>

\* Mutant: the switch goes ahead without the manifest.
PublishCommitNothing ==
    /\ At("opened") /\ Goto("switch")
    /\ UNCHANGED <<factVars, diskVars, procVars, deltaVars, stageVars,
                   committed, switched, tally>>

\* write_active_manifest: the commit point.  It fails before the rename of
\* the manifest, or after it (the fsync of the directory, which the
\* reconciliation may find durable or not).
PublishCommit ==
    /\ At("opened")
    /\ amani' = pub.g
    /\ Goto("switch")
    /\ UNCHANGED <<factVars, gens, dmg, stg, ckpt, rmani, procVars, deltaVars,
                   stageVars, committed, switched, tally>>

\* Mutant: a fault after the manifest's rename is taken for one before it.
PublishFaultRollsBack ==
    /\ At("opened") /\ Event
    /\ RolledBack /\ amani' \in {amani, pub.g} /\ UNCHANGED committed
    /\ UNCHANGED <<factVars, dmg, ckpt, rmani, procVars, deltaVars, stageVars,
                   switched, overlap>>

PublishFault ==
    /\ At("opened") /\ Event
    /\ \/ RolledBack /\ UNCHANGED <<amani, committed>>
       \/ /\ amani' = pub.g /\ committed' = pub.g
          /\ Done /\ UNCHANGED <<gens, stg>>
    /\ UNCHANGED <<factVars, dmg, ckpt, rmani, procVars, deltaVars, stageVars,
                   switched, overlap>>

\* publish_switch: queue, or join, the worker's switch and wait for it.
PublishSwitch ==
    /\ At("switch")
    /\ pend' = IF pend = NoGen THEN pub.g ELSE pend
    /\ Goto("wait")
    /\ UNCHANGED <<factVars, diskVars, procVars, srv, prov, decl, refused, dblk,
                   result, dwk, stageVars, committed, switched, tally>>

\* _complete_publish_switch, the result fields and the success hook.
PublishDone ==
    /\ At("wait") /\ pend = NoGen /\ result
    /\ gens' = gens \cap {pub.g, rmani}
    /\ ckpt' = SweptCkpt({pub.g, rmani}) /\ stg' = SweptStg
    /\ committed' = pub.g /\ switched' = pub.g
    /\ forced' = FALSE
    /\ Done
    /\ UNCHANGED <<factVars, dmg, amani, rmani, procVars, deltaVars, act, actId,
                   ready, verified, cur, tally>>

\* The switch was refused, or is still queued at the deadline.
PublishUnswitched ==
    /\ At("wait") /\ (pend # NoGen \/ ~result)
    /\ committed' = pub.g
    /\ Done
    /\ UNCHANGED <<factVars, diskVars, procVars, deltaVars, stageVars, switched,
                   tally>>

Publish == \/ PublishRetry \/ PublishRetried \/ PublishPick \/ PublishAlready
           \/ PublishReject \/ PublishAbsorb \/ PublishPark \/ PublishRename
           \/ PublishRegister \/ PublishCommit \/ PublishFault \/ PublishSwitch \/ PublishDone
           \/ PublishUnswitched

Delta == \/ SwitchPointer \/ RebuildBegin \/ RebuildRename \/ RebuildInstall
         \/ RebuildSweep \/ CatchUp

Next == \/ RecordFact \/ ReplaceFacts \/ Damage \/ Crash \/ Start
        \/ SweepRead \/ SweepRemove \/ Delta \/ Staging \/ Publish

Spec == Init /\ [][Next]_vars

\* Each thread of a running daemon keeps taking its turns.  A handshake that
\* is tried for ever is answered within its deadline at some time: the
\* deadline is many times the worker's poll interval.
Fairness ==
    /\ WF_vars(Delta) /\ WF_vars(Staging) /\ WF_vars(Publish)
    /\ SF_vars(SwitchPointer /\ pub.pc = "retry")

FairSpec == Spec /\ Fairness

-----------------------------------------------------------------------------
(* Properties.                                                             *)

TypeOK ==
    /\ epoch \in 1..MaxEpoch /\ hlc \in 0..MaxHlc
    /\ gens \subseteq Gen /\ dmg \subseteq Gen
    /\ DOMAIN stg \subseteq Gen /\ \A g \in DOMAIN stg : stg[g] \in Status
    /\ DOMAIN ckpt \subseteq Gen /\ \A g \in DOMAIN ckpt : ckpt[g] \in 0..MaxHlc
    /\ amani \in Gen \cup {NoGen, Torn} /\ rmani \in Gen \cup {NoGen}
    /\ up \in BOOLEAN /\ cfg \in Reprs /\ prov \in Reprs
    /\ srv \in Gen \cup {NoGen} /\ decl \in Gen
    /\ pend \in Gen \cup {NoGen} /\ actId \in Gen
    /\ ready \in Gen \cup {NoGen}
    /\ committed \in Gen \cup {NoGen} /\ switched \in Gen \cup {NoGen}

\* Whatever step a crash cuts short, the manifests of the current epoch name
\* containers that are in generations/, the active one with its checkpoint
\* (publish.py: a crash loads the complete old or the complete new one).
ManifestNamesComplete ==
    ~overlap =>
        /\ amani \in Gen /\ amani.e = epoch /\ amani \notin dmg
               => amani \in gens /\ amani \in DOMAIN ckpt
        /\ rmani \in Gen /\ rmani.e = epoch /\ rmani \notin dmg
               => rmani \in gens

\* retention.py: "The sweep never runs mid-publish".  No sweep removes the
\* container or the checkpoint of the publish in progress.
SweepSparesPublish ==
    [][pub.pc \in {"renamed", "opened", "switch"} /\ pub' = pub
          => /\ pub.g \in gens => pub.g \in gens'
             /\ pub.g \in DOMAIN ckpt => pub.g \in DOMAIN ckpt']_vars

\* What queries see of the current epoch is what a restart would load, but
\* for a publish that is between its commit and its switch
\* (delta.py publish_switch: the manifest is durable before the call).
DurableBeforeVisible ==
    (up /\ srv \in Gen /\ amani \in Gen /\ srv.e = epoch /\ amani.e = epoch)
        => amani = srv \/ amani \in {committed, pub.g}

\* The derived root implements the two-pointer abstraction.
StoreEpoch(g) == g.e
Pointer == INSTANCE ActivePointer WITH
    Pointers <- Gen, NoPointer <- NoGen, EpochOf <- StoreEpoch,
    durable <- IF amani = Torn THEN NoGen ELSE amani,
    visible <- srv, live <- epoch
ImplementsPointer == Pointer!Spec

\* A committed publish is switched in, however often the handshake times
\* out, unless the store changes, the process dies or the container is lost.
Unswitched ==
    up /\ committed # switched /\ committed.e = epoch /\ Switchable(committed)

CommittedServed == Unswitched ~> ~Unswitched

\* The manifest names only generations that are complete and on disk, and it
\* becomes durable before anything serves from it.
ManifestSound == ManifestNamesComplete /\ DurableBeforeVisible

=============================================================================
