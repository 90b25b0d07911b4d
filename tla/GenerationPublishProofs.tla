---------------------- MODULE GenerationPublishProofs ----------------------
(***************************************************************************)
(* Proofs about the blue-green publish, for any set of representations and *)
(* any number of epochs, facts and faults.  PublishInv is the inductive    *)
(* invariant.  Its last two parts hold while no sweep has run beside a     *)
(* publish: a sweep of the startup thread, or of an epoch rebuild, reads   *)
(* the manifests without the publish lock and may remove what a publish    *)
(* has just renamed or is about to switch to.  The first seven parts hold  *)
(* in every behaviour.                                                     *)
(***************************************************************************)
EXTENDS GenerationPublish, TLAPS

Gens == Gen \cup {NoGen}
PublisherPoints == {"poll", "retry", "verify", "park", "rename", "renamed", "opened", "switch", "wait"}
Publishers == [pc : PublisherPoints, g : Gens]
Workers == [pc : {"idle", "build", "install", "sweep"}, g : Gens]
Sweeps == [pc : {"none", "due", "listed"}, keep : SUBSET (Gens \cup {Torn}), seen : SUBSET Gen]

\* The types the argument needs.
PublishTypes ==
    /\ epoch \in 1..MaxEpoch /\ hlc \in 0..MaxHlc
    /\ gens \subseteq Gen /\ DOMAIN stg \subseteq Gen
    /\ amani \in Gens \cup {Torn} /\ rmani \in Gens
    /\ up \in BOOLEAN /\ cfg \in Reprs /\ prov \in Reprs /\ swp \in Sweeps
    /\ srv \in Gens /\ decl \in Gen /\ pend \in Gens /\ dwk \in Workers
    /\ actId \in Gen /\ ready \in Gens
    /\ pub \in Publishers /\ committed \in Gens /\ switched \in Gens
    /\ refused \in BOOLEAN /\ result \in BOOLEAN /\ overlap \in BOOLEAN

\* Nothing is of an epoch to come.
PastInv ==
    /\ \A g \in gens \cup DOMAIN stg : g.e <= epoch
    /\ amani.e <= epoch /\ rmani.e <= epoch /\ ready.e <= epoch
    /\ pub.g.e <= epoch /\ dwk.g.e <= epoch

\* A process that is down has nothing in memory.
DownInv ==
    ~up => /\ pub = Idle /\ dwk = NoWork /\ swp = NoSweep
           /\ srv = NoGen /\ pend = NoGen /\ ready = NoGen
           /\ committed = NoGen /\ switched = NoGen

\* What the delta worker shows while it rebuilds, and while it refuses.
WorkerInv ==
    /\ dwk.pc # "idle" => ~refused /\ dwk.g \in Gen
    /\ dwk.pc \in {"build", "install"} => srv = NoGen
    /\ dwk.pc = "sweep" => srv = dwk.g
    /\ refused => srv = NoGen

\* Staging directories and containers: a build is in one place.
RecordInv ==
    /\ gens \cap DOMAIN stg = {}
    /\ pub.pc = "park" => pub.g \in DOMAIN stg /\ stg[pub.g] = "ready"
    /\ pub.pc = "rename" => pub.g \in DOMAIN stg /\ stg[pub.g] = "parked"
    /\ ready # actId /\ pub.g # actId /\ committed # actId

\* The transaction of the publisher and the manifest.
TransactionInv ==
    /\ pub.pc \in {"poll", "retry"} <=> pub.g = NoGen
    /\ pub.pc \notin {"poll", "retry"} => committed = switched
    /\ pub.pc = "retry" => committed # switched
    /\ pub.pc \in {"park", "rename", "renamed", "opened"} => amani # pub.g
    /\ pub.pc \in {"switch", "wait"} => amani = pub.g
    /\ committed # switched => committed # NoGen
    /\ committed # NoGen /\ pub.pc \notin {"switch", "wait"} => amani = committed
    /\ pend # NoGen => amani \in {pend, committed, pub.g}

\* What the manifest names is served, refused, or what this process published.
KnownInv ==
    up /\ amani \in Gen /\ amani.e = epoch => amani = srv \/ refused \/ amani \in {committed, pub.g}

\* The containers and checkpoints that the manifests and the publish need.
KeptInv ==
    /\ amani \in Gen /\ amani.e = epoch /\ amani \notin dmg => amani \in gens /\ amani \in DOMAIN ckpt
    /\ rmani \in Gen /\ rmani.e = epoch => rmani \in gens
    /\ swp.pc = "listed" => amani \in swp.keep /\ rmani \in swp.keep \cup {NoGen}
    /\ swp.pc # "none" => pub.pc \notin {"rename", "renamed", "opened"}
    /\ pub.pc \in {"park", "rename", "renamed", "opened"} /\ pub.g.e = epoch => pub.g \in DOMAIN ckpt
    /\ pub.pc \in {"renamed", "opened"} => pub.g \in gens /\ pub.g \notin dmg
    /\ pub.pc \in {"renamed", "opened"} /\ pub.g.e = epoch => pub.g # rmani
    /\ up /\ amani \in Gen /\ amani # actId => amani \notin DOMAIN stg /\ amani \notin dmg

\* The handshake: a publish is over when its generation is served.
HandshakeInv ==
    /\ pub.pc = "verify" => amani # pub.g
    /\ pub.pc \notin {"poll", "retry"} => pub.g # committed
    /\ pend # NoGen => pend = amani /\ (pub.pc \in {"wait", "retry"} \/ committed # switched)
    /\ up /\ amani \in Gen /\ amani.e = epoch =>
          amani = srv \/ refused \/ pub.pc \in {"switch", "wait"} \/ committed # switched
    /\ pub.pc \in {"wait", "retry"} /\ pend = NoGen /\ result => srv = amani \/ amani.e # epoch

\* A sweep beside a publish voids the last two parts.
PublishInv ==
    /\ PublishTypes /\ PastInv /\ DownInv /\ WorkerInv /\ RecordInv /\ TransactionInv /\ KnownInv
    /\ ~overlap => KeptInv /\ HandshakeInv

\* The generations, the absent one and the damaged manifest are told apart by
\* their epochs.
LEMMA GenFacts ==
    /\ NoGen \notin Gen /\ Torn \notin Gen /\ NoGen # Torn /\ G0 \in Gen
    /\ NoGen.e = 0 /\ Torn.e = -1 /\ G0.e = 1
    /\ \A g \in Gen : g.e \in 1..MaxEpoch
    /\ \A g \in Gens \cup {Torn} : g.e \in Int
<1>1. \A g \in Gen : g.e \in 1..MaxEpoch
  BY DEF Gen
<1>2. NoGen.e = 0 /\ Torn.e = -1 /\ G0.e = 1
  BY DEF NoGen, Torn, G0
<1>3. NoGen \notin Gen /\ Torn \notin Gen /\ NoGen # Torn
  BY <1>1, <1>2
<1>4. G0 \in Gen
  BY PublishAssumption DEF Gen, G0, PublishAssumption
<1> QED
  BY <1>1, <1>2, <1>3, <1>4, PublishAssumption DEF Gens, PublishAssumption

\* The target a builder computes is a generation of the current epoch.
LEMMA TargetGen ==
    ASSUME epoch \in 1..MaxEpoch, hlc \in 0..MaxHlc, NEW r \in Reprs
    PROVE  Target(r) \in Gen /\ Target(r).e = epoch /\ Target(r).r = r
BY DEF Target, Gen

\* The records of threads at rest.
LEMMA RecordFields ==
    /\ Idle \in Publishers /\ Idle.pc = "poll" /\ Idle.g = NoGen
    /\ NoWork \in Workers /\ NoWork.pc = "idle" /\ NoWork.g = NoGen
    /\ NoSweep \in Sweeps /\ NoSweep.pc = "none"
BY DEF Idle, NoWork, NoSweep, Publishers, PublisherPoints, Workers, Sweeps, Gens

\* The publisher's retry and the sweep due at start, built with EXCEPT.
LEMMA RetryFields ==
    /\ [Idle EXCEPT !.pc = "retry"] \in Publishers /\ [Idle EXCEPT !.pc = "retry"].pc = "retry"
    /\ [Idle EXCEPT !.pc = "retry"].g = NoGen
    /\ [NoSweep EXCEPT !.pc = "due"] \in Sweeps /\ [NoSweep EXCEPT !.pc = "due"].pc = "due"
BY DEF Idle, NoWork, NoSweep, Publishers, PublisherPoints, Workers, Sweeps, Gens

\* A move of the publisher keeps its generation.
LEMMA PublisherUpdate ==
    ASSUME NEW p \in Publishers, NEW c \in PublisherPoints
    PROVE  /\ [p EXCEPT !.pc = c] \in Publishers
           /\ [p EXCEPT !.pc = c].pc = c /\ [p EXCEPT !.pc = c].g = p.g
           /\ p.pc \in PublisherPoints /\ p.g \in Gens
BY DEF Publishers

\* The publisher's record when it picks a build.
LEMMA PublisherStarts ==
    ASSUME NEW h \in Gens
    PROVE  /\ [pc |-> "verify", g |-> h] \in Publishers
           /\ [pc |-> "verify", g |-> h].pc = "verify" /\ [pc |-> "verify", g |-> h].g = h
BY DEF Publishers, PublisherPoints

\* The records of the delta worker.
LEMMA WorkerUpdate ==
    ASSUME NEW w \in Workers, NEW c \in {"idle", "build", "install", "sweep"}, NEW h \in Gens
    PROVE  /\ [w EXCEPT !.pc = c] \in Workers
           /\ [w EXCEPT !.pc = c].pc = c /\ [w EXCEPT !.pc = c].g = w.g
           /\ [pc |-> c, g |-> h] \in Workers /\ [pc |-> c, g |-> h].pc = c /\ [pc |-> c, g |-> h].g = h
           /\ w.pc \in {"idle", "build", "install", "sweep"} /\ w.g \in Gens
BY DEF Workers

\* The record of a sweep that has listed the directories.
LEMMA SweepUpdate ==
    ASSUME NEW k \in SUBSET (Gens \cup {Torn}), NEW s \in SUBSET Gen
    PROVE  /\ [pc |-> "listed", keep |-> k, seen |-> s] \in Sweeps
           /\ [pc |-> "listed", keep |-> k, seen |-> s].pc = "listed"
           /\ [pc |-> "listed", keep |-> k, seen |-> s].keep = k
           /\ [pc |-> "listed", keep |-> k, seen |-> s].seen = s
BY DEF Sweeps

\* The fields of a sweep's record.
LEMMA SweepFields ==
    ASSUME NEW s \in Sweeps
    PROVE  s.pc \in {"none", "due", "listed"} /\ s.keep \subseteq Gens \cup {Torn} /\ s.seen \subseteq Gen
BY DEF Sweeps

\* What Put and Drop do to the domain and the values of a function.
LEMMA PutDrop ==
    ASSUME NEW f, NEW g, NEW v
    PROVE  /\ DOMAIN Put(f, g, v) = DOMAIN f \cup {g} /\ Put(f, g, v)[g] = v
           /\ \A x \in DOMAIN f \ {g} : Put(f, g, v)[x] = f[x]
           /\ DOMAIN Drop(f, g) = DOMAIN f \ {g}
           /\ \A x \in DOMAIN f \ {g} : Drop(f, g)[x] = f[x]
BY DEF Put, Drop

\* A retention sweep removes discarded staging records only, and no checkpoint
\* that is kept or of a ready build.
LEMMA SweptDomains ==
    ASSUME NEW keep
    PROVE  /\ DOMAIN SweptStg \subseteq DOMAIN stg
           /\ \A x \in DOMAIN stg : stg[x] # "discarded" => x \in DOMAIN SweptStg /\ SweptStg[x] = stg[x]
           /\ \A x \in DOMAIN SweptStg : SweptStg[x] = stg[x]
           /\ DOMAIN SweptCkpt(keep) \subseteq DOMAIN ckpt
           /\ \A x \in DOMAIN ckpt : x \in keep \/ (x \in DOMAIN stg /\ stg[x] = "ready") => x \in DOMAIN SweptCkpt(keep)
BY DEF SweptStg, SweptCkpt, LiveStaging, Live

\* The domains of the updates of staging/.
LEMMA StgUpdates ==
    /\ \A g, v : DOMAIN Put(stg, g, v) = DOMAIN stg \cup {g} /\ DOMAIN Drop(stg, g) = DOMAIN stg \ {g}
    /\ \A g, v : DOMAIN [stg EXCEPT ![g] = v] = DOMAIN stg
    /\ DOMAIN SweptStg \subseteq DOMAIN stg
BY PutDrop, SweptDomains

\* The six moves of the publisher inside its transaction.
LEMMA Gotos ==
    ASSUME PublishTypes
    PROVE  /\ [pub EXCEPT !.pc = "park"] \in Publishers /\ [pub EXCEPT !.pc = "park"].pc = "park" /\ [pub EXCEPT !.pc = "park"].g = pub.g
           /\ [pub EXCEPT !.pc = "rename"] \in Publishers /\ [pub EXCEPT !.pc = "rename"].pc = "rename" /\ [pub EXCEPT !.pc = "rename"].g = pub.g
           /\ [pub EXCEPT !.pc = "renamed"] \in Publishers /\ [pub EXCEPT !.pc = "renamed"].pc = "renamed" /\ [pub EXCEPT !.pc = "renamed"].g = pub.g
           /\ [pub EXCEPT !.pc = "opened"] \in Publishers /\ [pub EXCEPT !.pc = "opened"].pc = "opened" /\ [pub EXCEPT !.pc = "opened"].g = pub.g
           /\ [pub EXCEPT !.pc = "switch"] \in Publishers /\ [pub EXCEPT !.pc = "switch"].pc = "switch" /\ [pub EXCEPT !.pc = "switch"].g = pub.g
           /\ [pub EXCEPT !.pc = "wait"] \in Publishers /\ [pub EXCEPT !.pc = "wait"].pc = "wait" /\ [pub EXCEPT !.pc = "wait"].g = pub.g
BY DEF PublishTypes, Publishers, PublisherPoints

\* The two moves of the delta worker inside a rebuild.
LEMMA Works ==
    ASSUME PublishTypes
    PROVE  /\ [dwk EXCEPT !.pc = "install"] \in Workers /\ [dwk EXCEPT !.pc = "install"].pc = "install"
           /\ [dwk EXCEPT !.pc = "install"].g = dwk.g
           /\ [dwk EXCEPT !.pc = "sweep"] \in Workers /\ [dwk EXCEPT !.pc = "sweep"].pc = "sweep"
           /\ [dwk EXCEPT !.pc = "sweep"].g = dwk.g
BY DEF PublishTypes, Workers

\* The facts about types and records that the steps below share.
LEMMA Basics ==
    ASSUME PublishTypes, TransactionInv
    PROVE  /\ NoGen \in Gens /\ Gen \subseteq Gens /\ G0 \in Gen /\ NoGen \notin Gen /\ Torn \notin Gen /\ NoGen # Torn
           /\ (\A h \in Gen : h.e \in 1..MaxEpoch) /\ (\A h \in Gens \cup {Torn} : h.e \in Int)
           /\ NoGen.e = 0 /\ Torn.e = -1 /\ G0.e = 1
           /\ Idle.pc = "poll" /\ Idle.g = NoGen /\ NoWork.pc = "idle" /\ NoWork.g = NoGen /\ NoSweep.pc = "none"
           /\ [Idle EXCEPT !.pc = "retry"].pc = "retry" /\ [Idle EXCEPT !.pc = "retry"].g = NoGen
           /\ [NoSweep EXCEPT !.pc = "due"].pc = "due"
           /\ pub.g \in Gens /\ (pub.pc \in {"poll", "retry"} <=> pub.g = NoGen) /\ pub.pc \in PublisherPoints
           /\ dwk.g \in Gens /\ dwk.pc \in {"idle", "build", "install", "sweep"}
           /\ swp.pc \in {"none", "due", "listed"} /\ swp.keep \subseteq Gens \cup {Torn} /\ swp.seen \subseteq Gen
<1>1. pub.g \in Gens /\ dwk.g \in Gens /\ dwk.pc \in {"idle", "build", "install", "sweep"} /\ pub.pc \in PublisherPoints
  BY DEF PublishTypes, Publishers, Workers
<1>2. swp.pc \in {"none", "due", "listed"} /\ swp.keep \subseteq Gens \cup {Torn} /\ swp.seen \subseteq Gen
  BY SweepFields DEF PublishTypes
<1> QED BY <1>1, <1>2, GenFacts, RecordFields, RetryFields DEF Gens, TransactionInv

\* Marking stale records discards them and removes none.
LEMMA MarkedStg ==
    ASSUME NEW keep
    PROVE  DOMAIN Marked(keep) = DOMAIN stg
BY DEF Marked

\* A staging cycle runs outside the publish transaction and touches its own
\* records only: a new directory is of the current epoch and of no container,
\* and the build it offers is one of its own that is not the active one.
LEMMA StagingFrame ==
    ASSUME Staging, PublishTypes
    PROVE  /\ UNCHANGED <<epoch, hlc, gens, dmg, ckpt, amani, rmani, up, cfg, swp, deltaVars, act, actId, pubVars, overlap>>
           /\ up /\ pub.pc \in {"poll", "retry"}
           /\ \A g \in DOMAIN stg' : g \in DOMAIN stg \/ (g \in Gen /\ g.e = epoch /\ g \notin gens)
           /\ ready' = ready \/ ready' = NoGen \/ (ready' \in DOMAIN stg /\ ready'.e = epoch /\ ready' # actId)
<1> USE DEF StagingTurn, Locked, deltaVars, pubVars, factVars, procVars, tally
<1> DEFINE Dom == \A g \in DOMAIN stg' : g \in DOMAIN stg \/ (g \in Gen /\ g.e = epoch /\ g \notin gens)
           Rdy == ready' = ready \/ ready' = NoGen \/ (ready' \in DOMAIN stg /\ ready'.e = epoch /\ ready' # actId)
           Frm == /\ UNCHANGED <<epoch, hlc, gens, dmg, ckpt, amani, rmani, up, cfg, swp, deltaVars, act, actId, pubVars, overlap>>
                  /\ up /\ pub.pc \in {"poll", "retry"}
<1>1. CASE StagingIdle
  BY <1>1, MarkedStg DEF StagingIdle
<1>2. CASE StagingObsolete
  <2>1. PICK g : stg' = [Marked({g}) EXCEPT ![g] = "discarded"]
    BY <1>2 DEF StagingObsolete
  <2>2. DOMAIN stg' = DOMAIN stg
    BY <2>1, MarkedStg
  <2> QED BY <1>2, <2>2 DEF StagingObsolete
<1>3. CASE StagingStart
  <2>1. Target(cfg) \in Gen /\ Target(cfg).e = epoch
    BY TargetGen DEF PublishTypes
  <2>2. stg' = Marked({}) \/ (Target(cfg) \notin gens /\ stg' = Put(Marked({}), Target(cfg), "running"))
    BY <1>3 DEF StagingStart
  <2>3. DOMAIN Put(Marked({}), Target(cfg), "running") = DOMAIN stg \cup {Target(cfg)}
    BY MarkedStg DEF Put
  <2>4. Dom
    BY <2>1, <2>2, <2>3, MarkedStg
  <2> QED BY <1>3, <2>4 DEF StagingStart
<1>4. CASE StagingEmbed
  <2>1. PICK g, st : stg' = [Marked({g}) EXCEPT ![g] = st]
    BY <1>4 DEF StagingEmbed
  <2>2. DOMAIN stg' = DOMAIN stg
    BY <2>1, MarkedStg
  <2> QED BY <1>4, <2>2 DEF StagingEmbed
<1>5. CASE StagingFinalize
  <2>1. PICK g : g \in Own /\ ~Obsolete(g) /\ stg' = [Marked({g}) EXCEPT ![g] = "ready"] /\ ready' = g
    BY <1>5 DEF StagingFinalize
  <2>2. DOMAIN stg' = DOMAIN stg
    BY <2>1, MarkedStg
  <2>3. g \in DOMAIN stg /\ g.e = epoch /\ g # actId
    BY <2>1 DEF Own, LiveStaging, Obsolete
  <2> QED BY <1>5, <2>1, <2>2, <2>3 DEF StagingFinalize
<1>6. CASE StagingReverify
  <2>1. PICK g \in ReadyPending : /\ ~Obsolete(g)
                                  /\ stg' = Marked({g}) \/ stg' = [Marked({g}) EXCEPT ![g] = Restarted(g)]
                                  /\ ready' = g \/ ready' = NoGen
    BY <1>6 DEF StagingReverify
  <2>2. DOMAIN stg' = DOMAIN stg
    BY <2>1, MarkedStg
  <2>3. g \in DOMAIN stg /\ g.e = epoch /\ g # actId
    BY <2>1 DEF ReadyPending, Own, LiveStaging, Obsolete
  <2> QED BY <1>6, <2>1, <2>2, <2>3 DEF StagingReverify
<1>7. CASE StagingPark
  <2>1. PICK g : stg' = Marked({g})
    BY <1>7 DEF StagingPark
  <2> QED BY <1>7, <2>1, MarkedStg DEF StagingPark
<1> QED BY <1>1, <1>2, <1>3, <1>4, <1>5, <1>6, <1>7 DEF Staging

\* The domains of the publisher's updates of staging/.
LEMMA PubUpdates ==
    /\ DOMAIN Put(stg, pub.g, "ready") = DOMAIN stg \cup {pub.g} /\ DOMAIN Drop(stg, pub.g) = DOMAIN stg \ {pub.g}
    /\ DOMAIN [stg EXCEPT ![pub.g] = "parked"] = DOMAIN stg /\ DOMAIN [stg EXCEPT ![pub.g] = "blocked"] = DOMAIN stg
    /\ DOMAIN [stg EXCEPT ![pub.g] = "discarded"] = DOMAIN stg
BY DEF Put, Drop

\* What a start that builds the first generation does.
LEMMA StartBuildEffect ==
    ASSUME PublishTypes, StartBuild
    PROVE  /\ Target(StartRepr) \in Gen
           /\ Target(StartRepr).e = epoch /\ Target(StartRepr) \notin gens /\ Target(StartRepr) \notin DOMAIN stg
           /\ gens' \subseteq gens \cup {Target(StartRepr)} /\ gens \subseteq gens' /\ dmg' \subseteq dmg
           /\ DOMAIN stg' \subseteq DOMAIN stg \cup {Target(StartRepr)} /\ gens' \cap DOMAIN stg' \subseteq gens \cap DOMAIN stg
           /\ (srv' = Target(StartRepr) \/ srv' = NoGen) /\ decl' = Declared
           /\ amani = NoGen \/ (amani \in Gen /\ amani.e # epoch)
           /\ ~up /\ up' /\ swp' = [NoSweep EXCEPT !.pc = "due"] /\ ~refused' /\ actId' = Declared
           /\ UNCHANGED <<factVars, ckpt, amani, rmani, pend, result, dwk, ready, verified, cur, pubVars, tally>>
<1> DEFINE t == Target(StartRepr)
<1>1. StartRepr \in Reprs
  <2>1. \A h \in Gen : h.r \in Reprs
    BY DEF Gen
  <2> QED BY <2>1, GenFacts DEF StartRepr, Declared
<1>2. t \in Gen /\ t.e = epoch
  BY <1>1, TargetGen DEF PublishTypes
<1>3. DOMAIN Put(stg, t, "oneshot") = DOMAIN stg \cup {t}
  BY DEF Put
<1>4. /\ t \notin gens /\ t \notin DOMAIN stg /\ decl' = Declared /\ UNCHANGED <<ckpt, amani, rmani>>
      /\ \/ /\ StartWith(t, FALSE, FALSE) /\ gens' = gens \cup {t} /\ dmg' = dmg \ {t} /\ UNCHANGED stg
         \/ /\ StartWith(NoGen, FALSE, TRUE) /\ stg' = Put(stg, t, "oneshot") /\ UNCHANGED <<gens, dmg>>
  BY DEF StartBuild, TargetFree
<1> HIDE DEF t
<1>5. /\ srv' = t \/ srv' = NoGen
      /\ ~up /\ up' /\ swp' = [NoSweep EXCEPT !.pc = "due"] /\ ~refused' /\ actId' = Declared
      /\ UNCHANGED <<factVars, ckpt, amani, rmani, pend, result, dwk, ready, verified, cur, pubVars, tally>>
  BY <1>4 DEF StartWith, Declared
<1>6. amani = NoGen \/ (amani \in Gen /\ amani.e # epoch)
  BY DEF StartBuild, BuildsAtStart
<1>7. /\ t \in Gen /\ t.e = epoch /\ t \notin gens /\ t \notin DOMAIN stg
      /\ gens' \subseteq gens \cup {t} /\ gens \subseteq gens' /\ dmg' \subseteq dmg
      /\ DOMAIN stg' \subseteq DOMAIN stg \cup {t} /\ gens' \cap DOMAIN stg' \subseteq gens \cap DOMAIN stg
      /\ decl' = Declared
  BY <1>2, <1>3, <1>4
<1> QED BY <1>5, <1>6, <1>7 DEF t

\* What the first half of an epoch rebuild does.
LEMMA RebuildBeginEffect ==
    ASSUME PublishTypes, RebuildBegin
    PROVE  /\ Target(prov) \in Gen
           /\ Target(prov).e = epoch
           /\ DOMAIN stg' \subseteq DOMAIN stg \cup {Target(prov)} /\ (Target(prov) \in gens \/ Target(prov) \in DOMAIN stg => UNCHANGED stg)
           /\ \A x \in DOMAIN stg : x \in DOMAIN stg' /\ stg'[x] = stg[x]
           /\ \/ dwk' = NoWork
              \/ dwk'.pc = "install" /\ dwk'.g = decl /\ decl.e = epoch /\ decl \in gens
              \/ dwk'.pc = "build" /\ dwk'.g = Target(prov)
           /\ DOMAIN ckpt' = DOMAIN ckpt \ {srv} \/ (srv = NoGen /\ ckpt' = ckpt)
           /\ srv' = NoGen /\ pend' = NoGen
           /\ up /\ dwk.pc = "idle" /\ ~refused /\ (srv = NoGen \/ srv.e # epoch)
           /\ result' = (IF pend = NoGen THEN result ELSE FALSE)
           /\ UNCHANGED <<factVars, gens, dmg, amani, rmani, procVars, prov, decl, refused, stageVars, pubVars, tally>>
<1> DEFINE t == Target(prov)
<1>2. t \in Gen /\ t.e = epoch
  BY TargetGen DEF PublishTypes
<1>3. DOMAIN Put(stg, t, "oneshot") = DOMAIN stg \cup {t} /\ (\A x \in DOMAIN stg \ {t} : Put(stg, t, "oneshot")[x] = stg[x])
  BY DEF Put
<1>4. DOMAIN Drop(ckpt, srv) = DOMAIN ckpt \ {srv}
  BY DEF Drop
<1>5. /\ UNCHANGED stg \/ (t \notin gens /\ t \notin DOMAIN stg /\ stg' = Put(stg, t, "oneshot"))
      /\ \/ dwk' = NoWork
         \/ dwk' = [pc |-> "install", g |-> decl] /\ decl.e = epoch /\ decl \in gens
         \/ dwk' = [pc |-> "build", g |-> t]
  BY DEF RebuildBegin, TargetFree, Healthy
<1> HIDE DEF t
<1>6. \/ dwk' = NoWork
      \/ dwk'.pc = "install" /\ dwk'.g = decl /\ decl.e = epoch /\ decl \in gens
      \/ dwk'.pc = "build" /\ dwk'.g = t
  BY <1>5
<1>7. /\ DOMAIN stg' \subseteq DOMAIN stg \cup {t} /\ (t \in gens \/ t \in DOMAIN stg => UNCHANGED stg)
      /\ \A x \in DOMAIN stg : x \in DOMAIN stg' /\ stg'[x] = stg[x]
  BY <1>3, <1>5
<1>8. DOMAIN ckpt' = DOMAIN ckpt \ {srv} \/ (srv = NoGen /\ ckpt' = ckpt)
  BY <1>4 DEF RebuildBegin
<1>9. /\ srv' = NoGen /\ pend' = NoGen
      /\ up /\ dwk.pc = "idle" /\ ~refused /\ (srv = NoGen \/ srv.e # epoch)
      /\ result' = (IF pend = NoGen THEN result ELSE FALSE)
      /\ UNCHANGED <<factVars, gens, dmg, amani, rmani, procVars, prov, decl, refused, stageVars, pubVars, tally>>
  BY DEF RebuildBegin, DeltaFree
<1>10. /\ DOMAIN stg' \subseteq DOMAIN stg \cup {t} /\ (t \in gens \/ t \in DOMAIN stg => UNCHANGED stg)
       /\ \A x \in DOMAIN stg : x \in DOMAIN stg' /\ stg'[x] = stg[x]
       /\ \/ dwk' = NoWork
          \/ dwk'.pc = "install" /\ dwk'.g = decl /\ decl.e = epoch /\ decl \in gens
          \/ dwk'.pc = "build" /\ dwk'.g = t
       /\ t \in Gen /\ t.e = epoch
  BY <1>2, <1>6, <1>7
<1> QED BY <1>8, <1>9, <1>10 DEF t

\* What the rename at the end of the one-shot build does: the container
\* appears, or the attempt is given up.
LEMMA RebuildRenameEffect ==
    ASSUME PublishTypes, RebuildRename
    PROVE  /\ \/ /\ dwk.g \in Gen /\ dwk.g.e = epoch /\ dwk.g \in DOMAIN stg /\ stg[dwk.g] = "oneshot"
                 /\ gens' = gens \cup {dwk.g} /\ dmg' = dmg \ {dwk.g} /\ DOMAIN stg' = DOMAIN stg \ {dwk.g}
                 /\ dwk'.pc = "install" /\ dwk'.g = dwk.g
              \/ gens' = gens /\ dmg' = dmg /\ DOMAIN stg' = DOMAIN stg /\ dwk' = NoWork
           /\ \A x \in DOMAIN stg : stg[x] # "oneshot" => x \in DOMAIN stg' /\ stg'[x] = stg[x]
           /\ up /\ dwk.pc = "build"
           /\ UNCHANGED <<factVars, ckpt, amani, rmani, procVars, srv, prov, decl, refused, dblk, pend, result,
                          stageVars, pubVars, tally>>
<1>1. dwk.g = Target(prov) => dwk.g \in Gen /\ dwk.g.e = epoch
  BY TargetGen DEF PublishTypes
<1>2. /\ DOMAIN Drop(stg, dwk.g) = DOMAIN stg \ {dwk.g} /\ (\A x \in DOMAIN stg \ {dwk.g} : Drop(stg, dwk.g)[x] = stg[x])
      /\ DOMAIN [stg EXCEPT ![dwk.g] = "parked"] = DOMAIN stg
      /\ \A x \in DOMAIN stg \ {dwk.g} : [stg EXCEPT ![dwk.g] = "parked"][x] = stg[x]
  BY DEF Drop
<1>3. /\ up /\ dwk.pc = "build"
      /\ UNCHANGED <<factVars, ckpt, amani, rmani, procVars, srv, prov, decl, refused, dblk, pend, result,
                     stageVars, pubVars, tally>>
  BY DEF RebuildRename
<1>4. CASE StatusOf(dwk.g) = "oneshot" /\ dwk.g = Target(prov)
  <2>1. gens' = gens \cup {dwk.g} /\ dmg' = dmg \ {dwk.g} /\ stg' = Drop(stg, dwk.g) /\ dwk' = [dwk EXCEPT !.pc = "install"]
    BY <1>4 DEF RebuildRename
  <2>2. dwk.g \in DOMAIN stg /\ stg[dwk.g] = "oneshot"
    BY <1>4 DEF StatusOf
  <2> QED BY <1>1, <1>2, <1>3, <1>4, <2>1, <2>2, Works
<1>5. CASE ~(StatusOf(dwk.g) = "oneshot" /\ dwk.g = Target(prov))
  <2>1. gens' = gens /\ dmg' = dmg /\ dwk' = NoWork
        /\ stg' = (IF StatusOf(dwk.g) = "oneshot" THEN [stg EXCEPT ![dwk.g] = "parked"] ELSE stg)
    BY <1>5 DEF RebuildRename
  <2>2. StatusOf(dwk.g) = "oneshot" => dwk.g \in DOMAIN stg /\ stg[dwk.g] = "oneshot"
    BY DEF StatusOf
  <2> QED BY <1>2, <1>3, <2>1, <2>2
<1> QED BY <1>4, <1>5

\* What absorbing the late facts does: the build is blocked, or its checkpoint
\* is written.
LEMMA PublishAbsorbEffect ==
    ASSUME PublishTypes, PublishAbsorb
    PROVE  /\ up /\ pub.pc = "verify" /\ amani # pub.g /\ pub.g \in DOMAIN stg /\ stg[pub.g] = "ready"
           /\ DOMAIN stg' = DOMAIN stg /\ (\A x \in DOMAIN stg \ {pub.g} : stg'[x] = stg[x])
           /\ \/ pub' = Idle /\ ready' = NoGen /\ ckpt' = ckpt
              \/ /\ stg' = stg /\ pub'.pc = "park" /\ pub'.g = pub.g /\ ready' = ready
                 /\ DOMAIN ckpt' = DOMAIN ckpt \cup {pub.g}
           /\ UNCHANGED <<factVars, gens, dmg, amani, rmani, procVars, deltaVars, act, actId, committed, switched, tally>>
<1>1. DOMAIN Put(ckpt, pub.g, hlc) = DOMAIN ckpt \cup {pub.g}
  BY DEF Put
<1>2. up /\ pub.pc = "verify" /\ amani # pub.g /\ pub.g \in DOMAIN stg /\ stg[pub.g] = "ready"
  BY DEF PublishAbsorb, At, Publishable, StatusOf
<1>3. UNCHANGED <<factVars, gens, dmg, amani, rmani, procVars, deltaVars, act, actId, committed, switched, tally>>
  BY DEF PublishAbsorb
<1>4. \/ stg' = [stg EXCEPT ![pub.g] = "blocked"] /\ pub' = Idle /\ ready' = NoGen /\ ckpt' = ckpt
      \/ stg' = stg /\ pub' = [pub EXCEPT !.pc = "park"] /\ ready' = ready /\ ckpt' = Put(ckpt, pub.g, hlc)
  BY DEF PublishAbsorb, Done, Goto
<1> QED BY ZenonT(60), <1>1, <1>2, <1>3, <1>4, Gotos

\* What registering the rollback does: the served generation becomes the
\* rollback or nothing changes, and the container is opened or moved back.
LEMMA PublishRegisterEffect ==
    ASSUME PublishTypes, PublishRegister
    PROVE  /\ up /\ pub.pc = "renamed"
           /\ rmani' = rmani \/ (rmani' = srv /\ srv # NoGen /\ srv # pub.g /\ srv \in gens)
           /\ \/ /\ pub.g \in gens /\ pub.g \notin dmg /\ pub'.pc = "opened" /\ pub'.g = pub.g
                 /\ UNCHANGED <<gens, stg>>
              \/ /\ pub.g \notin gens \/ pub.g \in dmg
                 /\ pub' = Idle /\ gens' = gens \ {pub.g}
                 /\ DOMAIN stg' = DOMAIN stg \cup ({pub.g} \cap gens)
           /\ UNCHANGED <<factVars, dmg, ckpt, amani, procVars, deltaVars, stageVars, committed, switched, tally>>
<1>1. /\ up /\ pub.pc = "renamed"
      /\ rmani' = rmani \/ (rmani' = srv /\ srv # NoGen /\ srv # pub.g /\ srv \in gens)
      /\ UNCHANGED <<factVars, dmg, ckpt, amani, procVars, deltaVars, stageVars, committed, switched, tally>>
  BY DEF PublishRegister, At, Healthy
<1>2. \/ Healthy(pub.g) /\ pub' = [pub EXCEPT !.pc = "opened"] /\ UNCHANGED <<gens, stg>>
      \/ ~Healthy(pub.g) /\ pub' = Idle /\ gens' = gens \ {pub.g}
         /\ stg' = (IF pub.g \in gens THEN Put(stg, pub.g, "ready") ELSE stg)
  BY DEF PublishRegister, RolledBack, Goto, Done
<1> QED BY ZenonT(60), <1>1, <1>2, Gotos, PubUpdates DEF Healthy

\* The values of the publisher's updates of staging/.
LEMMA PubValues ==
    /\ \A x \in DOMAIN stg \ {pub.g} :
          Put(stg, pub.g, "ready")[x] = stg[x] /\ Drop(stg, pub.g)[x] = stg[x]
    /\ pub.g \in DOMAIN stg => [stg EXCEPT ![pub.g] = "parked"][pub.g] = "parked"
BY DEF Put, Drop

\* A sweep keeps the staging record of a publish that is about to move it.
LEMMA SweptKeeps ==
    ASSUME PublishTypes
    PROVE  /\ pub.g \in DOMAIN stg /\ stg[pub.g] = "ready" => pub.g \in DOMAIN SweptStg /\ SweptStg[pub.g] = "ready"
           /\ pub.g \in DOMAIN stg /\ stg[pub.g] = "parked" => pub.g \in DOMAIN SweptStg /\ SweptStg[pub.g] = "parked"
           /\ DOMAIN SweptStg \subseteq DOMAIN stg
BY SweptDomains

\* A sweep keeps the checkpoints named, and that of a ready build.
LEMMA SweptCkptKeeps ==
    ASSUME PublishTypes, NEW keep
    PROVE  /\ \A x \in keep : x \in DOMAIN ckpt => x \in DOMAIN SweptCkpt(keep)
           /\ pub.g \in DOMAIN stg /\ stg[pub.g] = "ready" /\ pub.g \in DOMAIN ckpt => pub.g \in DOMAIN SweptCkpt(keep)
BY SweptDomains

\* Catching up writes the checkpoint of the served generation.
LEMMA CkptPut ==
    DOMAIN Put(ckpt, srv, hlc) = DOMAIN ckpt \cup {srv}
BY DEF Put

\* An overlap is never forgotten.
LEMMA OverlapStep ==
    ASSUME Next, ~overlap'
    PROVE  ~overlap
<1> USE DEF factVars, diskVars, deltaVars, stageVars, pubVars, procVars, tally
<1>1. CASE RecordFact
  BY <1>1 DEF RecordFact
<1>2. CASE ReplaceFacts
  BY <1>2 DEF ReplaceFacts
<1>3. CASE Damage
  BY <1>3 DEF Damage
<1>4. CASE Crash
  BY <1>4 DEF Crash
<1>5. CASE StartServe
  BY <1>5 DEF StartServe, StartWith
<1>6. CASE StartBuild
  BY <1>6 DEF StartBuild, StartWith
<1>7. CASE StartRecover
  BY <1>7 DEF StartRecover, StartWith
<1>8. CASE StartRefuse
  BY <1>8 DEF StartRefuse, StartWith
<1>9. CASE SweepRead
  BY <1>9 DEF SweepRead
<1>10. CASE SweepRemove
  BY <1>10 DEF SweepRemove
<1>11. CASE SwitchPointer
  BY <1>11 DEF SwitchPointer
<1>12. CASE RebuildBegin
  BY <1>12 DEF RebuildBegin
<1>13. CASE RebuildRename
  BY <1>13 DEF RebuildRename
<1>14. CASE RebuildInstall
  BY <1>14 DEF RebuildInstall
<1>15. CASE RebuildSweep
  BY <1>15 DEF RebuildSweep
<1>16. CASE CatchUp
  BY <1>16 DEF CatchUp
<1>17. CASE Staging
  BY <1>17 DEF Staging, StagingIdle, StagingObsolete, StagingStart, StagingEmbed, StagingFinalize,
     StagingReverify, StagingPark
<1>18. CASE PublishRetry
  BY <1>18 DEF PublishRetry
<1>19. CASE PublishRetried
  BY <1>19 DEF PublishRetried
<1>20. CASE PublishPick
  BY <1>20 DEF PublishPick
<1>21. CASE PublishAlready
  BY <1>21 DEF PublishAlready
<1>22. CASE PublishReject
  BY <1>22 DEF PublishReject
<1>23. CASE PublishAbsorb
  BY <1>23 DEF PublishAbsorb
<1>24. CASE PublishPark
  BY <1>24 DEF PublishPark
<1>25. CASE PublishRename
  BY <1>25 DEF PublishRename
<1>26. CASE PublishRegister
  BY <1>26 DEF PublishRegister
<1>27. CASE PublishCommit
  BY <1>27 DEF PublishCommit
<1>28. CASE PublishFault
  BY <1>28 DEF PublishFault
<1>29. CASE PublishSwitch
  BY <1>29 DEF PublishSwitch
<1>30. CASE PublishDone
  BY <1>30 DEF PublishDone
<1>31. CASE PublishUnswitched
  BY <1>31 DEF PublishUnswitched
<1> QED
  BY <1>1, <1>2, <1>3, <1>4, <1>5, <1>6, <1>7, <1>8, <1>9, <1>10, <1>11, <1>12, <1>13, <1>14, <1>15, <1>16,
     <1>17, <1>18, <1>19, <1>20, <1>21, <1>22, <1>23, <1>24, <1>25, <1>26, <1>27, <1>28, <1>29, <1>30, <1>31
     DEF Next, Start, Delta, Publish

\* The types are kept.
LEMMA TypesStep == ASSUME PublishTypes, TransactionInv, Next PROVE PublishTypes'
<1>0. /\ PublishTypes /\ PublishAssumption /\ NoGen \in Gens /\ Gen \subseteq Gens /\ G0 \in Gen
      /\ NoGen \notin Gen /\ Torn \notin Gen /\ NoGen # Torn /\ Idle \in Publishers /\ NoWork \in Workers /\ NoSweep \in Sweeps
      /\ [Idle EXCEPT !.pc = "retry"] \in Publishers /\ [NoSweep EXCEPT !.pc = "due"] \in Sweeps
      /\ (\A h \in Gen : h.e \in 1..MaxEpoch /\ h.r \in Reprs) /\ pub.g \in Gens /\ (pub.pc \in {"poll", "retry"} <=> pub.g = NoGen) /\ dwk.g \in Gens
  <2>1. \A h \in Gen : h.r \in Reprs
    BY DEF Gen
  <2>2. pub.g \in Gens /\ dwk.g \in Gens
    BY DEF PublishTypes, Publishers, Workers
  <2>3. PublishTypes /\ PublishAssumption /\ (pub.pc \in {"poll", "retry"} <=> pub.g = NoGen) /\ (\A h \in Gen : h.e \in 1..MaxEpoch)
    BY PublishAssumption, GenFacts DEF TransactionInv
  <2> QED BY <2>1, <2>2, <2>3, GenFacts, RecordFields, RetryFields DEF Gens
<1> USE DEF PublishTypes, PublishAssumption, factVars, diskVars, deltaVars, stageVars, pubVars, procVars,
   tally
<1>1. CASE RecordFact
  BY <1>0, <1>1 DEF RecordFact, Event
<1>2. CASE ReplaceFacts
  BY <1>0, <1>2 DEF ReplaceFacts, Event
<1>3. CASE Damage
  BY <1>0, <1>3 DEF Damage, Event
<1>4. CASE Crash
  BY <1>0, <1>4, StgUpdates DEF Crash, Event
<1>5. CASE StartServe
  BY <1>0, <1>5 DEF StartServe, Healthy, Declared, StartWith, StartRepr
<1>6. CASE StartBuild
  <2>1. StartRepr \in Reprs
    BY <1>0 DEF StartRepr, Declared
  <2>2. Target(StartRepr) \in Gen
    BY <1>0, <2>1, TargetGen
  <2>3. gens' \subseteq Gen /\ DOMAIN stg' \subseteq Gen
    <3>1. DOMAIN Put(stg, Target(StartRepr), "oneshot") \subseteq Gen
      BY <1>0, <2>2 DEF Put
    <3> QED BY <1>0, <1>6, <2>2, <3>1 DEF StartBuild
  <2>4. srv' \in Gens /\ decl' \in Gen /\ prov' \in Reprs /\ cfg' \in Reprs /\ swp' \in Sweeps /\ actId' \in Gen
        /\ up' \in BOOLEAN /\ refused' \in BOOLEAN
    BY <1>0, <1>6, <2>1, <2>2 DEF StartBuild, StartRepr, BuildsAtStart, TargetFree, Declared, StartWith,
       Healthy
  <2> QED BY <1>0, <1>6, <2>3, <2>4 DEF StartBuild, StartRepr, BuildsAtStart, TargetFree, Declared,
     StartWith, Healthy
<1>7. CASE StartRecover
  BY <1>0, <1>7, StgUpdates DEF StartRecover, Broken, Recoverable, StartWith, Healthy, Declared, StartRepr
<1>8. CASE StartRefuse
  BY <1>0, <1>8 DEF StartRefuse, Broken, Recoverable, Declared, Healthy, StartWith, StartRepr
<1>9. CASE SweepRead
  BY <1>0, <1>9, SweepUpdate DEF SweepRead
<1>10. CASE SweepRemove
  BY <1>0, <1>10, StgUpdates DEF SweepRemove
<1>11. CASE SwitchPointer
  BY <1>0, <1>11 DEF SwitchPointer, DeltaFree, Switchable, Healthy
<1>12. CASE RebuildBegin
  <2>1. Target(prov) \in Gen
    BY <1>0, TargetGen
  <2>2. DOMAIN stg' \subseteq Gen
    <3>1. DOMAIN Put(stg, Target(prov), "oneshot") \subseteq Gen
      BY <1>0, <2>1 DEF Put
    <3> QED BY <1>0, <1>12, <3>1 DEF RebuildBegin
  <2>3. dwk' \in Workers
    <3>1. [pc |-> "install", g |-> decl] \in Workers /\ [pc |-> "build", g |-> Target(prov)] \in Workers
      BY <1>0, <2>1 DEF Workers
    <3> QED BY <1>0, <1>12, <3>1 DEF RebuildBegin
  <2> QED BY <1>0, <1>12, <2>2, <2>3 DEF RebuildBegin, DeltaFree, Healthy, TargetFree
<1>13. CASE RebuildRename
  <2>1. dwk.g = Target(prov) => dwk.g \in Gen
    BY <1>0, TargetGen
  <2>2. DOMAIN stg' \subseteq Gen
    BY <1>0, <1>13, StgUpdates DEF RebuildRename, StatusOf
  <2>3. dwk' \in Workers
    BY <1>0, <1>13, Works DEF RebuildRename
  <2> QED BY <1>0, <1>13, <2>1, <2>2, <2>3 DEF RebuildRename, StatusOf
<1>14. CASE RebuildInstall
  BY <1>0, <1>14, WorkerUpdate DEF RebuildInstall
<1>15. CASE RebuildSweep
  BY <1>0, <1>15, StgUpdates DEF RebuildSweep, Publishing
<1>16. CASE CatchUp
  BY <1>0, <1>16 DEF CatchUp, DeltaFree
<1>17. CASE Staging
  BY <1>0, <1>17, StagingFrame
<1>18. CASE PublishRetry
  BY <1>0, <1>18 DEF PublishRetry, At
<1>19. CASE PublishRetried
  BY <1>0, <1>19 DEF PublishRetried, At, Done
<1>20. CASE PublishPick
  BY <1>0, <1>20, PublisherStarts DEF PublishPick, At
<1>21. CASE PublishAlready
  <2>1. pub.g \in Gen
    BY <1>0, <1>21 DEF Gens, PublishAlready, At
  <2>2. DOMAIN Put(stg, pub.g, "ready") \subseteq Gen /\ DOMAIN Drop(stg, pub.g) \subseteq Gen
    BY <1>0, <2>1 DEF Put, Drop
  <2>3. DOMAIN stg' \subseteq Gen /\ gens' \subseteq Gen
    BY <1>0, <1>21, <2>1, <2>2 DEF PublishAlready, At, Goto
  <2>4. pub' \in Publishers
    BY <1>0, <1>21, Gotos DEF PublishAlready, At, Goto
  <2> QED BY <1>0, <1>21, <2>1, <2>3, <2>4 DEF PublishAlready, At, Goto
<1>22. CASE PublishReject
  BY <1>0, <1>22 DEF PublishReject, At, Publishable, StatusOf, Done
<1>23. CASE PublishAbsorb
  BY <1>0, <1>23, Gotos, StgUpdates DEF PublishAbsorb, At, Publishable, Done, Goto, StatusOf
<1>24. CASE PublishPark
  BY <1>0, <1>24, Gotos, StgUpdates DEF PublishPark, At, Goto
<1>25. CASE PublishRename
  <2>1. pub.g \in Gen
    BY <1>0, <1>25 DEF Gens, PublishRename, At
  <2>2. DOMAIN Put(stg, pub.g, "ready") \subseteq Gen /\ DOMAIN Drop(stg, pub.g) \subseteq Gen
    BY <1>0, <2>1 DEF Put, Drop
  <2>3. DOMAIN stg' \subseteq Gen /\ gens' \subseteq Gen
    BY <1>0, <1>25, <2>1, <2>2 DEF PublishRename, At, Goto
  <2>4. pub' \in Publishers
    BY <1>0, <1>25, Gotos DEF PublishRename, At, Goto
  <2> QED BY <1>0, <1>25, <2>1, <2>3, <2>4 DEF PublishRename, At, Goto
<1>26. CASE PublishRegister
  <2>1. pub.g \in Gen
    BY <1>0, <1>26 DEF Gens, PublishRegister, At
  <2>2. DOMAIN Put(stg, pub.g, "ready") \subseteq Gen /\ DOMAIN Drop(stg, pub.g) \subseteq Gen
    BY <1>0, <2>1 DEF Put, Drop
  <2>3. DOMAIN stg' \subseteq Gen /\ gens' \subseteq Gen
    BY <1>0, <1>26, <2>1, <2>2 DEF PublishRegister, At, Healthy, Goto, RolledBack, Done
  <2>4. pub' \in Publishers
    BY <1>0, <1>26, Gotos DEF PublishRegister, At, Healthy, Goto, RolledBack, Done
  <2> QED BY <1>0, <1>26, <2>1, <2>3, <2>4 DEF PublishRegister, At, Healthy, Goto, RolledBack, Done
<1>27. CASE PublishCommit
  BY <1>0, <1>27, Gotos DEF PublishCommit, At, Goto
<1>28. CASE PublishFault
  <2>1. pub.g \in Gen
    BY <1>0, <1>28 DEF Gens, PublishFault, At
  <2>2. DOMAIN Put(stg, pub.g, "ready") \subseteq Gen /\ DOMAIN Drop(stg, pub.g) \subseteq Gen
    BY <1>0, <2>1 DEF Put, Drop
  <2>3. DOMAIN stg' \subseteq Gen /\ gens' \subseteq Gen
    BY <1>0, <1>28, <2>1, <2>2 DEF PublishFault, At, Event, RolledBack, Done
  <2>4. pub' \in Publishers
    BY <1>0, <1>28, Gotos DEF PublishFault, At, Event, RolledBack, Done
  <2> QED BY <1>0, <1>28, <2>1, <2>3, <2>4 DEF PublishFault, At, Event, RolledBack, Done
<1>29. CASE PublishSwitch
  BY <1>0, <1>29, Gotos DEF PublishSwitch, At, Goto
<1>30. CASE PublishDone
  BY <1>0, <1>30, StgUpdates DEF PublishDone, At, Done
<1>31. CASE PublishUnswitched
  BY <1>0, <1>31 DEF PublishUnswitched, At, Done
<1> QED
  BY <1>1, <1>2, <1>3, <1>4, <1>5, <1>6, <1>7, <1>8, <1>9, <1>10, <1>11, <1>12, <1>13, <1>14, <1>15, <1>16,
     <1>17, <1>18, <1>19, <1>20, <1>21, <1>22, <1>23, <1>24, <1>25, <1>26, <1>27, <1>28, <1>29, <1>30, <1>31
     DEF Next, Start, Delta, Publish

\* Nothing of an epoch to come appears.
LEMMA PastStep == ASSUME PublishTypes, TransactionInv, PastInv, Next PROVE PastInv'
<1>0. PublishTypes /\ TransactionInv /\ PastInv
  OBVIOUS
<1> USE DEF PublishTypes, PastInv, factVars, diskVars, deltaVars, stageVars, pubVars, procVars, tally
<1>1. CASE RecordFact
  BY <1>0, <1>1, Basics DEF RecordFact, Event
<1>2. CASE ReplaceFacts
  BY <1>0, <1>2, Basics DEF ReplaceFacts, Event
<1>3. CASE Damage
  BY <1>0, <1>3, Basics DEF Damage, Event
<1>4. CASE Crash
  BY <1>0, <1>4, Basics, StgUpdates DEF Crash, Event
<1>5. CASE StartServe
  BY <1>0, <1>5, Basics DEF StartServe, Healthy, Declared, StartWith, StartRepr
<1>6. CASE StartBuild
  <2>1. \A g \in gens' \cup DOMAIN stg' : g \in gens \cup DOMAIN stg \/ g.e = epoch
    BY <1>6, StartBuildEffect
  <2>2. UNCHANGED <<epoch, amani, rmani, ready, pub, dwk>>
    BY <1>6, StartBuildEffect
  <2> QED BY <1>0, <2>1, <2>2, Basics
<1>7. CASE StartRecover
  BY <1>0, <1>7, Basics, StgUpdates DEF StartRecover, Broken, Recoverable, StartWith, Healthy, Declared,
     StartRepr
<1>8. CASE StartRefuse
  BY <1>0, <1>8, Basics DEF StartRefuse, Broken, Recoverable, Declared, Healthy, StartWith, StartRepr
<1>9. CASE SweepRead
  BY <1>0, <1>9, Basics DEF SweepRead
<1>10. CASE SweepRemove
  BY <1>0, <1>10, Basics, StgUpdates DEF SweepRemove
<1>11. CASE SwitchPointer
  BY <1>0, <1>11, Basics DEF SwitchPointer, DeltaFree, Switchable, Healthy
<1>12. CASE RebuildBegin
  <2>1. \A g \in gens' \cup DOMAIN stg' : g \in gens \cup DOMAIN stg \/ g.e = epoch
    BY <1>12, RebuildBeginEffect
  <2>2. UNCHANGED <<epoch, amani, rmani, ready, pub>>
    BY <1>12, RebuildBeginEffect
  <2>3. dwk'.g.e <= epoch
    <3>1. dwk' = NoWork \/ dwk'.g.e = epoch
      BY <1>0, <1>12, RebuildBeginEffect
    <3> QED BY <1>0, <3>1, RecordFields, GenFacts
  <2> QED BY <1>0, <2>1, <2>2, <2>3
<1>13. CASE RebuildRename
  BY <1>0, <1>13, RebuildRenameEffect, Basics
<1>14. CASE RebuildInstall
  BY <1>0, <1>14, Basics, Works DEF RebuildInstall
<1>15. CASE RebuildSweep
  BY <1>0, <1>15, Basics, StgUpdates DEF RebuildSweep, Publishing
<1>16. CASE CatchUp
  BY <1>0, <1>16, Basics DEF CatchUp, DeltaFree
<1>17. CASE Staging
  BY <1>0, <1>17, StagingFrame, Basics
<1>18. CASE PublishRetry
  BY <1>0, <1>18, Basics DEF PublishRetry, At
<1>19. CASE PublishRetried
  BY <1>0, <1>19, Basics DEF PublishRetried, At, Done
<1>20. CASE PublishPick
  BY <1>0, <1>20, Basics DEF PublishPick, At
<1>21. CASE PublishAlready
  BY <1>0, <1>21, Basics, PubUpdates, Gotos DEF PublishAlready, At, Goto
<1>22. CASE PublishReject
  BY <1>0, <1>22, Basics, PubUpdates DEF PublishReject, At, Publishable, StatusOf, Done
<1>23. CASE PublishAbsorb
  BY <1>0, <1>23, PublishAbsorbEffect, Basics
<1>24. CASE PublishPark
  BY <1>0, <1>24, Basics, PubUpdates, Gotos DEF PublishPark, At, Goto
<1>25. CASE PublishRename
  BY <1>0, <1>25, Basics, PubUpdates, Gotos DEF PublishRename, At, Goto
<1>26. CASE PublishRegister
  BY <1>0, <1>26, PublishRegisterEffect, Basics
<1>27. CASE PublishCommit
  BY <1>0, <1>27, Basics, Gotos DEF PublishCommit, At, Goto
<1>28. CASE PublishFault
  BY <1>0, <1>28, Basics, PubUpdates DEF PublishFault, At, Event, RolledBack, Done
<1>29. CASE PublishSwitch
  BY <1>0, <1>29, Basics, Gotos DEF PublishSwitch, At, Goto
<1>30. CASE PublishDone
  BY <1>0, <1>30, Basics, StgUpdates DEF PublishDone, At, Done
<1>31. CASE PublishUnswitched
  BY <1>0, <1>31, Basics DEF PublishUnswitched, At, Done
<1> QED
  BY <1>1, <1>2, <1>3, <1>4, <1>5, <1>6, <1>7, <1>8, <1>9, <1>10, <1>11, <1>12, <1>13, <1>14, <1>15, <1>16,
     <1>17, <1>18, <1>19, <1>20, <1>21, <1>22, <1>23, <1>24, <1>25, <1>26, <1>27, <1>28, <1>29, <1>30, <1>31
     DEF Next, Start, Delta, Publish

\* A process that is down has nothing in memory.
LEMMA DownStep == ASSUME PublishTypes, TransactionInv, DownInv, Next PROVE DownInv'
<1>0. PublishTypes /\ TransactionInv /\ DownInv
  OBVIOUS
<1> USE DEF DownInv, factVars, diskVars, deltaVars, stageVars, pubVars, procVars, tally
<1>1. CASE RecordFact
  BY <1>0, <1>1, Basics DEF RecordFact, Event
<1>2. CASE ReplaceFacts
  BY <1>0, <1>2, Basics DEF ReplaceFacts, Event
<1>3. CASE Damage
  BY <1>0, <1>3, Basics DEF Damage, Event
<1>4. CASE Crash
  BY <1>0, <1>4, Basics DEF Crash, Event
<1>5. CASE StartServe
  BY <1>0, <1>5, Basics DEF StartServe, Healthy, Declared, StartWith, StartRepr
<1>6. CASE StartBuild
  BY <1>0, <1>6, StartBuildEffect, Basics DEF Declared
<1>7. CASE StartRecover
  BY <1>0, <1>7, Basics DEF StartRecover, Broken, Recoverable, StartWith, Healthy, Declared, StartRepr
<1>8. CASE StartRefuse
  BY <1>0, <1>8, Basics DEF StartRefuse, Broken, Recoverable, Declared, Healthy, StartWith, StartRepr
<1>9. CASE SweepRead
  BY <1>0, <1>9, Basics DEF SweepRead
<1>10. CASE SweepRemove
  BY <1>0, <1>10, Basics DEF SweepRemove
<1>11. CASE SwitchPointer
  BY <1>0, <1>11, Basics DEF SwitchPointer, DeltaFree, Switchable, Healthy
<1>12. CASE RebuildBegin
  BY <1>0, <1>12, RebuildBeginEffect, Basics
<1>13. CASE RebuildRename
  BY <1>0, <1>13, RebuildRenameEffect, Basics
<1>14. CASE RebuildInstall
  BY <1>0, <1>14, Basics, Works DEF RebuildInstall
<1>15. CASE RebuildSweep
  BY <1>0, <1>15, Basics DEF RebuildSweep, Publishing
<1>16. CASE CatchUp
  BY <1>0, <1>16, Basics DEF CatchUp, DeltaFree
<1>17. CASE Staging
  BY <1>0, <1>17, StagingFrame, Basics
<1>18. CASE PublishRetry
  BY <1>0, <1>18, Basics DEF PublishRetry, At
<1>19. CASE PublishRetried
  BY <1>0, <1>19, Basics DEF PublishRetried, At, Done
<1>20. CASE PublishPick
  BY <1>0, <1>20, Basics DEF PublishPick, At
<1>21. CASE PublishAlready
  BY <1>0, <1>21, Basics, Gotos DEF PublishAlready, At, Goto
<1>22. CASE PublishReject
  BY <1>0, <1>22, Basics DEF PublishReject, At, Publishable, StatusOf, Done
<1>23. CASE PublishAbsorb
  BY <1>0, <1>23, PublishAbsorbEffect, Basics
<1>24. CASE PublishPark
  BY <1>0, <1>24, Basics, Gotos DEF PublishPark, At, Goto
<1>25. CASE PublishRename
  BY <1>0, <1>25, Basics, Gotos DEF PublishRename, At, Goto
<1>26. CASE PublishRegister
  BY <1>0, <1>26, PublishRegisterEffect, Basics
<1>27. CASE PublishCommit
  BY <1>0, <1>27, Basics, Gotos DEF PublishCommit, At, Goto
<1>28. CASE PublishFault
  BY <1>0, <1>28, Basics DEF PublishFault, At, Event, RolledBack, Done
<1>29. CASE PublishSwitch
  BY <1>0, <1>29, Basics, Gotos DEF PublishSwitch, At, Goto
<1>30. CASE PublishDone
  BY <1>0, <1>30, Basics DEF PublishDone, At, Done
<1>31. CASE PublishUnswitched
  BY <1>0, <1>31, Basics DEF PublishUnswitched, At, Done
<1> QED
  BY <1>1, <1>2, <1>3, <1>4, <1>5, <1>6, <1>7, <1>8, <1>9, <1>10, <1>11, <1>12, <1>13, <1>14, <1>15, <1>16,
     <1>17, <1>18, <1>19, <1>20, <1>21, <1>22, <1>23, <1>24, <1>25, <1>26, <1>27, <1>28, <1>29, <1>30, <1>31
     DEF Next, Start, Delta, Publish

\* The delta worker rebuilds behind a hidden snapshot and never while it
\* refuses.
LEMMA WorkerStep == ASSUME PublishTypes, TransactionInv, DownInv, WorkerInv, Next PROVE WorkerInv'
<1>0. PublishTypes /\ TransactionInv /\ DownInv /\ WorkerInv
  OBVIOUS
<1> USE DEF PublishTypes, WorkerInv, DownInv, factVars, diskVars, deltaVars, stageVars, pubVars, procVars,
   tally
<1>1. CASE RecordFact
  BY <1>0, <1>1, Basics DEF RecordFact, Event
<1>2. CASE ReplaceFacts
  BY <1>0, <1>2, Basics DEF ReplaceFacts, Event
<1>3. CASE Damage
  BY <1>0, <1>3, Basics DEF Damage, Event
<1>4. CASE Crash
  BY <1>0, <1>4, Basics DEF Crash, Event
<1>5. CASE StartServe
  BY <1>0, <1>5, Basics DEF StartServe, Healthy, Declared, StartWith, StartRepr
<1>6. CASE StartBuild
  BY <1>0, <1>6, StartBuildEffect, Basics DEF Declared
<1>7. CASE StartRecover
  BY <1>0, <1>7, Basics DEF StartRecover, Broken, Recoverable, StartWith, Healthy, Declared, StartRepr
<1>8. CASE StartRefuse
  BY <1>0, <1>8, Basics DEF StartRefuse, Broken, Recoverable, Declared, Healthy, StartWith, StartRepr
<1>9. CASE SweepRead
  BY <1>0, <1>9, Basics DEF SweepRead
<1>10. CASE SweepRemove
  BY <1>0, <1>10, Basics DEF SweepRemove
<1>11. CASE SwitchPointer
  BY <1>0, <1>11, Basics DEF SwitchPointer, DeltaFree, Switchable, Healthy
<1>12. CASE RebuildBegin
  <2>0. decl \in Gen
    BY <1>0
  <2> HIDE DEF PublishTypes, WorkerInv, DownInv
  <2>1. dwk' = NoWork \/ (dwk'.g \in Gen /\ dwk'.pc \in {"build", "install"})
    BY <1>0, <2>0, <1>12, RebuildBeginEffect
  <2>2. srv' = NoGen /\ ~refused'
    BY <1>0, <1>12, RebuildBeginEffect
  <2> QED BY <2>1, <2>2, RecordFields DEF WorkerInv
<1>13. CASE RebuildRename
  BY <1>0, <1>13, RebuildRenameEffect, Basics
<1>14. CASE RebuildInstall
  BY <1>0, <1>14, Basics, Works DEF RebuildInstall
<1>15. CASE RebuildSweep
  BY <1>0, <1>15, Basics DEF RebuildSweep, Publishing
<1>16. CASE CatchUp
  BY <1>0, <1>16, Basics DEF CatchUp, DeltaFree
<1>17. CASE Staging
  BY <1>0, <1>17, StagingFrame, Basics
<1>18. CASE PublishRetry
  BY <1>0, <1>18, Basics DEF PublishRetry, At
<1>19. CASE PublishRetried
  BY <1>0, <1>19, Basics DEF PublishRetried, At, Done
<1>20. CASE PublishPick
  BY <1>0, <1>20, Basics DEF PublishPick, At
<1>21. CASE PublishAlready
  BY <1>0, <1>21, Basics, Gotos DEF PublishAlready, At, Goto
<1>22. CASE PublishReject
  BY <1>0, <1>22, Basics DEF PublishReject, At, Publishable, StatusOf, Done
<1>23. CASE PublishAbsorb
  BY <1>0, <1>23, PublishAbsorbEffect, Basics
<1>24. CASE PublishPark
  BY <1>0, <1>24, Basics, Gotos DEF PublishPark, At, Goto
<1>25. CASE PublishRename
  BY <1>0, <1>25, Basics, Gotos DEF PublishRename, At, Goto
<1>26. CASE PublishRegister
  BY <1>0, <1>26, PublishRegisterEffect, Basics
<1>27. CASE PublishCommit
  BY <1>0, <1>27, Basics, Gotos DEF PublishCommit, At, Goto
<1>28. CASE PublishFault
  BY <1>0, <1>28, Basics DEF PublishFault, At, Event, RolledBack, Done
<1>29. CASE PublishSwitch
  BY <1>0, <1>29, Basics, Gotos DEF PublishSwitch, At, Goto
<1>30. CASE PublishDone
  BY <1>0, <1>30, Basics DEF PublishDone, At, Done
<1>31. CASE PublishUnswitched
  BY <1>0, <1>31, Basics DEF PublishUnswitched, At, Done
<1> QED
  BY <1>1, <1>2, <1>3, <1>4, <1>5, <1>6, <1>7, <1>8, <1>9, <1>10, <1>11, <1>12, <1>13, <1>14, <1>15, <1>16,
     <1>17, <1>18, <1>19, <1>20, <1>21, <1>22, <1>23, <1>24, <1>25, <1>26, <1>27, <1>28, <1>29, <1>30, <1>31
     DEF Next, Start, Delta, Publish

\* A build stays in one place, and the id declared active is never built or
\* published again.
LEMMA RecordStep == ASSUME PublishTypes, DownInv, RecordInv, TransactionInv, Next PROVE RecordInv'
<1>0. PublishTypes /\ DownInv /\ RecordInv /\ TransactionInv
  OBVIOUS
<1> USE DEF PublishTypes, RecordInv, DownInv, factVars, diskVars, deltaVars, stageVars, pubVars, procVars,
   tally
<1>1. CASE RecordFact
  BY <1>0, <1>1, Basics DEF RecordFact, Event
<1>2. CASE ReplaceFacts
  BY <1>0, <1>2, Basics DEF ReplaceFacts, Event
<1>3. CASE Damage
  BY <1>0, <1>3, Basics DEF Damage, Event
<1>4. CASE Crash
  BY <1>0, <1>4, Basics, StgUpdates DEF Crash, Event
<1>5. CASE StartServe
  BY <1>0, <1>5, Basics DEF StartServe, Healthy, Declared, StartWith, StartRepr
<1>6. CASE StartBuild
  BY <1>0, <1>6, StartBuildEffect, Basics DEF Declared
<1>7. CASE StartRecover
  BY <1>0, <1>7, Basics, StgUpdates, SweptKeeps DEF StartRecover, Broken, Recoverable, StartWith, Healthy,
     Declared, StartRepr
<1>8. CASE StartRefuse
  BY <1>0, <1>8, Basics DEF StartRefuse, Broken, Recoverable, Declared, Healthy, StartWith, StartRepr
<1>9. CASE SweepRead
  BY <1>0, <1>9, Basics DEF SweepRead
<1>10. CASE SweepRemove
  BY <1>0, <1>10, Basics, StgUpdates, SweptKeeps DEF SweepRemove
<1>11. CASE SwitchPointer
  BY <1>0, <1>11, Basics DEF SwitchPointer, DeltaFree, Switchable, Healthy
<1>12. CASE RebuildBegin
  BY <1>0, <1>12, RebuildBeginEffect, Basics
<1>13. CASE RebuildRename
  BY <1>0, <1>13, RebuildRenameEffect, Basics
<1>14. CASE RebuildInstall
  BY <1>0, <1>14, Basics, Works DEF RebuildInstall
<1>15. CASE RebuildSweep
  BY <1>0, <1>15, Basics, StgUpdates, SweptKeeps DEF RebuildSweep, Publishing
<1>16. CASE CatchUp
  BY <1>0, <1>16, Basics DEF CatchUp, DeltaFree
<1>17. CASE Staging
  BY <1>0, <1>17, StagingFrame, Basics
<1>18. CASE PublishRetry
  BY <1>0, <1>18, Basics DEF PublishRetry, At
<1>19. CASE PublishRetried
  BY <1>0, <1>19, Basics DEF PublishRetried, At, Done
<1>20. CASE PublishPick
  BY <1>0, <1>20, Basics, PublisherStarts DEF PublishPick, At
<1>21. CASE PublishAlready
  BY <1>0, <1>21, Basics, PubUpdates, PubValues, Gotos DEF PublishAlready, At, Goto
<1>22. CASE PublishReject
  BY <1>0, <1>22, Basics, PubUpdates DEF PublishReject, At, Publishable, StatusOf, Done
<1>23. CASE PublishAbsorb
  BY <1>0, <1>23, PublishAbsorbEffect, Basics
<1>24. CASE PublishPark
  BY <1>0, <1>24, Basics, PubUpdates, PubValues, Gotos DEF PublishPark, At, Goto
<1>25. CASE PublishRename
  BY <1>0, <1>25, Basics, PubUpdates, PubValues, Gotos DEF PublishRename, At, Goto
<1>26. CASE PublishRegister
  BY <1>0, <1>26, PublishRegisterEffect, Basics
<1>27. CASE PublishCommit
  BY <1>0, <1>27, Basics, Gotos DEF PublishCommit, At, Goto
<1>28. CASE PublishFault
  BY <1>0, <1>28, Basics, PubUpdates, PubValues DEF PublishFault, At, Event, RolledBack, Done
<1>29. CASE PublishSwitch
  BY <1>0, <1>29, Basics, Gotos DEF PublishSwitch, At, Goto
<1>30. CASE PublishDone
  BY <1>0, <1>30, Basics, StgUpdates, SweptKeeps DEF PublishDone, At, Done
<1>31. CASE PublishUnswitched
  BY <1>0, <1>31, Basics DEF PublishUnswitched, At, Done
<1> QED
  BY <1>1, <1>2, <1>3, <1>4, <1>5, <1>6, <1>7, <1>8, <1>9, <1>10, <1>11, <1>12, <1>13, <1>14, <1>15, <1>16,
     <1>17, <1>18, <1>19, <1>20, <1>21, <1>22, <1>23, <1>24, <1>25, <1>26, <1>27, <1>28, <1>29, <1>30, <1>31
     DEF Next, Start, Delta, Publish

\* The publish transaction and the manifest stay in step.
LEMMA TransactionStep == ASSUME PublishTypes, DownInv, TransactionInv, Next PROVE TransactionInv'
<1>0. PublishTypes /\ DownInv /\ TransactionInv
  OBVIOUS
<1> USE DEF TransactionInv, DownInv, factVars, diskVars, deltaVars, stageVars, pubVars, procVars, tally
<1>1. CASE RecordFact
  BY <1>0, <1>1, Basics DEF RecordFact, Event
<1>2. CASE ReplaceFacts
  BY <1>0, <1>2, Basics DEF ReplaceFacts, Event
<1>3. CASE Damage
  BY <1>0, <1>3, Basics DEF Damage, Event
<1>4. CASE Crash
  BY <1>0, <1>4, Basics DEF Crash, Event
<1>5. CASE StartServe
  BY <1>0, <1>5, Basics DEF StartServe, Healthy, Declared, StartWith, StartRepr
<1>6. CASE StartBuild
  BY <1>0, <1>6, StartBuildEffect, Basics DEF Declared
<1>7. CASE StartRecover
  BY <1>0, <1>7, Basics DEF StartRecover, Broken, Recoverable, StartWith, Healthy, Declared, StartRepr
<1>8. CASE StartRefuse
  BY <1>0, <1>8, Basics DEF StartRefuse, Broken, Recoverable, Declared, Healthy, StartWith, StartRepr
<1>9. CASE SweepRead
  BY <1>0, <1>9, Basics DEF SweepRead
<1>10. CASE SweepRemove
  BY <1>0, <1>10, Basics DEF SweepRemove
<1>11. CASE SwitchPointer
  BY <1>0, <1>11, Basics DEF SwitchPointer, DeltaFree, Switchable, Healthy
<1>12. CASE RebuildBegin
  BY <1>0, <1>12, RebuildBeginEffect, Basics
<1>13. CASE RebuildRename
  BY <1>0, <1>13, RebuildRenameEffect, Basics
<1>14. CASE RebuildInstall
  BY <1>0, <1>14, Basics DEF RebuildInstall
<1>15. CASE RebuildSweep
  BY <1>0, <1>15, Basics DEF RebuildSweep, Publishing
<1>16. CASE CatchUp
  BY <1>0, <1>16, Basics DEF CatchUp, DeltaFree
<1>17. CASE Staging
  BY <1>0, <1>17, StagingFrame, Basics
<1>18. CASE PublishRetry
  BY <1>0, <1>18, Basics DEF PublishRetry, At
<1>19. CASE PublishRetried
  BY <1>0, <1>19, Basics DEF PublishRetried, At, Done
<1>20. CASE PublishPick
  BY <1>0, <1>20, Basics, PublisherStarts DEF PublishPick, At
<1>21. CASE PublishAlready
  BY <1>0, <1>21, Basics, Gotos DEF PublishAlready, At, Goto
<1>22. CASE PublishReject
  BY <1>0, <1>22, Basics DEF PublishReject, At, Publishable, StatusOf, Done
<1>23. CASE PublishAbsorb
  BY <1>0, <1>23, PublishAbsorbEffect, Basics
<1>24. CASE PublishPark
  BY <1>0, <1>24, Basics, Gotos DEF PublishPark, At, Goto
<1>25. CASE PublishRename
  BY <1>0, <1>25, Basics, Gotos DEF PublishRename, At, Goto
<1>26. CASE PublishRegister
  BY <1>0, <1>26, PublishRegisterEffect, Basics
<1>27. CASE PublishCommit
  BY <1>0, <1>27, Basics, Gotos DEF PublishCommit, At, Goto
<1>28. CASE PublishFault
  BY <1>0, <1>28, Basics DEF PublishFault, At, Event, RolledBack, Done
<1>29. CASE PublishSwitch
  BY <1>0, <1>29, Basics, Gotos DEF PublishSwitch, At, Goto
<1>30. CASE PublishDone
  BY <1>0, <1>30, Basics DEF PublishDone, At, Done
<1>31. CASE PublishUnswitched
  BY <1>0, <1>31, Basics DEF PublishUnswitched, At, Done
<1> QED
  BY <1>1, <1>2, <1>3, <1>4, <1>5, <1>6, <1>7, <1>8, <1>9, <1>10, <1>11, <1>12, <1>13, <1>14, <1>15, <1>16,
     <1>17, <1>18, <1>19, <1>20, <1>21, <1>22, <1>23, <1>24, <1>25, <1>26, <1>27, <1>28, <1>29, <1>30, <1>31
     DEF Next, Start, Delta, Publish

\* What the manifest names stays known to this process.
LEMMA KnownStep == ASSUME PublishTypes, PastInv, DownInv, WorkerInv, TransactionInv, KnownInv, Next PROVE KnownInv'
<1>0. PublishTypes /\ PastInv /\ DownInv /\ WorkerInv /\ TransactionInv /\ KnownInv
  OBVIOUS
<1> USE DEF PublishTypes, PastInv, DownInv, WorkerInv, TransactionInv, KnownInv, factVars, diskVars,
   deltaVars, stageVars, pubVars, procVars, tally
<1>1. CASE RecordFact
  BY <1>0, <1>1, Basics DEF RecordFact, Event
<1>2. CASE ReplaceFacts
  BY <1>0, <1>2, Basics DEF ReplaceFacts, Event
<1>3. CASE Damage
  BY <1>0, <1>3, Basics DEF Damage, Event
<1>4. CASE Crash
  BY <1>0, <1>4, Basics DEF Crash, Event
<1>5. CASE StartServe
  BY <1>0, <1>5, Basics DEF StartServe, Healthy, Declared, StartWith, StartRepr
<1>6. CASE StartBuild
  BY <1>0, <1>6, StartBuildEffect, Basics DEF Declared
<1>7. CASE StartRecover
  BY <1>0, <1>7, Basics DEF StartRecover, Broken, Recoverable, StartWith, Healthy, Declared, StartRepr
<1>8. CASE StartRefuse
  BY <1>0, <1>8, Basics DEF StartRefuse, Broken, Recoverable, Declared, Healthy, StartWith, StartRepr
<1>9. CASE SweepRead
  BY <1>0, <1>9, Basics DEF SweepRead
<1>10. CASE SweepRemove
  BY <1>0, <1>10, Basics DEF SweepRemove
<1>11. CASE SwitchPointer
  BY <1>0, <1>11, Basics DEF SwitchPointer, DeltaFree, Switchable, Healthy
<1>12. CASE RebuildBegin
  BY ZenonT(60), <1>0, <1>12, RebuildBeginEffect, Basics
<1>13. CASE RebuildRename
  BY <1>0, <1>13, RebuildRenameEffect, Basics
<1>14. CASE RebuildInstall
  BY <1>0, <1>14, Basics DEF RebuildInstall
<1>15. CASE RebuildSweep
  BY <1>0, <1>15, Basics DEF RebuildSweep, Publishing
<1>16. CASE CatchUp
  BY <1>0, <1>16, Basics DEF CatchUp, DeltaFree
<1>17. CASE Staging
  BY <1>0, <1>17, StagingFrame, Basics
<1>18. CASE PublishRetry
  BY <1>0, <1>18, Basics DEF PublishRetry, At
<1>19. CASE PublishRetried
  BY <1>0, <1>19, Basics DEF PublishRetried, At, Done
<1>20. CASE PublishPick
  BY <1>0, <1>20, Basics, PublisherStarts DEF PublishPick, At
<1>21. CASE PublishAlready
  BY <1>0, <1>21, Basics, Gotos DEF PublishAlready, At, Goto
<1>22. CASE PublishReject
  BY <1>0, <1>22, Basics DEF PublishReject, At, Publishable, StatusOf, Done
<1>23. CASE PublishAbsorb
  BY <1>0, <1>23, PublishAbsorbEffect, Basics
<1>24. CASE PublishPark
  BY <1>0, <1>24, Basics, Gotos DEF PublishPark, At, Goto
<1>25. CASE PublishRename
  BY <1>0, <1>25, Basics, Gotos DEF PublishRename, At, Goto
<1>26. CASE PublishRegister
  BY <1>0, <1>26, PublishRegisterEffect, Basics
<1>27. CASE PublishCommit
  BY <1>0, <1>27, Basics, Gotos DEF PublishCommit, At, Goto
<1>28. CASE PublishFault
  BY <1>0, <1>28, Basics DEF PublishFault, At, Event, RolledBack, Done
<1>29. CASE PublishSwitch
  BY <1>0, <1>29, Basics, Gotos DEF PublishSwitch, At, Goto
<1>30. CASE PublishDone
  BY <1>0, <1>30, Basics DEF PublishDone, At, Done
<1>31. CASE PublishUnswitched
  BY <1>0, <1>31, Basics DEF PublishUnswitched, At, Done
<1> QED
  BY <1>1, <1>2, <1>3, <1>4, <1>5, <1>6, <1>7, <1>8, <1>9, <1>10, <1>11, <1>12, <1>13, <1>14, <1>15, <1>16,
     <1>17, <1>18, <1>19, <1>20, <1>21, <1>22, <1>23, <1>24, <1>25, <1>26, <1>27, <1>28, <1>29, <1>30, <1>31
     DEF Next, Start, Delta, Publish

\* Without a sweep beside a publish, what the manifests and the publish need is
\* kept.
LEMMA KeptStep == ASSUME PublishTypes, PastInv, DownInv, WorkerInv, RecordInv, TransactionInv, KnownInv, KeptInv, HandshakeInv, ~overlap', Next PROVE KeptInv'
<1>0. PublishTypes /\ PastInv /\ DownInv /\ WorkerInv /\ RecordInv /\ TransactionInv /\ KnownInv /\ KeptInv /\ HandshakeInv /\ ~overlap'
  OBVIOUS
<1> USE DEF PublishTypes, PastInv, DownInv, WorkerInv, RecordInv, TransactionInv, KnownInv, KeptInv,
   HandshakeInv, factVars, diskVars, deltaVars, stageVars, pubVars, procVars, tally
<1>1. CASE RecordFact
  BY <1>0, <1>1, Basics DEF RecordFact, Event
<1>2. CASE ReplaceFacts
  BY <1>0, <1>2, Basics DEF ReplaceFacts, Event
<1>3. CASE Damage
  BY <1>0, <1>3, Basics DEF Damage, Event
<1>4. CASE Crash
  BY <1>0, <1>4, Basics, StgUpdates DEF Crash, Event
<1>5. CASE StartServe
  BY <1>0, <1>5, Basics DEF StartServe, Healthy, Declared, StartWith, StartRepr
<1>6. CASE StartBuild
  BY ZenonT(60), <1>0, <1>6, StartBuildEffect, Basics DEF Declared
<1>7. CASE StartRecover
  BY <1>0, <1>7, Basics, StgUpdates, SweptKeeps, SweptCkptKeeps DEF StartRecover, Broken, Recoverable,
     StartWith, Healthy, Declared, StartRepr
<1>8. CASE StartRefuse
  BY <1>0, <1>8, Basics DEF StartRefuse, Broken, Recoverable, Declared, Healthy, StartWith, StartRepr
<1>9. CASE SweepRead
  BY <1>0, <1>9, Basics, SweepUpdate DEF SweepRead
<1>10. CASE SweepRemove
  BY <1>0, <1>10, Basics, StgUpdates, SweptKeeps, SweptCkptKeeps DEF SweepRemove
<1>11. CASE SwitchPointer
  BY <1>0, <1>11, Basics DEF SwitchPointer, DeltaFree, Switchable, Healthy
<1>12. CASE RebuildBegin
  <2>a. UNCHANGED <<epoch, gens, dmg, amani, rmani, swp, pub, up, actId>>
    BY <1>0, <1>12, RebuildBeginEffect
  <2>b. \A x \in DOMAIN ckpt : x.e = epoch => x \in DOMAIN ckpt'
    <3>1. DOMAIN ckpt' = DOMAIN ckpt \ {srv} \/ ckpt' = ckpt
      BY <1>0, <1>12, RebuildBeginEffect
    <3>2. srv = NoGen \/ srv.e # epoch
      BY <1>0, <1>12, RebuildBeginEffect
    <3> QED BY <1>0, <3>1, <3>2, GenFacts
  <2>c. /\ DOMAIN stg' \subseteq DOMAIN stg \cup {Target(prov)} /\ (Target(prov) \in gens \/ Target(prov) \in DOMAIN stg => UNCHANGED stg)
        /\ Target(prov).e = epoch
    BY <1>0, <1>12, RebuildBeginEffect
  <2>1. amani' \in Gen /\ amani'.e = epoch' /\ amani' \notin dmg' => amani' \in gens' /\ amani' \in DOMAIN ckpt'
    BY <1>0, <2>a, <2>b, <2>c
  <2>2. rmani' \in Gen /\ rmani'.e = epoch' => rmani' \in gens'
    BY <1>0, <2>a, <2>b, <2>c
  <2>3. swp'.pc = "listed" => amani' \in swp'.keep /\ rmani' \in swp'.keep \cup {NoGen}
    BY <1>0, <2>a, <2>b, <2>c
  <2>4. swp'.pc # "none" => pub'.pc \notin {"rename", "renamed", "opened"}
    BY <1>0, <2>a, <2>b, <2>c
  <2>5. pub'.pc \in {"park", "rename", "renamed", "opened"} /\ pub'.g.e = epoch' => pub'.g \in DOMAIN ckpt'
    BY <1>0, <2>a, <2>b, <2>c
  <2>6. /\ pub'.pc \in {"renamed", "opened"} => pub'.g \in gens' /\ pub'.g \notin dmg'
        /\ pub'.pc \in {"renamed", "opened"} /\ pub'.g.e = epoch' => pub'.g # rmani'
    BY <1>0, <2>a, <2>b, <2>c
  <2>7. up' /\ amani' \in Gen /\ amani' # actId' => amani' \notin DOMAIN stg' /\ amani' \notin dmg'
    BY <1>0, <2>a, <2>b, <2>c
  <2> QED BY <2>1, <2>2, <2>3, <2>4, <2>5, <2>6, <2>7
<1>13. CASE RebuildRename
  BY <1>0, <1>13, RebuildRenameEffect, Basics
<1>14. CASE RebuildInstall
  BY <1>0, <1>14, Basics, Works DEF RebuildInstall
<1>15. CASE RebuildSweep
  <2>a. amani \in Gen /\ amani.e = epoch => amani = dwk.g
    BY <1>0, <1>15, Basics DEF RebuildSweep, Publishing
  <2>1. amani' \in Gen /\ amani'.e = epoch' /\ amani' \notin dmg' => amani' \in gens' /\ amani' \in DOMAIN ckpt'
    BY <1>0, <1>15, Basics, StgUpdates, SweptKeeps, SweptCkptKeeps, <2>a DEF RebuildSweep, Publishing
  <2>2. rmani' \in Gen /\ rmani'.e = epoch' => rmani' \in gens'
    BY <1>0, <1>15, Basics, StgUpdates, SweptKeeps, SweptCkptKeeps, <2>a DEF RebuildSweep, Publishing
  <2>3. swp'.pc = "listed" => amani' \in swp'.keep /\ rmani' \in swp'.keep \cup {NoGen}
    BY <1>0, <1>15, Basics, StgUpdates, SweptKeeps, SweptCkptKeeps, <2>a DEF RebuildSweep, Publishing
  <2>4. swp'.pc # "none" => pub'.pc \notin {"rename", "renamed", "opened"}
    BY <1>0, <1>15, Basics, StgUpdates, SweptKeeps, SweptCkptKeeps, <2>a DEF RebuildSweep, Publishing
  <2>5. pub'.pc \in {"park", "rename", "renamed", "opened"} /\ pub'.g.e = epoch' => pub'.g \in DOMAIN ckpt'
    BY <1>0, <1>15, Basics, StgUpdates, SweptKeeps, SweptCkptKeeps, <2>a DEF RebuildSweep, Publishing
  <2>6. /\ pub'.pc \in {"renamed", "opened"} => pub'.g \in gens' /\ pub'.g \notin dmg'
        /\ pub'.pc \in {"renamed", "opened"} /\ pub'.g.e = epoch' => pub'.g # rmani'
    BY <1>0, <1>15, Basics, StgUpdates, SweptKeeps, SweptCkptKeeps, <2>a DEF RebuildSweep, Publishing
  <2>7. up' /\ amani' \in Gen /\ amani' # actId' => amani' \notin DOMAIN stg' /\ amani' \notin dmg'
    BY <1>0, <1>15, Basics, StgUpdates, SweptKeeps, SweptCkptKeeps, <2>a DEF RebuildSweep, Publishing
  <2> QED BY <2>1, <2>2, <2>3, <2>4, <2>5, <2>6, <2>7
<1>16. CASE CatchUp
  BY ZenonT(60), <1>0, <1>16, Basics, CkptPut DEF CatchUp, DeltaFree
<1>17. CASE Staging
  BY <1>0, <1>17, StagingFrame, Basics
<1>18. CASE PublishRetry
  BY <1>0, <1>18, Basics DEF PublishRetry, At
<1>19. CASE PublishRetried
  BY <1>0, <1>19, Basics DEF PublishRetried, At, Done
<1>20. CASE PublishPick
  BY <1>0, <1>20, Basics, PublisherStarts DEF PublishPick, At
<1>21. CASE PublishAlready
  BY <1>0, <1>21, Basics, PubUpdates, PubValues, Gotos DEF PublishAlready, At, Goto
<1>22. CASE PublishReject
  BY <1>0, <1>22, Basics, PubUpdates DEF PublishReject, At, Publishable, StatusOf, Done
<1>23. CASE PublishAbsorb
  BY <1>0, <1>23, PublishAbsorbEffect, Basics
<1>24. CASE PublishPark
  BY ZenonT(60), <1>0, <1>24, Basics, PubUpdates, PubValues, Gotos DEF PublishPark, At, Goto
<1>25. CASE PublishRename
  BY <1>0, <1>25, Basics, PubUpdates, PubValues, Gotos DEF PublishRename, At, Goto
<1>26. CASE PublishRegister
  BY <1>0, <1>26, PublishRegisterEffect, Basics
<1>27. CASE PublishCommit
  BY <1>0, <1>27, Basics, Gotos DEF PublishCommit, At, Goto
<1>28. CASE PublishFault
  BY <1>0, <1>28, Basics, PubUpdates, PubValues DEF PublishFault, At, Event, RolledBack, Done
<1>29. CASE PublishSwitch
  BY <1>0, <1>29, Basics, Gotos DEF PublishSwitch, At, Goto
<1>30. CASE PublishDone
  BY <1>0, <1>30, Basics, StgUpdates, SweptKeeps, SweptCkptKeeps DEF PublishDone, At, Done
<1>31. CASE PublishUnswitched
  BY <1>0, <1>31, Basics DEF PublishUnswitched, At, Done
<1> QED
  BY <1>1, <1>2, <1>3, <1>4, <1>5, <1>6, <1>7, <1>8, <1>9, <1>10, <1>11, <1>12, <1>13, <1>14, <1>15, <1>16,
     <1>17, <1>18, <1>19, <1>20, <1>21, <1>22, <1>23, <1>24, <1>25, <1>26, <1>27, <1>28, <1>29, <1>30, <1>31
     DEF Next, Start, Delta, Publish

\* Without a sweep beside a publish, the handshake asks for the manifest's
\* generation, and its answer says it is served.
LEMMA HandshakeStep == ASSUME PublishTypes, PastInv, DownInv, WorkerInv, RecordInv, TransactionInv, KnownInv, KeptInv, HandshakeInv, ~overlap', Next PROVE HandshakeInv'
<1>0. PublishTypes /\ PastInv /\ DownInv /\ WorkerInv /\ RecordInv /\ TransactionInv /\ KnownInv /\ KeptInv /\ HandshakeInv /\ ~overlap'
  OBVIOUS
<1> USE DEF PublishTypes, PastInv, DownInv, WorkerInv, RecordInv, TransactionInv, KnownInv, KeptInv,
   HandshakeInv, factVars, diskVars, deltaVars, stageVars, pubVars, procVars, tally
<1>1. CASE RecordFact
  BY <1>0, <1>1, Basics DEF RecordFact, Event
<1>2. CASE ReplaceFacts
  BY <1>0, <1>2, Basics DEF ReplaceFacts, Event
<1>3. CASE Damage
  BY <1>0, <1>3, Basics DEF Damage, Event
<1>4. CASE Crash
  BY <1>0, <1>4, Basics DEF Crash, Event
<1>5. CASE StartServe
  BY <1>0, <1>5, Basics DEF StartServe, Healthy, Declared, StartWith, StartRepr
<1>6. CASE StartBuild
  BY <1>0, <1>6, StartBuildEffect, Basics DEF Declared
<1>7. CASE StartRecover
  BY <1>0, <1>7, Basics DEF StartRecover, Broken, Recoverable, StartWith, Healthy, Declared, StartRepr
<1>8. CASE StartRefuse
  BY <1>0, <1>8, Basics DEF StartRefuse, Broken, Recoverable, Declared, Healthy, StartWith, StartRepr
<1>9. CASE SweepRead
  BY <1>0, <1>9, Basics DEF SweepRead
<1>10. CASE SweepRemove
  BY <1>0, <1>10, Basics DEF SweepRemove
<1>11. CASE SwitchPointer
  BY <1>0, <1>11, Basics DEF SwitchPointer, DeltaFree, Switchable, Healthy
<1>12. CASE RebuildBegin
  <2>1. pub'.pc = "verify" => amani' # pub'.g
    BY <1>0, <1>12, RebuildBeginEffect, Basics
  <2>2. pub'.pc \notin {"poll", "retry"} => pub'.g # committed'
    BY <1>0, <1>12, RebuildBeginEffect, Basics
  <2>3. pend' # NoGen => pend' = amani' /\ (pub'.pc \in {"wait", "retry"} \/ committed' # switched')
    BY <1>0, <1>12, RebuildBeginEffect, Basics
  <2>4. up' /\ amani' \in Gen /\ amani'.e = epoch' =>
            amani' = srv' \/ refused' \/ pub'.pc \in {"switch", "wait"} \/ committed' # switched'
    BY <1>0, <1>12, RebuildBeginEffect, Basics
  <2>5. pub'.pc \in {"wait", "retry"} /\ pend' = NoGen /\ result' => srv' = amani' \/ amani'.e # epoch'
    BY <1>0, <1>12, RebuildBeginEffect, Basics
  <2> QED BY <2>1, <2>2, <2>3, <2>4, <2>5
<1>13. CASE RebuildRename
  BY <1>0, <1>13, RebuildRenameEffect, Basics
<1>14. CASE RebuildInstall
  BY <1>0, <1>14, Basics DEF RebuildInstall
<1>15. CASE RebuildSweep
  BY <1>0, <1>15, Basics DEF RebuildSweep, Publishing
<1>16. CASE CatchUp
  BY <1>0, <1>16, Basics DEF CatchUp, DeltaFree
<1>17. CASE Staging
  BY <1>0, <1>17, StagingFrame, Basics
<1>18. CASE PublishRetry
  BY <1>0, <1>18, Basics DEF PublishRetry, At
<1>19. CASE PublishRetried
  BY <1>0, <1>19, Basics DEF PublishRetried, At, Done
<1>20. CASE PublishPick
  BY <1>0, <1>20, Basics, PublisherStarts DEF PublishPick, At
<1>21. CASE PublishAlready
  BY <1>0, <1>21, Basics, Gotos DEF PublishAlready, At, Goto
<1>22. CASE PublishReject
  BY <1>0, <1>22, Basics DEF PublishReject, At, Publishable, StatusOf, Done
<1>23. CASE PublishAbsorb
  BY <1>0, <1>23, PublishAbsorbEffect, Basics
<1>24. CASE PublishPark
  BY <1>0, <1>24, Basics, Gotos DEF PublishPark, At, Goto
<1>25. CASE PublishRename
  BY <1>0, <1>25, Basics, Gotos DEF PublishRename, At, Goto
<1>26. CASE PublishRegister
  BY <1>0, <1>26, PublishRegisterEffect, Basics
<1>27. CASE PublishCommit
  BY <1>0, <1>27, Basics, Gotos DEF PublishCommit, At, Goto
<1>28. CASE PublishFault
  BY <1>0, <1>28, Basics DEF PublishFault, At, Event, RolledBack, Done
<1>29. CASE PublishSwitch
  BY <1>0, <1>29, Basics, Gotos DEF PublishSwitch, At, Goto
<1>30. CASE PublishDone
  BY <1>0, <1>30, Basics DEF PublishDone, At, Done
<1>31. CASE PublishUnswitched
  BY <1>0, <1>31, Basics DEF PublishUnswitched, At, Done
<1> QED
  BY <1>1, <1>2, <1>3, <1>4, <1>5, <1>6, <1>7, <1>8, <1>9, <1>10, <1>11, <1>12, <1>13, <1>14, <1>15, <1>16,
     <1>17, <1>18, <1>19, <1>20, <1>21, <1>22, <1>23, <1>24, <1>25, <1>26, <1>27, <1>28, <1>29, <1>30, <1>31
     DEF Next, Start, Delta, Publish

\* The initial states satisfy the invariant.
LEMMA PublishInvInit ==
    ASSUME Init
    PROVE  PublishInv
<1>1. PublishTypes
  <2>1. 1 \in 1..MaxEpoch /\ 0 \in 0..MaxHlc /\ ConfigRepr \in Reprs
    BY PublishAssumption DEF PublishAssumption
  <2> QED BY <2>1, GenFacts, RecordFields DEF Init, PublishTypes, Gens
<1>2. PastInv
  BY GenFacts, RecordFields DEF Init, PastInv
<1>3. DownInv /\ WorkerInv /\ KnownInv
  BY GenFacts, RecordFields DEF Init, DownInv, WorkerInv, KnownInv
<1>4. RecordInv /\ TransactionInv
  BY GenFacts, RecordFields DEF Init, RecordInv, TransactionInv
<1>5. KeptInv /\ HandshakeInv
  BY GenFacts, RecordFields DEF Init, KeptInv, HandshakeInv
<1> QED BY <1>1, <1>2, <1>3, <1>4, <1>5 DEF PublishInv

\* Every step keeps the invariant.
LEMMA PublishInvStep ==
    ASSUME PublishInv, [Next]_vars
    PROVE  PublishInv'
<1>1. CASE Next
  <2>1. PublishTypes' /\ PastInv' /\ DownInv' /\ WorkerInv' /\ RecordInv' /\ TransactionInv' /\ KnownInv'
    BY <1>1, TypesStep, PastStep, DownStep, WorkerStep, RecordStep, TransactionStep, KnownStep DEF PublishInv
  <2>2. ASSUME ~overlap' PROVE KeptInv' /\ HandshakeInv'
    <3>1. KeptInv /\ HandshakeInv
      BY <1>1, <2>2, OverlapStep DEF PublishInv
    <3> QED BY <1>1, <2>2, <3>1, KeptStep, HandshakeStep DEF PublishInv
  <2> QED BY <2>1, <2>2 DEF PublishInv
<1>2. CASE UNCHANGED vars
  <2> USE DEF vars
  <2>1. PublishTypes' /\ PastInv' /\ DownInv' /\ WorkerInv'
    BY <1>2 DEF PublishInv, PublishTypes, PastInv, DownInv, WorkerInv
  <2>2. RecordInv' /\ TransactionInv' /\ KnownInv'
    BY <1>2 DEF PublishInv, RecordInv, TransactionInv, KnownInv
  <2>3. ~overlap' => KeptInv' /\ HandshakeInv'
    BY <1>2 DEF PublishInv, KeptInv, HandshakeInv
  <2> QED BY <2>1, <2>2, <2>3 DEF PublishInv
<1> QED BY <1>1, <1>2

\* The inductive invariant of the publish holds, for every number of
\* representations, epochs and facts.
THEOREM PublishInvHolds == Spec => []PublishInv
<1>1. Init => PublishInv
  BY PublishInvInit
<1>2. PublishInv /\ [Next]_vars => PublishInv'
  BY PublishInvStep
<1> QED BY <1>1, <1>2, PTL DEF Spec

\* The manifests of the current epoch name complete containers (publish.py: a
\* crash loads the complete old or the complete new generation) and what is
\* served is what a restart would load, but for a publish between its commit
\* and its switch.
THEOREM ManifestHolds == Spec => []ManifestSound
<1>1. PublishInv => ManifestSound
  <2> SUFFICES ASSUME PublishInv PROVE ManifestNamesComplete /\ DurableBeforeVisible
    BY DEF ManifestSound
  <2>1. ManifestNamesComplete
    BY DEF PublishInv, KeptInv, ManifestNamesComplete
  <2>2. DurableBeforeVisible
    BY GenFacts DEF PublishInv, KnownInv, WorkerInv, DurableBeforeVisible
  <2> QED BY <2>1, <2>2
<1> QED BY <1>1, PublishInvHolds, PTL

\* The initial states are initial states of the two-pointer abstraction.
LEMMA PointerInit ==
    ASSUME Init
    PROVE  Pointer!Init
<1>1. 1 \in {StoreEpoch(p) : p \in Gen}
  BY GenFacts DEF StoreEpoch
<1>2. (IF amani = Torn THEN NoGen ELSE amani) \in Gen \cup {NoGen}
  BY GenFacts DEF Init
<1> QED BY <1>1, <1>2 DEF Init, Pointer!Init

\* Every step without an overlap is a step of the two-pointer abstraction or
\* changes neither pointer.
LEMMA PointerStep ==
    ASSUME PublishInv, ~overlap, Next
    PROVE  Pointer!Next \/ UNCHANGED Pointer!vars
<1>0. /\ PublishTypes /\ TransactionInv
      /\ (~up => srv = NoGen) /\ (dwk.pc = "install" => srv = NoGen /\ dwk.g \in Gen)
      /\ (pend # NoGen => pend = amani)
  BY DEF PublishInv, DownInv, WorkerInv, HandshakeInv
<1> USE DEF factVars, diskVars, deltaVars, stageVars, pubVars, procVars, tally
<1>1. CASE RecordFact
  BY <1>0, <1>1, Basics DEF RecordFact, Event, Pointer!vars
<1>2. CASE ReplaceFacts
  BY <1>0, <1>2, Basics DEF ReplaceFacts, Event, Pointer!ReplaceFacts, Pointer!Next, Pointer!vars,
     PublishTypes
<1>3. CASE Damage
  BY <1>0, <1>3, Basics DEF Damage, Event, Pointer!Lose, Pointer!Next, Pointer!vars, PublishTypes
<1>4. CASE Crash
  BY <1>0, <1>4, Basics DEF Crash, Event, Pointer!Hide, Pointer!Next, Pointer!vars
<1>5. CASE StartServe
  BY <1>0, <1>5, Basics DEF StartServe, Healthy, Declared, StartWith, StartRepr, Pointer!Rebuild,
     Pointer!Next, Pointer!vars, PublishTypes
<1>6. CASE StartBuild
  BY <1>0, <1>6, StartBuildEffect, Basics DEF Declared, Pointer!Rebuild, Pointer!Next, Pointer!vars,
     PublishTypes
<1>7. CASE StartRecover
  BY <1>0, <1>7, Basics DEF StartRecover, Broken, Recoverable, StartWith, Healthy, Declared, StartRepr,
     Pointer!Recover, Pointer!Next, Pointer!vars, PublishTypes
<1>8. CASE StartRefuse
  BY <1>0, <1>8, Basics DEF StartRefuse, Broken, Recoverable, Declared, Healthy, StartWith, StartRepr,
     Pointer!vars
<1>9. CASE SweepRead
  BY <1>0, <1>9, Basics DEF SweepRead, Pointer!vars
<1>10. CASE SweepRemove
  BY <1>0, <1>10, Basics DEF SweepRemove, Pointer!vars
<1>11. CASE SwitchPointer
  BY <1>0, <1>11, Basics DEF SwitchPointer, DeltaFree, Switchable, Healthy, Pointer!Show, Pointer!Next,
     Pointer!vars, PublishTypes
<1>12. CASE RebuildBegin
  BY <1>0, <1>12, RebuildBeginEffect, Basics DEF Pointer!Hide, Pointer!Next, Pointer!vars
<1>13. CASE RebuildRename
  BY <1>0, <1>13, RebuildRenameEffect, Basics DEF Pointer!vars
<1>14. CASE RebuildInstall
  BY <1>0, <1>14, Basics DEF RebuildInstall, Pointer!Rebuild, Pointer!Next, Pointer!vars, PublishTypes
<1>15. CASE RebuildSweep
  BY <1>0, <1>15, Basics DEF RebuildSweep, Publishing, Pointer!vars
<1>16. CASE CatchUp
  BY <1>0, <1>16, Basics DEF CatchUp, DeltaFree, Pointer!vars
<1>17. CASE Staging
  BY <1>0, <1>17, StagingFrame, Basics DEF Pointer!vars
<1>18. CASE PublishRetry
  BY <1>0, <1>18, Basics DEF PublishRetry, At, Pointer!vars
<1>19. CASE PublishRetried
  BY <1>0, <1>19, Basics DEF PublishRetried, At, Done, Pointer!vars
<1>20. CASE PublishPick
  BY <1>0, <1>20, Basics DEF PublishPick, At, Pointer!vars
<1>21. CASE PublishAlready
  BY <1>0, <1>21, Basics DEF PublishAlready, At, Goto, Pointer!vars
<1>22. CASE PublishReject
  BY <1>0, <1>22, Basics DEF PublishReject, At, Publishable, StatusOf, Done, Pointer!vars
<1>23. CASE PublishAbsorb
  BY <1>0, <1>23, PublishAbsorbEffect, Basics DEF Pointer!vars
<1>24. CASE PublishPark
  BY <1>0, <1>24, Basics DEF PublishPark, At, Goto, Pointer!vars
<1>25. CASE PublishRename
  BY <1>0, <1>25, Basics DEF PublishRename, At, Goto, Pointer!vars
<1>26. CASE PublishRegister
  BY <1>0, <1>26, PublishRegisterEffect, Basics DEF Pointer!vars
<1>27. CASE PublishCommit
  BY <1>0, <1>27, Basics DEF PublishCommit, At, Goto, Pointer!Commit, Pointer!Next, Pointer!vars,
     PublishTypes, Gens
<1>28. CASE PublishFault
  BY <1>0, <1>28, Basics DEF PublishFault, At, Event, RolledBack, Done, Pointer!Commit, Pointer!Next,
     Pointer!vars, PublishTypes, Gens
<1>29. CASE PublishSwitch
  BY <1>0, <1>29, Basics DEF PublishSwitch, At, Goto, Pointer!vars
<1>30. CASE PublishDone
  BY <1>0, <1>30, Basics DEF PublishDone, At, Done, Pointer!vars
<1>31. CASE PublishUnswitched
  BY <1>0, <1>31, Basics DEF PublishUnswitched, At, Done, Pointer!vars
<1> QED
  BY <1>1, <1>2, <1>3, <1>4, <1>5, <1>6, <1>7, <1>8, <1>9, <1>10, <1>11, <1>12, <1>13, <1>14, <1>15, <1>16,
     <1>17, <1>18, <1>19, <1>20, <1>21, <1>22, <1>23, <1>24, <1>25, <1>26, <1>27, <1>28, <1>29, <1>30, <1>31
     DEF Next, Start, Delta, Publish

\* As long as no sweep runs beside a publish, the derived root implements the
\* two-pointer abstraction: queries move only to where the active manifest
\* already is (publish.py writes the manifest, then delta.py publish_switch
\* swaps).
THEOREM PointerImplemented == Spec /\ []~overlap => ImplementsPointer
<1>1. Init => Pointer!Init
  BY PointerInit
<1>2. PublishInv /\ ~overlap /\ [Next]_vars => [Pointer!Next]_(Pointer!vars)
  <2>1. UNCHANGED vars => UNCHANGED Pointer!vars
    BY DEF vars, Pointer!vars
  <2> QED BY <2>1, PointerStep
<1> QED BY <1>1, <1>2, PublishInvHolds, PTL DEF Spec, ImplementsPointer, Pointer!Spec

=============================================================================
