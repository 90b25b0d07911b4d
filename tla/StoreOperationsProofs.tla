------------------------ MODULE StoreOperationsProofs ------------------------
(***************************************************************************)
(* Proofs about the operations that replace or copy the fact store, for    *)
(* any set of operations of any kinds, any containers and any number of    *)
(* crashes, retries and facts: what an operation promised to keep is kept  *)
(* before the store goes (ReplacementSafe), and an operation that died     *)
(* after its replacement knows its own store again (OwnPublicationKnown).  *)
(*                                                                         *)
(* The check that allows a replacement and the replacement are several     *)
(* steps apart.  ReadyInv says what still holds in between: nobody else    *)
(* has the lease, so the store is the one that was checked, and neither a  *)
(* sweep nor another backup touches the copy that was made of it; a purge  *)
(* may take the copy, but only one that had been complete.  FreshInv says  *)
(* why an epoch identifies a store at all.                                 *)
(*                                                                         *)
(* The second half is about the same file as the recorders see it, for any *)
(* number of processes, files and schema steps and any wall clock: what is *)
(* in a store is only ever extended (FactsKept).  A step touches the live  *)
(* store or one file in one of a few ways (StoreStep), whoever takes it;   *)
(* FactInv says what a batch, an old store and a shared epoch mean.        *)
(***************************************************************************)
EXTENDS StoreOperations, FactStore, FiniteSetTheorems, WellFoundedInduction, TLAPS

StoreRecs == [kind : {"none", "ok", "old", "bad"}, hist : Nat, epoch : Nat, facts : SUBSET Nat]
Stages == [state : {"none", "torn", "complete"}, store : StoreRecs, file : BOOLEAN, marker : BOOLEAN, keep : BOOLEAN]
Conts == [by : Ops \cup Paths \cup {NoOp}, store : StoreRecs, whole : BOOLEAN]
Copies == [state : {"none", "partial", "kept", "purged"}, store : StoreRecs]
PhaseNames == {"preflight", "quiesce", "staging", "publishing", "reopening", "cleanup", "report"}
BeforeReplace == {"leased", "keep", "keeping", "quarantine", "copied", "safe"}
LeasedPcs == BeforeReplace \cup {"replaced"}
Pcs == LeasedPcs \cup {"begin", "swept"}
OpStates == {"new", "running", "blocked", "succeeded", "cancelled"}
Results == {"none", "cleared", "already_clear", "restored", "not_restored", "created", "migrated"}
OpRecs == [state : OpStates, phase : PhaseNames, at : Pcs, expect : StoreRecs, cancel : BOOLEAN, result : Results]
Budgets == [crashes : Nat, retries : Nat]

\* The types of the store, the files around it and the operations' records.
StoreTypeOK ==
    /\ store \in StoreRecs /\ staging \in [Ops -> Stages] /\ containers \in [Paths -> Conts]
    /\ quarantine \in [Ops -> Copies] /\ op \in [Ops -> OpRecs] /\ lease \in Ops \cup {NoOp}
    /\ minted \in Nat /\ derived \in BOOLEAN /\ replaced \in [Ops -> Nat] /\ budget \in Budgets

\* What the live store can be: only a store from the start is old or
\* unreadable, and nothing replaces a store by none.
LiveInv ==
    /\ store.kind = "none" => store.epoch = 0
    /\ store.kind = "old" => store.facts = {1} /\ store.hist = 1 /\ store.epoch = 1
    /\ Verified(store) => store.epoch > 0

\* The phases of an operation are those of its kind.
PhaseInv(o) ==
    /\ Kind[o] = "backup" => op[o].phase \in {"preflight", "staging", "publishing", "cleanup"}
    /\ Kind[o] = "migrate" => op[o].phase # "cleanup"
    /\ Kind[o] \in {"clear", "restore"} => op[o].phase # "report"

\* The lease is held exactly from TakeLease to the marker.
LeaseInv(o) ==
    /\ lease = o <=> op[o].at \in LeasedPcs
    /\ op[o].at \in LeasedPcs => op[o].state = "running" /\ op[o].phase = "publishing" /\ Kind[o] # "backup"
    /\ op[o].at = "swept" => op[o].phase = "cleanup"

\* A staged artifact, and what a swept or torn staging is.
StageInv(o) ==
    /\ staging[o].state # "complete" => staging[o].store.epoch = 0 /\ ~staging[o].file
    /\ staging[o].file /\ Kind[o] # "backup" => staging[o].store.kind = "ok" /\ staging[o].store.epoch > 0
    /\ staging[o].file /\ Kind[o] = "migrate" =>
          /\ staging[o].store.facts = {1} /\ staging[o].store.hist = 1
          /\ ~Reinterprets => staging[o].store.epoch = 1

\* What the operation promised to keep is kept.
Kept(o) ==
    CASE o \in Keeps -> containers[Output[o]].by = o /\ containers[Output[o]].store = store
      [] Kind[o] = "restore" /\ Mode[o] = "unreadable" ->
            store.kind = "bad" /\ Quarantined(o)
      [] Kind[o] = "migrate" -> store.kind = "old"
      [] OTHER -> store.epoch = op[o].expect.epoch

\* From the check under the lease to the replacement.
ReadyInv(o) ==
    /\ op[o].at \in BeforeReplace /\ Kind[o] = "migrate" => store.kind # "ok"
    /\ op[o].at \in {"keep", "keeping"} => o \in Keeps
    /\ op[o].at \in {"quarantine", "copied"} =>
          o \notin Keeps /\ Kind[o] = "restore" /\ Mode[o] = "unreadable" /\ store.kind = "bad"
    /\ op[o].at = "copied" => quarantine[o].store = store
    /\ op[o].at = "safe" => Kept(o)
    /\ op[o].at \in BeforeReplace \ {"leased"} /\ Kind[o] # "migrate" =>
          ~(Verified(store) /\ store.epoch = staging[o].store.epoch)

\* An operation that has replaced the store, and a clear that sweeps.
DoneInv(o) ==
    /\ replaced[o] > 0 => /\ op[o].phase \in {"publishing", "reopening", "cleanup", "report"}
                          /\ Kind[o] # "backup" /\ store.kind = "ok"
    /\ store.kind = "none" => op[o].expect.epoch = 0
    /\ store.kind = "bad" /\ Kind[o] = "clear" => op[o].phase # "cleanup"

\* What a backup was asked to copy is in every copy of the same epoch.
BackupInv(o) ==
    /\ op[o].state = "new" => /\ op[o].phase = "preflight"
                             /\ staging[o].state # "complete" /\ containers[Output[o]].by # o
    /\ op[o].state = "succeeded" => ~op[o].cancel
    /\ op[o].state = "succeeded" /\ Kind[o] = "backup" => op[o].phase = "cleanup"
    /\ Kind[o] = "backup" /\ op[o].phase = "cleanup" /\ ~op[o].cancel => containers[Output[o]].by = o
    /\ store.epoch = op[o].expect.epoch => op[o].expect.facts \subseteq store.facts
    /\ Kind[o] = "backup" /\ staging[o].state = "complete" /\ staging[o].store.epoch = op[o].expect.epoch
          => op[o].expect.facts \subseteq staging[o].store.facts
    /\ Kind[o] = "backup" /\ containers[Output[o]].by = o /\ containers[Output[o]].store.epoch = op[o].expect.epoch
          => op[o].expect.facts \subseteq containers[Output[o]].store.facts

OpInv(o) == PhaseInv(o) /\ LeaseInv(o) /\ StageInv(o) /\ ReadyInv(o) /\ DoneInv(o) /\ BackupInv(o)

\* A staged store with an identity of its own.
Fresh(o) == staging[o].file /\ (Kind[o] \in {"clear", "restore"} \/ (Kind[o] = "migrate" /\ Reinterprets))

\* No identity is handed out twice.
FreshInv ==
    /\ store.epoch <= minted /\ minted >= 1
    /\ \A o \in Ops : op[o].expect.epoch <= minted /\ staging[o].store.epoch <= minted
    /\ \A o \in Ops : Fresh(o) => /\ staging[o].store.epoch # store.epoch
                                  /\ \A p \in Ops : staging[o].store.epoch # op[p].expect.epoch
                                  /\ \A p \in Ops : Fresh(p) /\ p # o => staging[p].store.epoch # staging[o].store.epoch

StoreInv == StoreTypeOK /\ LiveInv /\ FreshInv /\ \A o \in Ops : OpInv(o)

----------------------------------------------------------------------------
(* The words of the records                                                *)

LEMMA PcWords ==
    /\ "begin" \in Pcs \ LeasedPcs /\ "swept" \in Pcs \ LeasedPcs
    /\ BeforeReplace \subseteq LeasedPcs /\ LeasedPcs \subseteq Pcs
    /\ {"leased", "keep", "keeping", "quarantine", "copied", "safe"} = BeforeReplace
    /\ "replaced" \in LeasedPcs \ BeforeReplace
BY DEF Pcs, LeasedPcs, BeforeReplace

LEMMA StateWords == {"new", "running", "blocked", "succeeded", "cancelled"} = OpStates
BY DEF OpStates

\* The constant stores and stagings are of their types.
LEMMA EmptyRecords ==
    /\ NoStore \in StoreRecs /\ NoStore.kind = "none" /\ NoStore.epoch = 0 /\ NoStore.facts = {}
    /\ NoStage \in Stages /\ NoStage.state = "none" /\ NoStage.store = NoStore
    /\ ~NoStage.file /\ ~NoStage.marker
    /\ NoCopy \in Copies /\ NoCopy.state = "none"
    /\ NoContainer \in Conts /\ NoContainer.by = NoOp
<1>1. NoStore \in StoreRecs /\ NoStore.kind = "none" /\ NoStore.epoch = 0 /\ NoStore.facts = {}
  BY DEF NoStore, StoreRecs
<1>2. NoStage \in Stages /\ NoStage.state = "none" /\ NoStage.store = NoStore
      /\ ~NoStage.file /\ ~NoStage.marker
  BY <1>1 DEF NoStage, Stages
<1>3. NoCopy \in Copies /\ NoCopy.state = "none"
  BY <1>1 DEF NoCopy, Copies
<1>4. NoContainer \in Conts /\ NoContainer.by = NoOp
  BY <1>1 DEF NoContainer, Conts
<1> QED BY <1>1, <1>2, <1>3, <1>4

\* The stores the helper makes of other stores.
LEMMA HelperStores ==
    ASSUME minted \in Nat
    PROVE  /\ CreateEmpty \in StoreRecs /\ CreateEmpty.kind = "ok" /\ CreateEmpty.epoch = minted + 1
           /\ \A s \in StoreRecs :
                 /\ PrepareRestore(s) \in StoreRecs /\ PrepareRestore(s).kind = s.kind
                 /\ PrepareRestore(s).epoch = minted + 1
                 /\ Migrate(s) \in StoreRecs /\ Migrate(s).kind = "ok"
                 /\ Migrate(s).facts = s.facts /\ Migrate(s).hist = s.hist
                 /\ Migrate(s).epoch = IF Reinterprets THEN minted + 1 ELSE s.epoch
<1>1. CreateEmpty \in StoreRecs /\ CreateEmpty.kind = "ok" /\ CreateEmpty.epoch = minted + 1
  BY DEF CreateEmpty, StoreRecs
<1>2. ASSUME NEW s \in StoreRecs
      PROVE  /\ PrepareRestore(s) \in StoreRecs /\ PrepareRestore(s).kind = s.kind
             /\ PrepareRestore(s).epoch = minted + 1
  BY DEF PrepareRestore, StoreRecs
<1>3. ASSUME NEW s \in StoreRecs
      PROVE  /\ Migrate(s) \in StoreRecs /\ Migrate(s).kind = "ok"
             /\ Migrate(s).facts = s.facts /\ Migrate(s).hist = s.hist
             /\ Migrate(s).epoch = IF Reinterprets THEN minted + 1 ELSE s.epoch
  <2> DEFINE e == IF Reinterprets THEN minted + 1 ELSE s.epoch
  <2>1. Migrate(s) = [s EXCEPT !.kind = "ok", !.epoch = e] BY Zenon DEF Migrate
  <2>2. e \in Nat BY DEF StoreRecs
  <2> HIDE DEF e
  <2>3. /\ Migrate(s) \in StoreRecs /\ Migrate(s).kind = "ok"
        /\ Migrate(s).facts = s.facts /\ Migrate(s).hist = s.hist
        /\ Migrate(s).epoch = e
    BY <2>1, <2>2 DEF StoreRecs
  <2> QED BY <2>3 DEF e
<1> QED BY <1>1, <1>2, <1>3

\* The phase after each phase.
LEMMA NextPhases ==
    ASSUME StoreTypeOK, NEW o \in Ops, PhaseInv(o)
    PROVE  /\ op[o].phase = "preflight" /\ Kind[o] = "backup" => NextPhase(o) = "staging"
           /\ op[o].phase = "preflight" /\ Kind[o] # "backup" => NextPhase(o) = "quiesce"
           /\ op[o].phase = "quiesce" => NextPhase(o) = "staging"
           /\ op[o].phase = "staging" => NextPhase(o) = "publishing"
           /\ op[o].phase = "publishing" /\ Kind[o] = "backup" => NextPhase(o) = "cleanup"
           /\ op[o].phase = "publishing" /\ Kind[o] # "backup" => NextPhase(o) = "reopening"
           /\ op[o].phase = "reopening" /\ Kind[o] = "migrate" => NextPhase(o) = "report"
           /\ op[o].phase = "reopening" /\ Kind[o] # "migrate" => NextPhase(o) = "cleanup"
<1> DEFINE i == CHOOSE i \in DOMAIN Phases(o) : Phases(o)[i] = op[o].phase
<1>0. NextPhase(o) = Phases(o)[i + 1] BY DEF NextPhase
<1>1. CASE Kind[o] = "backup"
  <2>1. Phases(o) = <<"preflight", "staging", "publishing", "cleanup">> BY <1>1 DEF Phases
  <2> DEFINE P == <<"preflight", "staging", "publishing", "cleanup">>
  <2>2. DOMAIN P = 1..4 /\ P[1] = "preflight" /\ P[2] = "staging" /\ P[3] = "publishing" /\ P[4] = "cleanup"
    OBVIOUS
  <2>3. op[o].phase \in {"preflight", "staging", "publishing", "cleanup"} BY <1>1 DEF PhaseInv
  <2> HIDE DEF P
  <2>4. \E k \in DOMAIN P : P[k] = op[o].phase BY <2>2, <2>3
  <2>5. i \in DOMAIN P /\ P[i] = op[o].phase BY <2>1, <2>4 DEF P
  <2> HIDE DEF i
  <2>6. i \in {1, 2, 3, 4} BY <2>2, <2>5
  <2>7. NextPhase(o) = P[i + 1] BY <1>0, <2>1 DEF P
  <2> QED BY <1>1, <2>2, <2>3, <2>5, <2>6, <2>7
<1>2. CASE Kind[o] = "migrate"
  <2> DEFINE P == <<"preflight", "quiesce", "staging", "publishing", "reopening", "report">>
  <2>1. Phases(o) = P BY <1>2 DEF Phases
  <2>2. DOMAIN P = 1..6 /\ P[1] = "preflight" /\ P[2] = "quiesce" /\ P[3] = "staging"
        /\ P[4] = "publishing" /\ P[5] = "reopening" /\ P[6] = "report"
    OBVIOUS
  <2>3. op[o].phase \in PhaseNames \ {"cleanup"} BY <1>2 DEF PhaseInv, StoreTypeOK, OpRecs
  <2> HIDE DEF P
  <2>4. \E k \in DOMAIN P : P[k] = op[o].phase BY <2>2, <2>3 DEF PhaseNames
  <2>5. i \in DOMAIN P /\ P[i] = op[o].phase BY <2>1, <2>4
  <2> HIDE DEF i
  <2>6. i \in {1, 2, 3, 4, 5, 6} BY <2>2, <2>5
  <2>7. NextPhase(o) = P[i + 1] BY <1>0, <2>1
  <2> QED BY <1>2, <2>2, <2>5, <2>6, <2>7
<1>3. CASE Kind[o] \in {"clear", "restore"}
  <2> DEFINE P == <<"preflight", "quiesce", "staging", "publishing", "reopening", "cleanup">>
  <2>1. Phases(o) = P BY <1>3 DEF Phases
  <2>2. DOMAIN P = 1..6 /\ P[1] = "preflight" /\ P[2] = "quiesce" /\ P[3] = "staging"
        /\ P[4] = "publishing" /\ P[5] = "reopening" /\ P[6] = "cleanup"
    OBVIOUS
  <2>3. op[o].phase \in PhaseNames \ {"report"} BY <1>3 DEF PhaseInv, StoreTypeOK, OpRecs
  <2> HIDE DEF P
  <2>4. \E k \in DOMAIN P : P[k] = op[o].phase BY <2>2, <2>3 DEF PhaseNames
  <2>5. i \in DOMAIN P /\ P[i] = op[o].phase BY <2>1, <2>4
  <2> HIDE DEF i
  <2>6. i \in {1, 2, 3, 4, 5, 6} BY <2>2, <2>5
  <2>7. NextPhase(o) = P[i + 1] BY <1>0, <2>1
  <2> QED BY <1>3, <2>2, <2>5, <2>6, <2>7
<1> QED BY <1>1, <1>2, <1>3, OperationShape

LEMMA PhaseIsPhase ==
    ASSUME StoreTypeOK, NEW o \in Ops, PhaseInv(o), op[o].phase \notin {"cleanup", "report"}
    PROVE  NextPhase(o) \in PhaseNames
BY NextPhases DEF PhaseNames, StoreTypeOK, OpRecs

\* What the record of o becomes, and that the other records stay.
OpBecomes(o, state, phase, at, expect, cancel) ==
    /\ op' \in [Ops -> OpRecs]
    /\ op'[o].state = state /\ op'[o].phase = phase /\ op'[o].at = at
    /\ op'[o].expect = expect /\ op'[o].cancel = cancel
    /\ \A q \in Ops \ {o} : op'[q] = op[q]

LEMMA AtEffect ==
    ASSUME StoreTypeOK, NEW o \in Ops, NEW w \in Pcs, At(o, w)
    PROVE  OpBecomes(o, op[o].state, op[o].phase, w, op[o].expect, op[o].cancel)
BY DEF StoreTypeOK, At, OpBecomes, OpRecs

LEMMA BlockEffect ==
    ASSUME StoreTypeOK, NEW o \in Ops, Block(o)
    PROVE  OpBecomes(o, "blocked", op[o].phase, "begin", op[o].expect, op[o].cancel)
BY PcWords, StateWords DEF StoreTypeOK, Block, OpBecomes, OpRecs

LEMMA AdvanceEffect ==
    ASSUME StoreTypeOK, NEW o \in Ops, PhaseInv(o), op[o].phase \notin {"cleanup", "report"}, Advance(o)
    PROVE  OpBecomes(o, op[o].state, NextPhase(o), "begin", op[o].expect, op[o].cancel)
BY PcWords, PhaseIsPhase DEF StoreTypeOK, Advance, OpBecomes, OpRecs

----------------------------------------------------------------------------
(* What a step leaves alone                                                *)

\* A staging that was swept or torn.
Swept(s) == s.state # "complete" /\ ~s.file /\ s.store.epoch = 0

\* A complete copy that a purge has taken.
WasPurged(o) == /\ quarantine[o].state = "kept" /\ quarantine'[o].state = "purged"
                /\ quarantine'[o].store = quarantine[o].store

\* What the steps of other operations, and a purge, do to o's part of the state.
Undisturbed(o) ==
    /\ op'[o] = op[o] /\ replaced'[o] = replaced[o] /\ (lease' = o <=> lease = o)
    /\ staging'[o] = staging[o] \/ Swept(staging'[o])
    /\ \/ containers'[Output[o]] = containers[Output[o]]
       \/ containers[Output[o]].by = NoOp /\ containers'[Output[o]].by # o
    /\ quarantine'[o] = quarantine[o] \/ WasPurged(o) \/ store.kind # "bad" \/ op[o].state # "running"

LEMMA OtherKeeps ==
    ASSUME StoreTypeOK, LiveInv, NEW o \in Ops, OpInv(o), store' = store, Undisturbed(o)
    PROVE  OpInv(o)'
<1>1. PhaseInv(o)' BY DEF OpInv, PhaseInv, Undisturbed
<1>2. LeaseInv(o)' BY DEF OpInv, LeaseInv, Undisturbed
<1>3. StageInv(o)' BY DEF OpInv, StageInv, Undisturbed, Swept
<1>4. DoneInv(o)' BY DEF OpInv, DoneInv, Undisturbed
<1>5. BackupInv(o)'
  BY OperationShape DEF OpInv, BackupInv, Undisturbed, Swept
<1>6. ReadyInv(o)'
  <2>1. op[o].at = "safe" => Kept(o)'
    <3> SUFFICES ASSUME op[o].at = "safe" PROVE Kept(o)' OBVIOUS
    <3>1. Kept(o) /\ op[o].state = "running"
      BY PcWords DEF OpInv, ReadyInv, LeaseInv
    <3>2. CASE o \in Keeps
      BY <3>1, <3>2, OperationShape DEF Kept, Undisturbed
    <3>3. CASE o \notin Keeps
      <4>1. store.kind = "bad" /\ Quarantined(o) => Quarantined(o)'
        BY <3>1 DEF Quarantined, Undisturbed, WasPurged
      <4> QED BY <3>1, <3>3, <4>1 DEF Kept, Undisturbed
    <3> QED BY <3>2, <3>3
  <2>2. op[o].at = "copied" => quarantine'[o].store = store
    BY PcWords DEF OpInv, ReadyInv, LeaseInv, Undisturbed, WasPurged
  <2>3. op[o].at \in BeforeReplace \ {"leased"} /\ Kind[o] # "migrate" =>
          ~(Verified(store) /\ store.epoch = staging'[o].store.epoch)
    BY DEF OpInv, ReadyInv, Undisturbed, Swept, LiveInv
  <2> QED BY <2>1, <2>2, <2>3 DEF OpInv, ReadyInv, Undisturbed, Verified
<1> QED BY <1>1, <1>2, <1>3, <1>4, <1>5, <1>6 DEF OpInv

\* The steps of o that end outside the lease.
Late == {"publishing", "reopening", "cleanup", "report"}
Rests(o) ==
    /\ op'[o].at \in {"begin", "swept"} /\ lease' # o
    /\ op'[o].at = "swept" => op'[o].phase = "cleanup"
    /\ op'[o].state # "new" /\ op'[o].expect = op[o].expect /\ replaced'[o] = replaced[o]
    /\ replaced[o] > 0 => op'[o].phase \in Late
    /\ store.kind = "bad" /\ Kind[o] = "clear" => op'[o].phase # "cleanup"
    /\ op'[o].state = "succeeded" => ~op'[o].cancel /\ (Kind[o] = "backup" => op'[o].phase = "cleanup")
    /\ Kind[o] = "backup" /\ op'[o].phase = "cleanup" /\ ~op'[o].cancel => containers'[Output[o]].by = o

\* Its staging keeps its artifact or is swept.
StageKeeps(o) ==
    \/ staging'[o].state = staging[o].state /\ staging'[o].store = staging[o].store
       /\ staging'[o].file = staging[o].file
    \/ Swept(staging'[o])

LEMMA RestKeeps ==
    ASSUME StoreTypeOK, NEW o \in Ops, OpInv(o), store' = store, Rests(o), PhaseInv(o)',
           StageKeeps(o),
           containers'[Output[o]] = containers[Output[o]]
    PROVE  OpInv(o)'
<1>1. op'[o].at \notin LeasedPcs BY PcWords DEF Rests
<1>2. LeaseInv(o)' BY <1>1 DEF LeaseInv, Rests
<1>3. StageInv(o)' BY DEF OpInv, StageInv, StageKeeps, Swept
<1>4. DoneInv(o)' BY DEF OpInv, DoneInv, Rests, Late
<1>5. BackupInv(o)' BY DEF OpInv, BackupInv, Rests, StageKeeps, Swept
<1>6. ReadyInv(o)' BY <1>1, PcWords DEF ReadyInv
<1> QED BY <1>2, <1>3, <1>4, <1>5, <1>6 DEF OpInv

\* A step that neither replaces the store nor stages anything hands out no identity.
LEMMA FreshKeeps ==
    ASSUME StoreTypeOK, FreshInv, store' = store, minted' = minted,
           \A q \in Ops : op'[q].expect \in {op[q].expect, store},
           \A q \in Ops : \/ staging'[q].store = staging[q].store /\ (staging'[q].file => staging[q].file)
                          \/ Swept(staging'[q])
    PROVE  FreshInv'
<1>1. \A q \in Ops : Fresh(q)' => Fresh(q) /\ staging'[q].store = staging[q].store
  BY DEF Fresh, Swept
<1>2. \A q \in Ops : op'[q].expect.epoch <= minted /\ staging'[q].store.epoch <= minted
  BY DEF FreshInv, Swept, StoreTypeOK
<1>3. store'.epoch <= minted' /\ minted' >= 1 BY DEF FreshInv
<1>4. ASSUME NEW q \in Ops, Fresh(q)'
      PROVE  /\ staging'[q].store.epoch # store'.epoch
             /\ \A p \in Ops : staging'[q].store.epoch # op'[p].expect.epoch
             /\ \A p \in Ops : Fresh(p)' /\ p # q => staging'[p].store.epoch # staging'[q].store.epoch
  BY <1>1, <1>4 DEF FreshInv
<1> QED BY <1>2, <1>3, <1>4 DEF FreshInv

\* Only o takes part.
LEMMA QuietStep ==
    ASSUME StoreInv, StoreTypeOK', NEW o \in Ops, store' = store, minted' = minted,
           op'[o].expect \in {op[o].expect, store},
           \/ staging'[o].store = staging[o].store /\ (staging'[o].file => staging[o].file)
           \/ Swept(staging'[o]),
           \A q \in Ops \ {o} : Undisturbed(q),
           OpInv(o)'
    PROVE  StoreInv'
<1>1. LiveInv' BY DEF StoreInv, LiveInv, Verified
<1>2. FreshInv'
  <2>1. \A q \in Ops : op'[q].expect \in {op[q].expect, store} BY DEF Undisturbed
  <2>2. \A q \in Ops : \/ staging'[q].store = staging[q].store /\ (staging'[q].file => staging[q].file)
                       \/ Swept(staging'[q])
    BY DEF Undisturbed
  <2> QED BY <2>1, <2>2, FreshKeeps DEF StoreInv
<1>3. \A q \in Ops : OpInv(q)'
  BY OtherKeeps DEF StoreInv
<1> QED BY <1>1, <1>2, <1>3 DEF StoreInv

\* A step that changes only o's record, and the lease only from or to o.
LEMMA RecordStep ==
    ASSUME StoreInv, NEW o \in Ops, NEW state, NEW phase, NEW at, NEW cancel,
           OpBecomes(o, state, phase, at, op[o].expect, cancel), Rests(o), PhaseInv(o)',
           UNCHANGED <<store, staging, containers, quarantine, minted, derived, replaced>>,
           lease' \in Ops \cup {NoOp}, budget' \in Budgets,
           lease' = lease \/ (lease = o /\ lease' = NoOp)
    PROVE  StoreInv'
<1>1. StoreTypeOK' BY DEF StoreInv, StoreTypeOK, OpBecomes
<1>2. \A q \in Ops \ {o} : Undisturbed(q)
  BY OperationShape DEF Undisturbed, OpBecomes
<1>3. OpInv(o)' BY RestKeeps DEF StoreInv, StageKeeps
<1> QED BY <1>1, <1>2, <1>3, QuietStep DEF OpBecomes

----------------------------------------------------------------------------
(* Blocking, advancing, and the steps that change only the record          *)

LEMMA BlockRests ==
    ASSUME StoreTypeOK, NEW o \in Ops, OpInv(o), Block(o), lease' # o, replaced' = replaced,
           containers'[Output[o]] = containers[Output[o]]
    PROVE  Rests(o) /\ PhaseInv(o)'
<1>1. OpBecomes(o, "blocked", op[o].phase, "begin", op[o].expect, op[o].cancel) BY BlockEffect
<1> QED BY <1>1 DEF OpBecomes, Rests, Late, OpInv, PhaseInv, DoneInv, BackupInv

\* An operation advances from a phase whose successor its kind has.
LEMMA AdvanceRests ==
    ASSUME StoreTypeOK, NEW o \in Ops, OpInv(o), Advance(o), lease' # o, replaced' = replaced,
           op[o].state = "running", op[o].phase \notin {"cleanup", "report"},
           op[o].phase = "quiesce" \/ op[o].phase = "reopening" => Kind[o] # "backup",
           op[o].phase = "reopening" /\ Kind[o] = "clear" => store.kind # "bad",
           op[o].phase = "publishing" /\ Kind[o] = "backup" => containers'[Output[o]].by = o
    PROVE  Rests(o) /\ PhaseInv(o)'
<1>1. OpBecomes(o, op[o].state, NextPhase(o), "begin", op[o].expect, op[o].cancel)
  BY AdvanceEffect DEF OpInv
<1>2. op[o].phase \in {"preflight", "quiesce", "staging", "publishing", "reopening"}
  BY DEF StoreTypeOK, OpRecs, PhaseNames
<1>3. PhaseInv(o)' BY <1>1, <1>2, NextPhases DEF OpBecomes, OpInv, PhaseInv
<1>4. NextPhase(o) # "preflight" /\ (replaced[o] > 0 => NextPhase(o) \in Late)
  BY <1>2, NextPhases DEF OpInv, DoneInv, Late
<1>5. NextPhase(o) = "cleanup" =>
        \/ op[o].phase = "publishing" /\ Kind[o] = "backup"
        \/ op[o].phase = "reopening" /\ Kind[o] # "migrate"
  BY <1>2, NextPhases DEF OpInv
<1> QED BY <1>1, <1>3, <1>4, <1>5 DEF OpBecomes, Rests

\* Outside the lease's program points the lease is somebody else's or nobody's.
LEMMA NotLeased ==
    ASSUME StoreInv, NEW o \in Ops, op[o].at \in {"begin", "swept"}
    PROVE  lease # o
BY PcWords DEF StoreInv, OpInv, LeaseInv

LEMMA BlockStep ==
    ASSUME StoreInv, NEW o \in Ops, Block(o), lease' = IF lease = o THEN NoOp ELSE lease,
           UNCHANGED <<store, staging, containers, quarantine, minted, derived, replaced>>,
           budget' \in Budgets
    PROVE  StoreInv'
<1>1. OpBecomes(o, "blocked", op[o].phase, "begin", op[o].expect, op[o].cancel)
  BY BlockEffect DEF StoreInv
<1>2. lease' # o /\ lease' \in Ops \cup {NoOp} BY OperationShape DEF StoreInv, StoreTypeOK
<1>3. Rests(o) /\ PhaseInv(o)' BY <1>2, BlockRests DEF StoreInv
<1> QED BY <1>1, <1>2, <1>3, RecordStep

LEMMA AdvanceStep ==
    ASSUME StoreInv, NEW o \in Ops, Advance(o), op[o].at = "begin",
           op[o].state = "running", op[o].phase \notin {"cleanup", "report"},
           op[o].phase = "quiesce" \/ op[o].phase = "reopening" => Kind[o] # "backup",
           op[o].phase = "reopening" /\ Kind[o] = "clear" => store.kind # "bad",
           op[o].phase = "publishing" /\ Kind[o] = "backup" => containers[Output[o]].by = o,
           UNCHANGED <<store, staging, containers, quarantine, minted, derived, replaced, lease, budget>>
    PROVE  StoreInv'
<1>1. OpBecomes(o, op[o].state, NextPhase(o), "begin", op[o].expect, op[o].cancel)
  BY AdvanceEffect DEF StoreInv, OpInv
<1>2. lease' # o /\ lease' \in Ops \cup {NoOp} BY NotLeased DEF StoreInv, StoreTypeOK
<1>3. Rests(o) /\ PhaseInv(o)' BY <1>2, AdvanceRests DEF StoreInv
<1> QED BY <1>1, <1>2, <1>3, RecordStep DEF StoreInv, StoreTypeOK

\* An operation's phases are those of its kind.
LEMMA PhaseKinds ==
    ASSUME StoreInv, NEW o \in Ops
    PROVE  /\ op[o].phase \in {"quiesce", "reopening"} => Kind[o] # "backup"
           /\ op[o].phase = "cleanup" => Kind[o] # "migrate"
           /\ op[o].phase = "report" => Kind[o] = "migrate"
BY OperationShape DEF StoreInv, OpInv, PhaseInv

LEMMA PreflightKeeps == ASSUME StoreInv, NEW o \in Ops, Preflight(o) PROVE StoreInv'
<1>1. lease # o BY NotLeased DEF Preflight, Running
<1>2. CASE Block(o) BY <1>1, <1>2, BlockStep DEF Preflight, files, StoreInv, StoreTypeOK
<1>3. CASE Advance(o) BY <1>3, AdvanceStep DEF Preflight, Running, files
<1> QED BY <1>2, <1>3 DEF Preflight

LEMMA WaitForQuiesceKeeps == ASSUME StoreInv, NEW o \in Ops, WaitForQuiesce(o) PROVE StoreInv'
<1>1. lease # o BY NotLeased DEF WaitForQuiesce, Running
<1>2. CASE Block(o) BY <1>1, <1>2, BlockStep DEF WaitForQuiesce, files, StoreInv, StoreTypeOK
<1>3. CASE Advance(o) BY <1>3, AdvanceStep, PhaseKinds DEF WaitForQuiesce, Running, files
<1> QED BY <1>2, <1>3 DEF WaitForQuiesce

LEMMA PublishNothingKeeps == ASSUME StoreInv, NEW o \in Ops, PublishNothing(o) PROVE StoreInv'
<1>1. lease # o BY NotLeased DEF PublishNothing, Running
<1>2. CASE Block(o) BY <1>1, <1>2, BlockStep DEF PublishNothing, files, StoreInv, StoreTypeOK
<1>3. CASE Advance(o) BY <1>3, AdvanceStep DEF PublishNothing, Running, files
<1> QED BY <1>2, <1>3 DEF PublishNothing

LEMMA CrashKeeps == ASSUME StoreInv, NEW o \in Ops, Crash(o) PROVE StoreInv'
<1>1. budget' \in Budgets BY DEF Crash, StoreInv, StoreTypeOK, Budgets
<1> QED BY <1>1, BlockStep DEF Crash, files

LEMMA RetryKeeps == ASSUME StoreInv, NEW o \in Ops, Retry(o) PROVE StoreInv'
<1>1. budget' \in Budgets BY DEF Retry, StoreInv, StoreTypeOK, Budgets
<1>2. OpBecomes(o, "running", op[o].phase, op[o].at, op[o].expect, op[o].cancel)
  BY StateWords DEF Retry, OpBecomes, StoreInv, StoreTypeOK, OpRecs
<1>3. op[o].at \in Pcs \ LeasedPcs
  BY DEF Retry, StoreInv, OpInv, LeaseInv, StoreTypeOK, OpRecs
<1>4. op[o].at \in {"begin", "swept"} BY <1>3 DEF Pcs
<1>5. Rests(o) /\ PhaseInv(o)'
  BY <1>2, <1>4, NotLeased DEF Retry, files, OpBecomes, Rests, Late, StoreInv, OpInv, PhaseInv, DoneInv, BackupInv, LeaseInv
<1> QED BY <1>1, <1>2, <1>5, RecordStep DEF Retry, files, StoreInv, StoreTypeOK

LEMMA CancelKeeps == ASSUME StoreInv, NEW o \in Ops, Cancel(o) PROVE StoreInv'
<1> DEFINE phase == IF Kind[o] = "backup" THEN "cleanup" ELSE "reopening"
<1>1. phase \in PhaseNames BY DEF PhaseNames
<1>2. OpBecomes(o, "running", phase, "begin", op[o].expect, TRUE)
  <2>1. op' = [op EXCEPT ![o].cancel = TRUE, ![o].phase = phase] BY Zenon DEF Cancel
  <2> HIDE DEF phase
  <2> QED BY <1>1, <2>1 DEF Cancel, OpBecomes, StoreInv, StoreTypeOK, OpRecs
<1>3. ~(replaced[o] > 0) BY DEF Cancel, StoreInv, OpInv, DoneInv
<1>4. lease # o BY NotLeased DEF Cancel
<1>5. Rests(o) /\ PhaseInv(o)'
  BY <1>2, <1>3, <1>4 DEF Cancel, files, OpBecomes, Rests, PhaseInv
<1> HIDE DEF phase
<1> QED BY <1>2, <1>5, RecordStep DEF Cancel, files, StoreInv, StoreTypeOK

LEMMA ReportKeeps == ASSUME StoreInv, NEW o \in Ops, Report(o) PROVE StoreInv'
<1> DEFINE state == IF op[o].cancel THEN "cancelled" ELSE "succeeded"
           result == IF Kind[o] = "migrate" THEN "migrated" ELSE op[o].result
<1>1. state \in OpStates /\ result \in Results BY DEF StoreInv, StoreTypeOK, OpRecs, OpStates, Results
<1>2. op[o].phase \in {"cleanup", "report"} /\ op[o].at \in {"begin", "swept"} BY DEF Report, Running
<1>3. OpBecomes(o, state, op[o].phase, "begin", op[o].expect, op[o].cancel)
  <2>1. op' = [op EXCEPT ![o].state = state, ![o].at = "begin", ![o].result = result]
    BY Zenon DEF Report
  <2> HIDE DEF state, result
  <2> QED BY <1>1, <2>1, PcWords DEF OpBecomes, StoreInv, StoreTypeOK, OpRecs
<1>4. lease # o BY <1>2, NotLeased
<1>5. state # "new" /\ (state = "succeeded" => ~op[o].cancel) OBVIOUS
<1> HIDE DEF state, result
<1>6. Rests(o) /\ PhaseInv(o)'
  BY <1>2, <1>3, <1>4, <1>5, PhaseKinds DEF Report, files, OpBecomes, Rests, Late, StoreInv, OpInv, PhaseInv, DoneInv, BackupInv
<1> QED BY <1>3, <1>6, RecordStep DEF Report, files, StoreInv, StoreTypeOK

----------------------------------------------------------------------------
(* The steps under the lease                                               *)

\* A step of the lease's holder that stays under the lease and leaves the store.
LEMMA LeasedStep ==
    ASSUME StoreInv, NEW o \in Ops, NEW at \in LeasedPcs,
           op[o].state = "running", op[o].phase = "publishing", Kind[o] # "backup",
           At(o, at), lease = o \/ lease = NoOp, lease' = o,
           staging'[o].state = staging[o].state, staging'[o].store = staging[o].store,
           staging'[o].file = staging[o].file, staging' \in [Ops -> Stages],
           \A q \in Ops \ {o} : staging'[q] = staging[q],
           quarantine' \in [Ops -> Copies], \A q \in Ops \ {o} : quarantine'[q] = quarantine[q],
           containers' \in [Paths -> Conts],
           \A p \in Paths : \/ containers'[p] = containers[p]
                            \/ containers[p].by = NoOp /\ containers'[p].by = o,
           UNCHANGED <<store, minted, derived, replaced, budget>>,
           ReadyInv(o)'
    PROVE  StoreInv'
<1>1. OpBecomes(o, "running", "publishing", at, op[o].expect, op[o].cancel)
  BY AtEffect, PcWords DEF StoreInv
<1>2. StoreTypeOK' BY <1>1 DEF StoreInv, StoreTypeOK, OpBecomes
<1>3. \A q \in Ops \ {o} : Undisturbed(q)
  BY <1>1, OperationShape DEF Undisturbed, OpBecomes
<1>4. OpInv(o)'
  <2>1. PhaseInv(o)' BY <1>1 DEF StoreInv, OpInv, PhaseInv, OpBecomes
  <2>2. LeaseInv(o)' BY <1>1, PcWords DEF LeaseInv, OpBecomes
  <2>3. StageInv(o)' BY DEF StoreInv, OpInv, StageInv
  <2>4. DoneInv(o)' BY <1>1 DEF StoreInv, OpInv, DoneInv, OpBecomes
  <2>5. BackupInv(o)' BY <1>1 DEF StoreInv, OpInv, BackupInv, OpBecomes
  <2> QED BY <2>1, <2>2, <2>3, <2>4, <2>5 DEF OpInv
<1> QED BY <1>1, <1>2, <1>3, <1>4, QuietStep DEF OpBecomes

\* The same without a change to the files.
LEMMA LeasedMove ==
    ASSUME StoreInv, NEW o \in Ops, NEW at \in LeasedPcs,
           op[o].state = "running", op[o].phase = "publishing", Kind[o] # "backup",
           At(o, at), lease = o \/ lease = NoOp, lease' = o,
           UNCHANGED <<files, minted, derived, replaced, budget>>,
           ReadyInv(o)'
    PROVE  StoreInv'
<1>1. UNCHANGED <<store, staging, containers, quarantine>> BY DEF files
<1> QED BY <1>1, LeasedStep DEF StoreInv, StoreTypeOK

LEMMA TakeLeaseKeeps == ASSUME StoreInv, NEW o \in Ops, TakeLease(o) PROVE StoreInv'
<1>1. CASE lease # NoOp
  <2>1. lease # o BY NotLeased DEF TakeLease, Running
  <2> QED BY <1>1, <2>1, BlockStep DEF TakeLease, files, StoreInv, StoreTypeOK
<1>2. CASE lease = NoOp
  <2>1. OpBecomes(o, "running", "publishing", "leased", op[o].expect, op[o].cancel)
    BY <1>2, AtEffect, PcWords DEF StoreInv, TakeLease, Running
  <2>2. Kind[o] = "migrate" => store.kind # "ok"
    BY DEF TakeLease, NothingStaged, MigrateDisposition, Schema
  <2>3. ReadyInv(o)' BY <2>1, <2>2 DEF ReadyInv, OpBecomes, BeforeReplace, TakeLease, files
  <2>4. "leased" \in LeasedPcs BY PcWords
  <2> QED BY <1>2, <2>3, <2>4, LeasedMove DEF TakeLease, Running
<1> QED BY <1>1, <1>2

\* Giving the lease up, blocked.
LEMMA AbortStep ==
    ASSUME StoreInv, NEW o \in Ops, lease = o, Abort(o),
           UNCHANGED <<store, staging, containers, quarantine, minted, derived, replaced, budget>>
    PROVE  StoreInv'
BY BlockStep DEF Abort, StoreInv, StoreTypeOK

\* The holder of the lease is running, in its publishing phase and no backup.
LEMMA Holder ==
    ASSUME StoreInv, NEW o \in Ops, op[o].at \in LeasedPcs
    PROVE  /\ lease = o /\ op[o].state = "running" /\ op[o].phase = "publishing"
           /\ Kind[o] \in {"clear", "restore", "migrate"}
BY OperationShape DEF StoreInv, OpInv, LeaseInv

\* What the check under the lease finds.
LEMMA CheckFinds ==
    ASSUME StoreInv, NEW o \in Ops, op[o].at = "leased", MayReplace(o), ~AlreadyPublished(o)
    PROVE  /\ o \notin Keeps /\ ~(Kind[o] = "restore" /\ Mode[o] = "unreadable") => Kept(o)
           /\ Kind[o] = "restore" /\ Mode[o] = "unreadable" => o \notin Keeps /\ store.kind = "bad"
           /\ Kind[o] # "migrate" => ~(Verified(store) /\ store.epoch = staging[o].store.epoch)
           /\ Kind[o] = "migrate" => store.kind # "ok" /\ o \notin Keeps
<1>0. Kind[o] \in {"clear", "restore", "migrate"} BY Holder, PcWords
<1>1. CASE Kind[o] = "clear"
  <2>1. ClearMayReplace(o) BY <1>1 DEF MayReplace
  <2>2. store.epoch = op[o].expect.epoch
    BY <2>1, EmptyRecords DEF ClearMayReplace, StoreInv, LiveInv
  <2> QED BY <1>1, <2>2, OperationShape DEF Kept, AlreadyPublished
<1>2. CASE Kind[o] = "migrate"
  <2>1. MigrateMayReplace(o) BY <1>2 DEF MayReplace
  <2>2. store.kind = "old" BY <2>1 DEF MigrateMayReplace, Schema, StoreInv, StoreTypeOK, StoreRecs
  <2> QED BY <1>2, <2>2, OperationShape DEF Kept
<1>3. CASE Kind[o] = "restore" /\ Mode[o] = "healthy"
  <2>1. HealthyMayReplace(o) BY <1>3 DEF MayReplace
  <2> QED BY <1>3, <2>1 DEF HealthyMayReplace, Kept, AlreadyPublished
<1>4. CASE Kind[o] = "restore" /\ Mode[o] = "unreadable"
  <2>1. UnreadableMayReplace(o) BY <1>4 DEF MayReplace
  <2> QED BY <1>4, <2>1, OperationShape DEF UnreadableMayReplace, AlreadyPublished
<1>5. CASE Kind[o] = "restore" /\ Mode[o] = "no-store"
  <2>1. store.kind = "none" BY <1>5 DEF MayReplace
  <2>2. store.epoch = op[o].expect.epoch BY <2>1 DEF StoreInv, LiveInv, OpInv, DoneInv
  <2> QED BY <1>5, <2>1, <2>2 DEF Kept, AlreadyPublished
<1> QED BY <1>0, <1>1, <1>2, <1>3, <1>4, <1>5, OperationShape

LEMMA PublishCheckKeeps == ASSUME StoreInv, NEW o \in Ops, PublishCheck(o) PROVE StoreInv'
<1>0. op[o].at = "leased" /\ lease = o BY DEF PublishCheck, Running
<1>1. op[o].state = "running" /\ op[o].phase = "publishing" /\ Kind[o] # "backup"
  BY <1>0, Holder, PcWords
<1>2. CASE AlreadyPublished(o)
  <2>1. At(o, "replaced") /\ lease' = o BY <1>0, <1>2 DEF PublishCheck
  <2>2. "replaced" \in LeasedPcs \ BeforeReplace BY PcWords
  <2>3. op'[o].at = "replaced" BY <2>1, <2>2, AtEffect, PcWords DEF StoreInv, OpBecomes
  <2>4. ReadyInv(o)' BY <2>2, <2>3 DEF ReadyInv, BeforeReplace
  <2> QED BY <1>0, <1>1, <2>1, <2>2, <2>4, LeasedMove DEF PublishCheck
<1>3. CASE ~AlreadyPublished(o) /\ ~MayReplace(o)
  <2>1. Abort(o) BY <1>3 DEF PublishCheck
  <2> QED BY <1>0, <2>1, AbortStep DEF PublishCheck, files
<1>4. CASE ~AlreadyPublished(o) /\ MayReplace(o)
  <2> DEFINE unread == Kind[o] = "restore" /\ Mode[o] = "unreadable"
             at == IF o \in Keeps THEN "keep" ELSE IF unread THEN "quarantine" ELSE "safe"
  <2>1. At(o, at) /\ lease' = o BY <1>0, <1>4 DEF PublishCheck
  <2>2. at \in LeasedPcs BY PcWords
  <2>3. OpBecomes(o, op[o].state, op[o].phase, at, op[o].expect, op[o].cancel)
    BY <2>1, <2>2, AtEffect, PcWords DEF StoreInv
  <2>4. Kept(o)' <=> Kept(o) BY <2>3 DEF Kept, PublishCheck, files, OpBecomes
  <2>5. ReadyInv(o)'
    BY <1>0, <1>4, <2>3, <2>4, CheckFinds DEF ReadyInv, PublishCheck, files, OpBecomes, Verified
  <2> HIDE DEF at
  <2> QED BY <1>0, <1>1, <2>1, <2>2, <2>5, LeasedMove DEF PublishCheck
<1> QED BY <1>2, <1>3, <1>4

\* The flags of a staging do not touch its artifact.
LEMMA StageFlags ==
    ASSUME NEW s \in Stages, NEW b \in BOOLEAN
    PROVE  /\ [s EXCEPT !.keep = b] \in Stages /\ [s EXCEPT !.keep = b].state = s.state
           /\ [s EXCEPT !.keep = b].store = s.store /\ [s EXCEPT !.keep = b].file = s.file
           /\ [s EXCEPT !.marker = b] \in Stages /\ [s EXCEPT !.marker = b].state = s.state
           /\ [s EXCEPT !.marker = b].store = s.store /\ [s EXCEPT !.marker = b].file = s.file
           /\ [s EXCEPT !.file = b] \in Stages /\ [s EXCEPT !.file = b].state = s.state
           /\ [s EXCEPT !.file = b].store = s.store /\ [s EXCEPT !.file = b].file = b
BY DEF Stages

LEMMA SnapshotCurrentKeeps == ASSUME StoreInv, NEW o \in Ops, SnapshotCurrent(o) PROVE StoreInv'
<1>0. op[o].at = "keep" BY DEF SnapshotCurrent, Running
<1>1. lease = o /\ op[o].state = "running" /\ op[o].phase = "publishing" /\ Kind[o] # "backup"
  BY <1>0, Holder, PcWords
<1>2. CASE staging[o].keep
  BY <1>1, <1>2, AbortStep DEF SnapshotCurrent, StoreInv, StoreTypeOK
<1>3. CASE ~staging[o].keep
  <2>1. /\ staging'[o].state = staging[o].state /\ staging'[o].store = staging[o].store
        /\ staging'[o].file = staging[o].file /\ staging' \in [Ops -> Stages]
        /\ \A q \in Ops \ {o} : staging'[q] = staging[q]
    <3> DEFINE new == [staging[o] EXCEPT !.keep = TRUE]
    <3>1. staging' = [staging EXCEPT ![o] = new] BY <1>3 DEF SnapshotCurrent
    <3>2. new \in Stages /\ new.state = staging[o].state /\ new.store = staging[o].store
          /\ new.file = staging[o].file
      BY StageFlags DEF StoreInv, StoreTypeOK
    <3> HIDE DEF new
    <3> QED BY <3>1, <3>2 DEF StoreInv, StoreTypeOK
  <2>2. At(o, "keeping") /\ lease' = o BY <1>1, <1>3 DEF SnapshotCurrent
  <2>3. OpBecomes(o, "running", "publishing", "keeping", op[o].expect, op[o].cancel)
    BY <1>1, <2>2, AtEffect, PcWords DEF StoreInv
  <2>4. ReadyInv(o)'
    BY <1>0, <2>1, <2>3 DEF SnapshotCurrent, StoreInv, OpInv, ReadyInv, OpBecomes, BeforeReplace, Verified
  <2>5. "keeping" \in LeasedPcs BY PcWords
  <2> QED BY <1>1, <2>1, <2>2, <2>4, <2>5, LeasedStep DEF SnapshotCurrent, StoreInv, StoreTypeOK
<1> QED BY <1>2, <1>3

\* A container that was built is of its type.
LEMMA Built ==
    ASSUME NEW o \in Ops, NEW s \in StoreRecs
    PROVE  /\ BuildContainer(o, s) \in Conts /\ BuildContainer(o, s).by = o
           /\ BuildContainer(o, s).store = s
BY DEF BuildContainer, Conts

LEMMA KeepCurrentKeeps == ASSUME StoreInv, NEW o \in Ops, KeepCurrent(o) PROVE StoreInv'
<1>0. op[o].at = "keeping" BY DEF KeepCurrent, Running
<1>1. lease = o /\ op[o].state = "running" /\ op[o].phase = "publishing" /\ Kind[o] # "backup"
  BY <1>0, Holder, PcWords
<1>2. o \in Keeps /\ Output[o] \in Paths BY <1>0, OperationShape DEF StoreInv, OpInv, ReadyInv
<1>3. CASE containers[Output[o]] # NoContainer
  BY <1>1, <1>3, AbortStep DEF KeepCurrent, StoreInv, StoreTypeOK
<1>4. CASE containers[Output[o]] = NoContainer
  <2> DEFINE c == BuildContainer(o, Snapshot(store))
  <2>1. c \in Conts /\ c.by = o /\ c.store = store BY Built DEF Snapshot, StoreInv, StoreTypeOK
  <2> HIDE DEF c
  <2>2. containers' = [containers EXCEPT ![Output[o]] = c] BY <1>4 DEF KeepCurrent, c
  <2>3. /\ containers' \in [Paths -> Conts] /\ containers'[Output[o]] = c
        /\ \A p \in Paths \ {Output[o]} : containers'[p] = containers[p]
        /\ containers[Output[o]].by = NoOp
    BY <1>2, <1>4, <2>1, <2>2, EmptyRecords DEF StoreInv, StoreTypeOK
  <2>4. /\ staging'[o].state = staging[o].state /\ staging'[o].store = staging[o].store
        /\ staging'[o].file = staging[o].file /\ staging' \in [Ops -> Stages]
        /\ \A q \in Ops \ {o} : staging'[q] = staging[q]
    <3> DEFINE new == [staging[o] EXCEPT !.keep = FALSE]
    <3>1. staging' = [staging EXCEPT ![o] = new] BY <1>4 DEF KeepCurrent
    <3>2. new \in Stages /\ new.state = staging[o].state /\ new.store = staging[o].store
          /\ new.file = staging[o].file
      BY StageFlags DEF StoreInv, StoreTypeOK
    <3> HIDE DEF new
    <3> QED BY <3>1, <3>2 DEF StoreInv, StoreTypeOK
  <2>5. CASE VerifyBackup(c)
    <3>1. At(o, "safe") /\ lease' = o BY <1>1, <1>4, <2>5 DEF KeepCurrent, c
    <3>2. OpBecomes(o, "running", "publishing", "safe", op[o].expect, op[o].cancel)
      BY <1>1, <3>1, AtEffect, PcWords DEF StoreInv
    <3>3. Kept(o)' BY <1>2, <2>1, <2>3, OperationShape DEF Kept, KeepCurrent
    <3>4. ReadyInv(o)'
      BY <1>0, <1>2, <2>4, <3>2, <3>3 DEF KeepCurrent, StoreInv, OpInv, ReadyInv, OpBecomes, BeforeReplace, Verified
    <3>5. "safe" \in LeasedPcs BY PcWords
    <3>6. \A p \in Paths : \/ containers'[p] = containers[p]
                           \/ containers[p].by = NoOp /\ containers'[p].by = o
      BY <2>1, <2>3
    <3>7. /\ quarantine' \in [Ops -> Copies] /\ \A q \in Ops \ {o} : quarantine'[q] = quarantine[q]
      BY DEF KeepCurrent, StoreInv, StoreTypeOK
    <3>8. UNCHANGED <<store, minted, derived, replaced, budget>> BY DEF KeepCurrent
    <3> QED BY <1>1, <2>3, <2>4, <3>1, <3>4, <3>5, <3>6, <3>7, <3>8, LeasedStep
  <2>6. CASE ~VerifyBackup(c)
    <3>1. Block(o) /\ lease' = NoOp BY <1>4, <2>6 DEF KeepCurrent, c, Abort
    <3>2. OpBecomes(o, "blocked", "publishing", "begin", op[o].expect, op[o].cancel)
      BY <1>1, <3>1, BlockEffect DEF StoreInv
    <3>3. StoreTypeOK' BY <2>3, <2>4, <3>1, <3>2 DEF KeepCurrent, StoreInv, StoreTypeOK, OpBecomes
    <3>4. \A q \in Ops \ {o} : Undisturbed(q)
      BY <1>1, <2>1, <2>3, <2>4, <3>1, <3>2, OperationShape DEF KeepCurrent, Undisturbed, OpBecomes
    <3>5. OpInv(o)'
      <4>1. PhaseInv(o)' BY <1>1, <3>2 DEF StoreInv, OpInv, PhaseInv, OpBecomes
      <4>2. LeaseInv(o)' BY <3>1, <3>2, PcWords, OperationShape DEF LeaseInv, OpBecomes
      <4>3. StageInv(o)' BY <2>4 DEF StoreInv, OpInv, StageInv
      <4>4. DoneInv(o)' BY <1>1, <3>2 DEF KeepCurrent, StoreInv, OpInv, DoneInv, OpBecomes
      <4>5. BackupInv(o)'
        BY <1>1, <2>4, <3>2 DEF KeepCurrent, StoreInv, OpInv, BackupInv, OpBecomes
      <4>6. ReadyInv(o)' BY <3>2, PcWords DEF ReadyInv, OpBecomes
      <4> QED BY <4>1, <4>2, <4>3, <4>4, <4>5, <4>6 DEF OpInv
    <3> QED BY <2>4, <3>2, <3>3, <3>4, <3>5, QuietStep DEF KeepCurrent, OpBecomes
  <2> QED BY <2>5, <2>6
<1> QED BY <1>3, <1>4

LEMMA CopyToQuarantineKeeps == ASSUME StoreInv, NEW o \in Ops, CopyToQuarantine(o) PROVE StoreInv'
<1>0. op[o].at = "quarantine" BY DEF CopyToQuarantine, Running
<1>1. lease = o /\ op[o].state = "running" /\ op[o].phase = "publishing" /\ Kind[o] # "backup"
  BY <1>0, Holder, PcWords
<1>2. [state |-> "partial", store |-> store] \in Copies BY DEF StoreInv, StoreTypeOK, Copies
<1>3. /\ quarantine' \in [Ops -> Copies] /\ quarantine'[o].store = store
      /\ \A q \in Ops \ {o} : quarantine'[q] = quarantine[q]
  BY <1>2 DEF CopyToQuarantine, StoreInv, StoreTypeOK
<1>4. OpBecomes(o, "running", "publishing", "copied", op[o].expect, op[o].cancel)
  BY <1>1, AtEffect, PcWords DEF CopyToQuarantine, StoreInv
<1>5. ReadyInv(o)'
  BY <1>0, <1>3, <1>4 DEF CopyToQuarantine, StoreInv, OpInv, ReadyInv, OpBecomes, BeforeReplace, Verified
<1>6. "copied" \in LeasedPcs BY PcWords
<1>7. /\ At(o, "copied") /\ lease' = o /\ UNCHANGED <<store, staging, containers, minted, derived, replaced, budget>>
  BY <1>1 DEF CopyToQuarantine
<1> QED BY <1>1, <1>3, <1>5, <1>6, <1>7, LeasedStep DEF StoreInv, StoreTypeOK

LEMMA PublishQuarantineKeeps == ASSUME StoreInv, NEW o \in Ops, PublishQuarantine(o) PROVE StoreInv'
<1>0. op[o].at = "copied" BY DEF PublishQuarantine, Running
<1>1. lease = o /\ op[o].state = "running" /\ op[o].phase = "publishing" /\ Kind[o] # "backup"
  BY <1>0, Holder, PcWords
<1>2. /\ o \notin Keeps /\ Kind[o] = "restore" /\ Mode[o] = "unreadable"
      /\ store.kind = "bad" /\ quarantine[o].store = store
  BY <1>0 DEF StoreInv, OpInv, ReadyInv
<1>3. /\ quarantine' \in [Ops -> Copies] /\ quarantine'[o] = [state |-> "kept", store |-> store]
      /\ \A q \in Ops \ {o} : quarantine'[q] = quarantine[q]
  BY <1>2 DEF PublishQuarantine, StoreInv, StoreTypeOK, Copies
<1>4. OpBecomes(o, "running", "publishing", "safe", op[o].expect, op[o].cancel)
  BY <1>1, AtEffect, PcWords DEF PublishQuarantine, StoreInv
<1>5. Kept(o)' BY <1>2, <1>3 DEF Kept, Quarantined, PublishQuarantine
<1>6. ReadyInv(o)'
  BY <1>0, <1>2, <1>4, <1>5 DEF PublishQuarantine, StoreInv, OpInv, ReadyInv, OpBecomes, BeforeReplace, Verified
<1>7. "safe" \in LeasedPcs BY PcWords
<1>8. /\ At(o, "safe") /\ lease' = o /\ UNCHANGED <<store, staging, containers, minted, derived, replaced, budget>>
  BY <1>1 DEF PublishQuarantine
<1> QED BY <1>1, <1>3, <1>6, <1>7, <1>8, LeasedStep DEF StoreInv, StoreTypeOK

----------------------------------------------------------------------------
(* The steps that change files outside the replacement                     *)

LEMMA RestStep ==
    ASSUME StoreInv, StoreTypeOK', NEW o \in Ops, store' = store, minted' = minted,
           Rests(o), PhaseInv(o)', StageKeeps(o),
           containers'[Output[o]] = containers[Output[o]],
           \A q \in Ops \ {o} : Undisturbed(q)
    PROVE  StoreInv'
<1>1. OpInv(o)' BY RestKeeps DEF StoreInv
<1> QED BY <1>1, QuietStep DEF Rests, StageKeeps

LEMMA MarkKeeps == ASSUME StoreInv, NEW o \in Ops, Mark(o) PROVE StoreInv'
<1>0. op[o].at = "replaced" BY DEF Mark, Running
<1>1. lease = o /\ op[o].state = "running" /\ op[o].phase = "publishing" /\ Kind[o] # "backup"
  BY <1>0, Holder, PcWords
<1>2. lease' # o /\ lease' \in Ops \cup {NoOp} /\ \A q \in Ops \ {o} : lease' = q <=> lease = q
  BY <1>1, OperationShape DEF Mark
<1>3. CASE staging[o].state # "complete"
  <2>1. Block(o) /\ staging' = staging BY <1>3 DEF Mark
  <2>2. OpBecomes(o, "blocked", op[o].phase, "begin", op[o].expect, op[o].cancel)
    BY <2>1, BlockEffect DEF StoreInv
  <2>3. Rests(o) /\ PhaseInv(o)' BY <1>2, <2>1, BlockRests DEF Mark, StoreInv
  <2>4. StoreTypeOK' BY <1>2, <2>1, <2>2 DEF Mark, StoreInv, StoreTypeOK, OpBecomes
  <2>5. \A q \in Ops \ {o} : Undisturbed(q) BY <1>2, <2>1, <2>2 DEF Mark, Undisturbed, OpBecomes
  <2> QED BY <2>1, <2>3, <2>4, <2>5, RestStep DEF Mark, StageKeeps
<1>4. CASE staging[o].state = "complete"
  <2> DEFINE new == [staging[o] EXCEPT !.marker = TRUE]
  <2>1. Advance(o) /\ staging' = [staging EXCEPT ![o] = new] BY <1>4 DEF Mark
  <2>2. new \in Stages /\ new.state = staging[o].state /\ new.store = staging[o].store
        /\ new.file = staging[o].file
    BY StageFlags DEF StoreInv, StoreTypeOK
  <2> HIDE DEF new
  <2>3. /\ staging' \in [Ops -> Stages] /\ StageKeeps(o)
        /\ \A q \in Ops \ {o} : staging'[q] = staging[q]
    BY <2>1, <2>2 DEF StoreInv, StoreTypeOK, StageKeeps
  <2>4. OpBecomes(o, op[o].state, NextPhase(o), "begin", op[o].expect, op[o].cancel)
    BY <1>1, <2>1, AdvanceEffect DEF StoreInv, OpInv
  <2>5. Rests(o) /\ PhaseInv(o)' BY <1>1, <1>2, <2>1, AdvanceRests DEF Mark, StoreInv
  <2>6. StoreTypeOK' BY <1>2, <2>3, <2>4 DEF Mark, StoreInv, StoreTypeOK, OpBecomes
  <2>7. \A q \in Ops \ {o} : Undisturbed(q) BY <1>2, <2>3, <2>4 DEF Mark, Undisturbed, OpBecomes
  <2> QED BY <2>3, <2>5, <2>6, <2>7, RestStep DEF Mark
<1> QED BY <1>3, <1>4

LEMMA PurgeKeeps == ASSUME StoreInv, NEW o \in Ops, Purge(o) PROVE StoreInv'
<1>1. /\ quarantine' \in [Ops -> Copies] /\ \A q \in Ops \ {o} : quarantine'[q] = quarantine[q]
      /\ WasPurged(o)
  BY DEF Purge, StoreInv, StoreTypeOK, Copies, WasPurged
<1>2. StoreTypeOK' BY <1>1 DEF Purge, StoreInv, StoreTypeOK
<1>3. \A q \in Ops : Undisturbed(q) BY <1>1 DEF Purge, Undisturbed
<1>4. OpInv(o)' BY <1>3, OtherKeeps DEF StoreInv, Purge
<1> QED BY <1>2, <1>3, <1>4, QuietStep DEF Purge

LEMMA CreateKeeps == ASSUME StoreInv, NEW o \in Ops, Create(o) PROVE StoreInv'
<1>1. OpBecomes(o, "running", op[o].phase, op[o].at, store, op[o].cancel)
  BY StateWords DEF Create, files, StoreInv, StoreTypeOK, OpRecs, OpBecomes
<1>2. StoreTypeOK' BY <1>1 DEF Create, files, StoreInv, StoreTypeOK, OpBecomes
<1>3. \A q \in Ops \ {o} : Undisturbed(q) BY <1>1 DEF Create, files, Undisturbed, OpBecomes
<1>4. OpInv(o)'
  <2>0. UNCHANGED <<store, staging, containers, quarantine, lease, replaced>> BY DEF Create, files
  <2>1. op[o].phase = "preflight" /\ staging[o].state # "complete" /\ containers[Output[o]].by # o
    BY DEF Create, StoreInv, OpInv, BackupInv
  <2>2. op[o].at \notin LeasedPcs BY DEF Create, StoreInv, OpInv, LeaseInv
  <2>3. PhaseInv(o)' BY <1>1 DEF StoreInv, OpInv, PhaseInv, OpBecomes
  <2>4. LeaseInv(o)' BY <1>1, <2>0, <2>2 DEF StoreInv, OpInv, LeaseInv, OpBecomes
  <2>5. StageInv(o)' BY <2>0 DEF StoreInv, OpInv, StageInv
  <2>6. DoneInv(o)' BY <1>1, <2>0, <2>1 DEF StoreInv, LiveInv, OpInv, DoneInv, OpBecomes
  <2>7. BackupInv(o)' BY <1>1, <2>0, <2>1 DEF StoreInv, OpInv, BackupInv, OpBecomes
  <2>8. ReadyInv(o)' BY <1>1, <2>2, PcWords DEF ReadyInv, OpBecomes
  <2> QED BY <2>3, <2>4, <2>5, <2>6, <2>7, <2>8 DEF OpInv
<1> QED BY <1>1, <1>2, <1>3, <1>4, QuietStep DEF Create, files, OpBecomes

\* The gate a clear passes when it reopens: the store was read.
LEMMA ReadMeans ==
    /\ LiveIdentity \in {"absent", "read", "unverifiable"}
    /\ LiveIdentity # "unverifiable" => store.kind # "bad"
    /\ LiveIdentity = "read" => store.kind \in {"ok", "old"}
    /\ lease = NoOp /\ store.kind \in {"ok", "old"} => LiveIdentity = "read"
BY DEF LiveIdentity, Verified

LEMMA ReopenKeeps == ASSUME StoreInv, NEW o \in Ops, Reopen(o) PROVE StoreInv'
<1>0. /\ op[o].state = "running" /\ op[o].phase = "reopening" /\ op[o].at = "begin" /\ lease # o
      /\ UNCHANGED <<store, containers, quarantine, lease, minted, derived, replaced, budget>>
  BY NotLeased DEF Reopen, Running
<1>1. CASE Block(o) /\ staging' = staging
  BY <1>0, <1>1, BlockStep DEF StoreInv, StoreTypeOK
<1>2. ASSUME Advance(o) PROVE Kind[o] = "clear" => store.kind # "bad"
  <2> SUFFICES ASSUME Kind[o] = "clear", store.kind = "bad" PROVE FALSE OBVIOUS
  <2>1. LiveIdentity = "unverifiable" BY ReadMeans
  <2>2. ClearDisposition(o) = "blocked" BY <2>1 DEF ClearDisposition
  <2>3. ~CancelProven(o) /\ ~ReopenClear(o) BY <2>1, <2>2 DEF CancelProven, ReopenClear
  <2>4. Block(o) BY <2>3 DEF Reopen
  <2>5. op'[o].state = "blocked" BY <2>4, BlockEffect DEF StoreInv, OpBecomes
  <2>6. op'[o].state = "running" BY <1>0, <1>2, AdvanceEffect DEF StoreInv, OpInv, OpBecomes
  <2> QED BY <2>5, <2>6
<1>3. CASE Advance(o) /\ staging' = staging
  BY <1>0, <1>2, <1>3, AdvanceStep, PhaseKinds
<1>4. CASE Advance(o) /\ staging' = [staging EXCEPT ![o] = NoStage]
  <2>1. /\ staging' \in [Ops -> Stages] /\ StageKeeps(o)
        /\ \A q \in Ops \ {o} : staging'[q] = staging[q]
    BY <1>4, EmptyRecords DEF StoreInv, StoreTypeOK, StageKeeps, Swept
  <2>2. OpBecomes(o, op[o].state, NextPhase(o), "begin", op[o].expect, op[o].cancel)
    BY <1>0, <1>4, AdvanceEffect DEF StoreInv, OpInv
  <2>3. Rests(o) /\ PhaseInv(o)' BY <1>0, <1>2, <1>4, AdvanceRests, PhaseKinds DEF StoreInv
  <2>4. StoreTypeOK' BY <1>0, <2>1, <2>2 DEF StoreInv, StoreTypeOK, OpBecomes
  <2>5. \A q \in Ops \ {o} : Undisturbed(q) BY <1>0, <2>1, <2>2 DEF Undisturbed, OpBecomes
  <2> QED BY <1>0, <2>1, <2>3, <2>4, <2>5, RestStep
<1> QED BY <1>1, <1>3, <1>4 DEF Reopen

LEMMA PublishBackupKeeps == ASSUME StoreInv, NEW o \in Ops, PublishBackup(o) PROVE StoreInv'
<1>0. /\ op[o].state = "running" /\ op[o].phase = "publishing" /\ op[o].at = "begin" /\ lease # o
      /\ Kind[o] = "backup" /\ Output[o] \in Paths
      /\ UNCHANGED <<store, staging, quarantine, lease, minted, derived, replaced>>
  BY NotLeased, OperationShape DEF PublishBackup, Running
<1>1. CASE Block(o) /\ UNCHANGED <<containers, budget>>
  BY <1>0, <1>1, BlockStep DEF StoreInv, StoreTypeOK
<1>2. CASE DestinationState(o) = "own_published" /\ Advance(o) /\ UNCHANGED <<containers, budget>>
  <2>1. containers[Output[o]].by = o BY <1>2 DEF DestinationState
  <2> QED BY <1>0, <1>2, <2>1, AdvanceStep
<1>3. CASE StagingComplete(o) /\ DestinationState(o) = "absent"
  <2> DEFINE c == BuildContainer(o, staging[o].store)
  <2>1. c \in Conts /\ c.by = o /\ c.store = staging[o].store
    BY Built DEF StoreInv, StoreTypeOK, Stages
  <2>2. containers[Output[o]] = NoContainer BY <1>3 DEF DestinationState
  <2>3. containers' = [containers EXCEPT ![Output[o]] = c] BY <1>3 DEF PublishBackup
  <2> HIDE DEF c
  <2>4. /\ containers' \in [Paths -> Conts] /\ containers'[Output[o]] = c
        /\ \A p \in Paths \ {Output[o]} : containers'[p] = containers[p]
        /\ containers[Output[o]].by = NoOp
    BY <1>0, <2>1, <2>2, <2>3, EmptyRecords DEF StoreInv, StoreTypeOK
  <2>5. \/ Advance(o) /\ UNCHANGED budget
        \/ Block(o) /\ budget.crashes > 0 /\ budget' = [budget EXCEPT !.crashes = @ - 1]
    BY <1>3 DEF PublishBackup
  <2>6. budget' \in Budgets BY <2>5 DEF StoreInv, StoreTypeOK, Budgets
  <2>7. PICK st \in OpStates, ph \in PhaseNames : OpBecomes(o, st, ph, "begin", op[o].expect, op[o].cancel)
    <3>1. CASE Advance(o)
      <4>1. OpBecomes(o, op[o].state, NextPhase(o), "begin", op[o].expect, op[o].cancel)
        BY <1>0, <3>1, AdvanceEffect DEF StoreInv, OpInv
      <4> QED BY <1>0, <4>1, StateWords, PhaseIsPhase DEF StoreInv, OpInv
    <3>2. CASE Block(o)
      <4>1. OpBecomes(o, "blocked", op[o].phase, "begin", op[o].expect, op[o].cancel)
        BY <3>2, BlockEffect DEF StoreInv
      <4> QED BY <4>1, StateWords DEF StoreInv, StoreTypeOK, OpRecs
    <3> QED BY <2>5, <3>1, <3>2
  <2>8. Rests(o) /\ PhaseInv(o)'
    <3>1. CASE Advance(o) BY <1>0, <2>1, <2>4, <3>1, AdvanceRests DEF StoreInv
    <3>2. CASE Block(o)
      <4>1. op'[o].state = "blocked" /\ op'[o].phase = "publishing" /\ op'[o].at = "begin" /\ op'[o].expect = op[o].expect
        BY <1>0, <3>2, BlockEffect DEF StoreInv, OpBecomes
      <4> QED BY <1>0, <4>1 DEF Rests, Late, PhaseInv
    <3> QED BY <2>5, <3>1, <3>2
  <2>9. StoreTypeOK' BY <1>0, <2>4, <2>6, <2>7 DEF StoreInv, StoreTypeOK, OpBecomes
  <2>10. \A q \in Ops \ {o} : Undisturbed(q)
    BY <1>0, <2>1, <2>4, <2>7, OperationShape DEF Undisturbed, OpBecomes
  <2>11. OpInv(o)'
    <3>1. op'[o].at \notin LeasedPcs BY <2>8, PcWords DEF Rests
    <3>2. LeaseInv(o)' BY <2>8, <3>1 DEF LeaseInv, Rests
    <3>3. StageInv(o)' BY <1>0 DEF StoreInv, OpInv, StageInv
    <3>4. DoneInv(o)' BY <1>0, <2>8 DEF StoreInv, OpInv, DoneInv, Rests, Late
    <3>5. staging[o].state = "complete" BY <1>3 DEF StagingComplete
    <3>6. BackupInv(o)' BY <1>0, <2>1, <2>4, <2>8, <3>5 DEF StoreInv, OpInv, BackupInv, Rests
    <3>7. ReadyInv(o)' BY <3>1, PcWords DEF ReadyInv
    <3> QED BY <2>8, <3>2, <3>3, <3>4, <3>6, <3>7 DEF OpInv
  <2> QED BY <1>0, <2>8, <2>9, <2>10, <2>11, QuietStep DEF Rests
<1> QED BY <1>1, <1>2, <1>3 DEF PublishBackup

\* What a sweep leaves of each staging.
LEMMA Sweeps ==
    ASSUME StoreInv, NEW o \in Ops, Cleanup(o)
    PROVE  /\ staging' \in [Ops -> Stages] /\ \A q \in Ops : staging'[q] = staging[q] \/ Swept(staging'[q])
           /\ quarantine' \in [Ops -> Copies] /\ derived' \in BOOLEAN
           /\ quarantine' = quarantine \/ store.kind # "bad"
<1>0. StoreTypeOK /\ staging \in [Ops -> Stages] BY DEF StoreInv, StoreTypeOK
<1>1. CASE SweepClear /\ Kind[o] = "clear"
  <2>1. store.kind # "bad" BY <1>1 DEF Cleanup, Running, StoreInv, OpInv, DoneInv
  <2> QED BY <1>0, <1>1, <2>1, EmptyRecords DEF SweepClear, Swept, StoreTypeOK
<1>2. CASE SweepRestore(o)
  <2> DEFINE keep(s) == s # o /\ staging[s].keep
             new(s) == [NoStage EXCEPT !.keep = keep(s)]
  <2>1. ASSUME NEW s \in Ops PROVE new(s) \in Stages /\ Swept(new(s))
    <3>1. keep(s) \in BOOLEAN BY <1>0 DEF Stages
    <3>2. \A b \in BOOLEAN : [NoStage EXCEPT !.keep = b] \in Stages /\ Swept([NoStage EXCEPT !.keep = b])
      <4> SUFFICES ASSUME NEW b \in BOOLEAN
                   PROVE  [NoStage EXCEPT !.keep = b] \in Stages /\ Swept([NoStage EXCEPT !.keep = b])
        OBVIOUS
      <4> DEFINE r == [NoStage EXCEPT !.keep = b]
      <4>1. NoStage \in Stages BY EmptyRecords
      <4>2. r \in Stages /\ r.state = NoStage.state /\ r.store = NoStage.store /\ r.file = NoStage.file
        BY <4>1 DEF Stages
      <4> HIDE DEF r
      <4>3. r \in Stages /\ Swept(r) BY <4>2, EmptyRecords DEF Swept
      <4> QED BY <4>3 DEF r
    <3> HIDE DEF keep
    <3> QED BY <3>1, <3>2, Zenon
  <2>2. staging' = [s \in Ops |-> IF s = o \/ (Kind[s] = "restore" /\ ~op[o].cancel) THEN new(s) ELSE staging[s]]
    BY <1>2 DEF SweepRestore
  <2> HIDE DEF new
  <2> QED BY <1>0, <1>2, <2>1, <2>2 DEF SweepRestore, StoreTypeOK
<1>3. CASE SweepBackup(o)
  BY <1>0, <1>3, EmptyRecords DEF SweepBackup, Swept, StoreTypeOK
<1>4. CASE UNCHANGED <<staging, derived, quarantine>>
  BY <1>0, <1>4 DEF StoreTypeOK
<1> QED BY <1>1, <1>2, <1>3, <1>4 DEF Cleanup

LEMMA CleanupKeeps == ASSUME StoreInv, NEW o \in Ops, Cleanup(o) PROVE StoreInv'
<1>0. /\ op[o].state = "running" /\ op[o].phase = "cleanup" /\ op[o].at = "begin" /\ lease # o
      /\ UNCHANGED <<store, containers, lease, minted, replaced, budget>>
  BY NotLeased DEF Cleanup, Running
<1>1. PICK st \in {"running", "blocked"}, at \in {"begin", "swept"} :
        OpBecomes(o, st, "cleanup", at, op[o].expect, op[o].cancel)
  <2>1. CASE Block(o)
    BY <1>0, <2>1, BlockEffect DEF StoreInv
  <2>2. CASE \E result \in Results : op' = [op EXCEPT ![o].at = "swept", ![o].result = result]
    <3>1. PICK result \in Results : op' = [op EXCEPT ![o].at = "swept", ![o].result = result] BY <2>2
    <3>2. OpBecomes(o, "running", "cleanup", "swept", op[o].expect, op[o].cancel)
      BY <1>0, <3>1, PcWords DEF OpBecomes, StoreInv, StoreTypeOK, OpRecs
    <3> QED BY <3>2
  <2>3. ClearOutcome(o) \in Results /\ RestoreOutcome(o) \in Results /\ "created" \in Results
    BY DEF ClearOutcome, RestoreOutcome, Results
  <2> QED BY <2>1, <2>2, <2>3 DEF Cleanup
<1>2. Rests(o) /\ PhaseInv(o)'
  BY <1>0, <1>1 DEF OpBecomes, Rests, Late, StoreInv, OpInv, PhaseInv, DoneInv, BackupInv
<1>3. StoreTypeOK' BY <1>0, <1>1, Sweeps DEF StoreInv, StoreTypeOK, OpBecomes
<1>4. \A q \in Ops \ {o} : Undisturbed(q) BY <1>0, <1>1, Sweeps DEF Undisturbed, OpBecomes
<1>5. StageKeeps(o) BY Sweeps DEF StageKeeps
<1> QED BY <1>0, <1>2, <1>3, <1>4, <1>5, RestStep

----------------------------------------------------------------------------
(* Staging, replacing and recording                                        *)

\* What is staged: a store with an identity of its own, the migrated one, or a copy.
LEMMA StagedStore ==
    ASSUME StoreInv, NEW o \in Ops, StagingGate(o) = "proceed", ~StagingComplete(o)
    PROVE  /\ Staged(o) \in StoreRecs /\ Staged(o).epoch <= minted + 1
           /\ Kind[o] # "backup" => Staged(o).kind = "ok" /\ Staged(o).epoch > 0
           /\ Kind[o] \in {"clear", "restore"} => Staged(o).epoch = minted + 1
           /\ Kind[o] = "migrate" => /\ Staged(o).facts = {1} /\ Staged(o).hist = 1
                                     /\ Reinterprets => Staged(o).epoch = minted + 1
                                     /\ ~Reinterprets => Staged(o).epoch = 1
           /\ Kind[o] = "backup" => Staged(o) = store
<1>0. /\ minted \in Nat /\ minted >= 1 /\ store \in StoreRecs /\ store.epoch <= minted
      /\ From[o] \in Paths /\ containers[From[o]].store \in StoreRecs
  BY OperationShape DEF StoreInv, FreshInv, StoreTypeOK, Conts
<1>1. CASE Kind[o] = "clear"
  <2>1. Staged(o) = CreateEmpty BY <1>1 DEF Staged, StageClear
  <2> QED BY <1>0, <1>1, <2>1, HelperStores
<1>2. CASE Kind[o] = "restore"
  <2>1. Staged(o) = PrepareRestore(Migrate(containers[From[o]].store)) BY <1>2 DEF Staged, StageRestore
  <2>2. Migrate(containers[From[o]].store) \in StoreRecs /\ Migrate(containers[From[o]].store).kind = "ok"
    BY <1>0, HelperStores
  <2> QED BY <1>0, <1>2, <2>1, <2>2, HelperStores
<1>3. CASE Kind[o] = "migrate"
  <2>1. Staged(o) = Migrate(store) BY <1>3 DEF Staged, StageMigrate, Snapshot
  <2>2. MigrateDisposition = "proceed" BY <1>3 DEF StagingGate, Disposition
  <2>3. store.kind = "old" BY <1>0, <2>2 DEF MigrateDisposition, Schema, StoreRecs
  <2>4. store.facts = {1} /\ store.hist = 1 /\ store.epoch = 1 BY <2>3 DEF StoreInv, LiveInv
  <2>5. /\ Migrate(store) \in StoreRecs /\ Migrate(store).kind = "ok"
        /\ Migrate(store).facts = store.facts /\ Migrate(store).hist = store.hist
        /\ Migrate(store).epoch = IF Reinterprets THEN minted + 1 ELSE store.epoch
    BY <1>0, HelperStores
  <2>6. CASE Reinterprets BY <1>0, <1>3, <2>1, <2>4, <2>5, <2>6
  <2>7. CASE ~Reinterprets BY <1>0, <1>3, <2>1, <2>4, <2>5, <2>7
  <2> QED BY <2>6, <2>7
<1>4. CASE Kind[o] = "backup"
  BY <1>0, <1>4 DEF Staged, StageBackup, Snapshot, StoreRecs
<1> QED BY <1>1, <1>2, <1>3, <1>4, OperationShape

\* The records of a complete and of a torn staging.
LEMMA StagingRecords ==
    ASSUME NEW s \in StoreRecs
    PROVE  /\ [NoStage EXCEPT !.state = "complete", !.store = s, !.file = TRUE] \in Stages
           /\ [NoStage EXCEPT !.state = "complete", !.store = s, !.file = TRUE].state = "complete"
           /\ [NoStage EXCEPT !.state = "complete", !.store = s, !.file = TRUE].store = s
           /\ [NoStage EXCEPT !.state = "complete", !.store = s, !.file = TRUE].file
           /\ [NoStage EXCEPT !.state = "torn"] \in Stages
           /\ Swept([NoStage EXCEPT !.state = "torn"])
BY DEF NoStage, Stages, Swept, NoStore, StoreRecs

LEMMA StageKeepsInv == ASSUME StoreInv, NEW o \in Ops, Stage(o) PROVE StoreInv'
<1>0. /\ op[o].state = "running" /\ op[o].phase = "staging" /\ op[o].at = "begin" /\ lease # o
      /\ UNCHANGED <<store, containers, quarantine, lease, derived, replaced>>
  BY NotLeased DEF Stage, Running
<1>1. CASE Block(o) /\ UNCHANGED <<staging, minted, budget>>
  BY <1>0, <1>1, BlockStep DEF StoreInv, StoreTypeOK
<1>2. CASE Advance(o) /\ UNCHANGED <<staging, minted, budget>>
  BY <1>0, <1>2, AdvanceStep
<1>3. ASSUME StagingGate(o) = "proceed", ~StagingComplete(o), minted' = minted + 1, Advance(o),
             budget' = budget,
             staging' = [staging EXCEPT ![o] =
                [NoStage EXCEPT !.state = "complete", !.store = Staged(o), !.file = TRUE]]
      PROVE  StoreInv'
  <2> DEFINE new == [NoStage EXCEPT !.state = "complete", !.store = Staged(o), !.file = TRUE]
  <2>1. new \in Stages /\ new.state = "complete" /\ new.store = Staged(o) /\ new.file
    BY <1>3, StagedStore, StagingRecords
  <2>2. staging' = [staging EXCEPT ![o] = new] BY <1>3
  <2> HIDE DEF new
  <2>3. /\ staging' \in [Ops -> Stages] /\ staging'[o] = new
        /\ \A q \in Ops \ {o} : staging'[q] = staging[q]
    BY <2>1, <2>2 DEF StoreInv, StoreTypeOK
  <2>4. OpBecomes(o, "running", "publishing", "begin", op[o].expect, op[o].cancel)
    BY <1>0, <1>3, AdvanceEffect, NextPhases DEF StoreInv, OpInv
  <2>5. Rests(o) /\ PhaseInv(o)' BY <1>0, <1>3, AdvanceRests DEF StoreInv
  <2>6. StoreTypeOK' BY <1>0, <1>3, <2>3, <2>4 DEF StoreInv, StoreTypeOK, OpBecomes
  <2>7. \A q \in Ops \ {o} : Undisturbed(q) BY <1>0, <2>3, <2>4 DEF Undisturbed, OpBecomes
  <2>8. LiveInv' BY <1>0 DEF StoreInv, LiveInv, Verified
  <2>9. OpInv(o)'
    <3>1. op'[o].at \notin LeasedPcs BY <2>5, PcWords DEF Rests
    <3>2. LeaseInv(o)' BY <2>5, <3>1 DEF LeaseInv, Rests
    <3>3. StageInv(o)' BY <1>3, <2>1, <2>3, StagedStore DEF StageInv
    <3>4. DoneInv(o)' BY <1>0, <2>5 DEF StoreInv, OpInv, DoneInv, Rests, Late
    <3>5. Kind[o] = "backup" => Staged(o) = store BY <1>3, StagedStore
    <3>6. BackupInv(o)' BY <1>0, <2>1, <2>3, <2>5, <3>5 DEF StoreInv, OpInv, BackupInv, Rests
    <3>7. ReadyInv(o)' BY <3>1, PcWords DEF ReadyInv
    <3> QED BY <2>5, <3>2, <3>3, <3>4, <3>6, <3>7 DEF OpInv
  <2>10. FreshInv'
    <3>0. minted \in Nat /\ \A q \in Ops : /\ op'[q].expect = op[q].expect
                                           /\ op[q].expect.epoch \in Nat /\ staging[q].store.epoch \in Nat
                                           /\ store.epoch \in Nat
      BY <2>4 DEF StoreInv, StoreTypeOK, OpBecomes, OpRecs, StoreRecs, Stages
    <3>1. /\ staging'[o].store.epoch <= minted + 1
          /\ Fresh(o)' => staging'[o].store.epoch = minted + 1
      BY <1>3, <2>1, <2>3, StagedStore DEF Fresh
    <3>2. /\ store.epoch <= minted /\ minted >= 1
          /\ \A q \in Ops : op[q].expect.epoch <= minted /\ staging[q].store.epoch <= minted
      BY DEF StoreInv, FreshInv
    <3>3. \A q \in Ops \ {o} : (Fresh(q)' <=> Fresh(q)) /\ staging'[q].store = staging[q].store
      BY <2>3 DEF Fresh
    <3>4. /\ store'.epoch <= minted' /\ minted' >= 1
          /\ \A q \in Ops : op'[q].expect.epoch <= minted' /\ staging'[q].store.epoch <= minted'
      BY <1>0, <1>3, <3>0, <3>1, <3>2, <3>3
    <3>5. ASSUME NEW q \in Ops, Fresh(q)'
          PROVE  /\ staging'[q].store.epoch # store'.epoch
                 /\ \A p \in Ops : staging'[q].store.epoch # op'[p].expect.epoch
                 /\ \A p \in Ops : Fresh(p)' /\ p # q => staging'[p].store.epoch # staging'[q].store.epoch
      <4>1. CASE q = o BY <1>0, <3>0, <3>1, <3>2, <3>3, <3>5, <4>1
      <4>2. CASE q # o
        <5>1. /\ staging[q].store.epoch # store.epoch
              /\ \A p \in Ops : staging[q].store.epoch # op[p].expect.epoch
              /\ \A p \in Ops : Fresh(p) /\ p # q => staging[p].store.epoch # staging[q].store.epoch
          BY <3>3, <3>5, <4>2 DEF StoreInv, FreshInv
        <5> QED BY <1>0, <3>0, <3>1, <3>2, <3>3, <3>5, <4>2, <5>1
      <4> QED BY <4>1, <4>2
    <3> QED BY <3>4, <3>5 DEF FreshInv
  <2>11. \A q \in Ops : OpInv(q)' BY <1>0, <2>7, <2>9, OtherKeeps DEF StoreInv
  <2> QED BY <2>6, <2>8, <2>10, <2>11 DEF StoreInv
<1>4. ASSUME budget.crashes > 0, budget' = [budget EXCEPT !.crashes = @ - 1], Block(o), minted' = minted,
             staging' = [staging EXCEPT ![o] = [NoStage EXCEPT !.state = "torn"]]
      PROVE  StoreInv'
  <2>1. budget' \in Budgets BY <1>4 DEF StoreInv, StoreTypeOK, Budgets
  <2>2. [NoStage EXCEPT !.state = "torn"] \in Stages /\ Swept([NoStage EXCEPT !.state = "torn"])
    BY StagingRecords, EmptyRecords
  <2>3. /\ staging' \in [Ops -> Stages] /\ StageKeeps(o)
        /\ \A q \in Ops \ {o} : staging'[q] = staging[q]
    BY <1>4, <2>2 DEF StoreInv, StoreTypeOK, StageKeeps
  <2>4. OpBecomes(o, "blocked", op[o].phase, "begin", op[o].expect, op[o].cancel)
    BY <1>4, BlockEffect DEF StoreInv
  <2>5. Rests(o) /\ PhaseInv(o)' BY <1>0, <1>4, BlockRests DEF StoreInv
  <2>6. StoreTypeOK' BY <1>0, <1>4, <2>1, <2>3, <2>4 DEF StoreInv, StoreTypeOK, OpBecomes
  <2>7. \A q \in Ops \ {o} : Undisturbed(q) BY <1>0, <2>3, <2>4 DEF Undisturbed, OpBecomes
  <2> QED BY <1>0, <1>4, <2>3, <2>5, <2>6, <2>7, RestStep
<1> QED BY <1>1, <1>2, <1>3, <1>4 DEF Stage

\* A step that puts a healthy store where the store is, seen by an operation that does
\* not hold the lease and takes no part.
LEMMA StoreChanges ==
    ASSUME NEW o \in Ops, OpInv(o), lease # o, lease' # o,
           op'[o] = op[o], staging'[o] = staging[o], replaced'[o] = replaced[o],
           containers' = containers, store'.kind = "ok",
           store'.epoch = op[o].expect.epoch => op[o].expect.facts \subseteq store'.facts
    PROVE  OpInv(o)'
<1>1. op[o].at \notin LeasedPcs BY DEF OpInv, LeaseInv
<1>2. PhaseInv(o)' BY DEF OpInv, PhaseInv
<1>3. LeaseInv(o)' BY <1>1 DEF OpInv, LeaseInv
<1>4. StageInv(o)' BY DEF OpInv, StageInv
<1>5. ReadyInv(o)' BY <1>1, PcWords DEF ReadyInv
<1>6. DoneInv(o)' BY DEF OpInv, DoneInv
<1>7. BackupInv(o)' BY DEF OpInv, BackupInv
<1> QED BY <1>2, <1>3, <1>4, <1>5, <1>6, <1>7 DEF OpInv

\* What is known when the staged file is renamed over the store.
LEMMA ReplaceKnows ==
    ASSUME StoreInv, NEW o \in Ops, op[o].at = "safe", staging[o].file
    PROVE  /\ Kept(o) /\ Kind[o] \in {"clear", "restore", "migrate"}
           /\ staging[o].store.kind = "ok" /\ staging[o].store.epoch > 0
           /\ \/ Fresh(o)
              \/ /\ Kind[o] = "migrate" /\ store.kind = "old"
                 /\ staging[o].store.epoch = store.epoch /\ staging[o].store.facts = store.facts
<1>1. Kept(o) BY DEF StoreInv, OpInv, ReadyInv
<1>2. Kind[o] \in {"clear", "restore", "migrate"} BY Holder, PcWords
<1>3. staging[o].store.kind = "ok" /\ staging[o].store.epoch > 0
  BY <1>2 DEF StoreInv, OpInv, StageInv
<1>4. ASSUME ~Fresh(o)
      PROVE  /\ Kind[o] = "migrate" /\ store.kind = "old"
             /\ staging[o].store.epoch = store.epoch /\ staging[o].store.facts = store.facts
  <2>1. Kind[o] = "migrate" /\ ~Reinterprets BY <1>2, <1>4 DEF Fresh
  <2>2. store.kind = "old" BY <1>1, <2>1, OperationShape DEF Kept
  <2> QED BY <2>1, <2>2 DEF StoreInv, LiveInv, OpInv, StageInv
<1> QED BY <1>1, <1>2, <1>3, <1>4

LEMMA ReplaceKeeps == ASSUME StoreInv, NEW o \in Ops, Replace(o) PROVE StoreInv'
<1>0. op[o].at = "safe" /\ lease = o BY DEF Replace, Running
<1>1. /\ op[o].state = "running" /\ op[o].phase = "publishing" /\ Kind[o] # "backup"
      /\ UNCHANGED <<containers, quarantine, minted, derived, budget>>
  BY <1>0, Holder, PcWords DEF Replace
<1>2. CASE ~staging[o].file
  BY <1>0, <1>1, <1>2, AbortStep DEF Replace
<1>3. CASE staging[o].file
  <2> DEFINE new == [staging[o] EXCEPT !.file = FALSE]
  <2>1. /\ store' = staging[o].store /\ staging' = [staging EXCEPT ![o] = new]
        /\ replaced' = [replaced EXCEPT ![o] = @ + 1] /\ At(o, "replaced") /\ lease' = lease
    BY <1>3 DEF Replace
  <2>2. new \in Stages /\ new.state = staging[o].state /\ new.store = staging[o].store /\ ~new.file
    BY StageFlags DEF StoreInv, StoreTypeOK
  <2> HIDE DEF new
  <2>3. /\ staging' \in [Ops -> Stages] /\ staging'[o] = new
        /\ \A q \in Ops \ {o} : staging'[q] = staging[q]
    BY <2>1, <2>2 DEF StoreInv, StoreTypeOK
  <2>4. /\ replaced' \in [Ops -> Nat] /\ \A q \in Ops \ {o} : replaced'[q] = replaced[q]
    BY <2>1 DEF StoreInv, StoreTypeOK
  <2>5. OpBecomes(o, "running", "publishing", "replaced", op[o].expect, op[o].cancel)
    BY <1>1, <2>1, AtEffect, PcWords DEF StoreInv
  <2>6. StoreTypeOK'
    BY <1>1, <2>1, <2>3, <2>4, <2>5 DEF StoreInv, StoreTypeOK, OpBecomes, Stages
  <2>7. store'.kind = "ok" /\ store'.epoch > 0 BY <1>0, <1>3, <2>1, ReplaceKnows
  <2>8. LiveInv' BY <2>7 DEF LiveInv
  <2>9. FreshInv'
    <3>1. /\ store'.epoch <= minted' /\ minted' >= 1
          /\ \A q \in Ops : op'[q].expect.epoch <= minted' /\ staging'[q].store.epoch <= minted'
      BY <1>1, <2>1, <2>2, <2>3, <2>5 DEF StoreInv, FreshInv, OpBecomes
    <3>2. \A q \in Ops : Fresh(q)' => q # o /\ Fresh(q) /\ staging'[q].store = staging[q].store
      BY <2>2, <2>3 DEF Fresh
    <3>3. \A q \in Ops : op'[q].expect = op[q].expect BY <2>5 DEF OpBecomes
    <3>4. \A q \in Ops : Fresh(q) /\ q # o => staging[q].store.epoch # staging[o].store.epoch
      BY <1>0, <1>3, ReplaceKnows DEF StoreInv, FreshInv
    <3>5. ASSUME NEW q \in Ops, Fresh(q)'
          PROVE  /\ staging'[q].store.epoch # store'.epoch
                 /\ \A p \in Ops : staging'[q].store.epoch # op'[p].expect.epoch
                 /\ \A p \in Ops : Fresh(p)' /\ p # q => staging'[p].store.epoch # staging'[q].store.epoch
      BY <2>1, <3>2, <3>3, <3>4, <3>5 DEF StoreInv, FreshInv
    <3> QED BY <3>1, <3>5 DEF FreshInv
  <2>10. \A q \in Ops : store'.epoch = op[q].expect.epoch => op[q].expect.facts \subseteq store'.facts
    BY <1>0, <1>3, <2>1, ReplaceKnows DEF StoreInv, FreshInv, OpInv, BackupInv
  <2>11. ASSUME NEW q \in Ops \ {o} PROVE OpInv(q)'
    <3>1. OpInv(q) /\ lease # q /\ lease' # q BY <1>0, <2>1 DEF StoreInv
    <3> QED BY <1>1, <2>3, <2>4, <2>5, <2>7, <2>10, <3>1, StoreChanges DEF OpBecomes
  <2>12. OpInv(o)'
    <3>1. PhaseInv(o)' BY <1>1, <2>5 DEF StoreInv, OpInv, PhaseInv, OpBecomes
    <3>2. LeaseInv(o)' BY <1>0, <1>1, <2>1, <2>5, PcWords DEF LeaseInv, OpBecomes
    <3>3. StageInv(o)' BY <2>2, <2>3 DEF StoreInv, OpInv, StageInv
    <3>4. DoneInv(o)' BY <1>1, <2>5, <2>7 DEF DoneInv, OpBecomes
    <3>5. BackupInv(o)' BY <1>1, <2>5, <2>10 DEF StoreInv, OpInv, BackupInv, OpBecomes
    <3>6. ReadyInv(o)' BY <2>5, PcWords DEF ReadyInv, OpBecomes
    <3> QED BY <3>1, <3>2, <3>3, <3>4, <3>5, <3>6 DEF OpInv
  <2> QED BY <2>6, <2>8, <2>9, <2>11, <2>12 DEF StoreInv
<1> QED BY <1>2, <1>3

LEMMA RecordKeeps == ASSUME StoreInv, Record PROVE StoreInv'
<1>0. /\ lease = NoOp /\ store.kind \in {"ok", "none"} /\ store \in StoreRecs /\ minted \in Nat
      /\ UNCHANGED <<staging, containers, quarantine, op, lease, derived, replaced, budget>>
      /\ \A q \in Ops : op[q].expect.epoch \in Nat /\ staging[q].store.epoch \in Nat
  BY DEF Record, StoreInv, StoreTypeOK, OpRecs, Stages, StoreRecs
<1>1. /\ store.epoch <= minted /\ minted >= 1
      /\ \A q \in Ops : op[q].expect.epoch <= minted /\ staging[q].store.epoch <= minted
  BY DEF StoreInv, FreshInv
<1>2. /\ store' \in StoreRecs /\ store'.kind = "ok" /\ store'.epoch > 0 /\ minted' \in Nat
      /\ \/ minted' = minted + 1 /\ store'.epoch = minted + 1
         \/ minted' = minted /\ store'.epoch = store.epoch /\ store.facts \subseteq store'.facts
  <2>1. CASE store.kind = "none"
    <3>1. store' = CreateEmpty /\ minted' = minted + 1 BY <2>1 DEF Record
    <3> QED BY <1>0, <3>1, HelperStores
  <2>2. CASE store.kind = "ok"
    <3>1. minted' = minted /\ \E f \in 2..MaxFacts : store' = [store EXCEPT !.facts = @ \cup {f}]
      BY <2>2 DEF Record
    <3>2. PICK f \in 2..MaxFacts : store' = [store EXCEPT !.facts = @ \cup {f}] BY <3>1
    <3>3. f \in Nat BY <3>2, BoundsAreNaturals
    <3>4. store.epoch > 0 BY <2>2 DEF StoreInv, LiveInv, Verified
    <3> QED BY <1>0, <2>2, <3>1, <3>2, <3>3, <3>4 DEF StoreRecs
  <2> QED BY <1>0, <2>1, <2>2
<1>3. StoreTypeOK' BY <1>0, <1>2 DEF StoreInv, StoreTypeOK
<1>4. LiveInv' BY <1>2 DEF LiveInv
<1>5. FreshInv'
  <2>1. \A q \in Ops : Fresh(q)' <=> Fresh(q) BY <1>0 DEF Fresh
  <2> QED BY <1>0, <1>1, <1>2, <2>1 DEF StoreInv, FreshInv, StoreRecs
<1>6. ASSUME NEW q \in Ops PROVE OpInv(q)'
  <2>1. lease # q /\ lease' # q BY <1>0, OperationShape
  <2>2. store'.epoch = op[q].expect.epoch => op[q].expect.facts \subseteq store'.facts
    BY <1>0, <1>1, <1>2 DEF StoreInv, OpInv, BackupInv
  <2> QED BY <1>0, <1>2, <2>1, <2>2, StoreChanges DEF StoreInv
<1> QED BY <1>3, <1>4, <1>5, <1>6 DEF StoreInv

----------------------------------------------------------------------------
(* The inductive invariant holds                                           *)

LEMMA StoreInitHolds == StoreOpsInit => StoreInv
<1> SUFFICES ASSUME StoreOpsInit PROVE StoreInv
  OBVIOUS
<1>1. \A k \in {"ok", "old", "bad", "none"} :
        /\ StartStore(k) \in StoreRecs /\ StartStore(k).kind = k
        /\ k = "none" => StartStore(k) = NoStore
        /\ k # "none" => /\ StartStore(k).hist = 1 /\ StartStore(k).epoch = 1
                         /\ StartStore(k).facts = {1}
  BY EmptyRecords DEF StartStore, StoreRecs
<1>2. PICK k \in StartKinds : store = StartStore(k) BY DEF StoreOpsInit
<1>3. /\ store \in StoreRecs /\ LiveInv /\ store.epoch <= 2
  BY <1>1, <1>2, OperationShape, EmptyRecords DEF LiveInv, Verified
<1>4. PICK w \in StartWhole :
        containers = [p \in Paths |->
             IF p = StartPath
             THEN [by |-> StartPath, store |-> [StartStore("ok") EXCEPT !.epoch = 2], whole |-> w]
             ELSE NoContainer]
  BY DEF StoreOpsInit
<1>5. containers \in [Paths -> Conts] /\ \A p \in Paths : containers[p].by \notin Ops
  <2> DEFINE s == [StartStore("ok") EXCEPT !.epoch = 2]
             c == [by |-> StartPath, store |-> s, whole |-> w]
  <2>1. s \in StoreRecs BY <1>1 DEF StoreRecs
  <2>2. w \in BOOLEAN BY <1>4, OperationShape
  <2> HIDE DEF s
  <2>3. c \in Conts /\ c.by = StartPath BY <2>1, <2>2, OperationShape DEF Conts
  <2>4. containers = [p \in Paths |-> IF p = StartPath THEN c ELSE NoContainer] BY <1>4 DEF s
  <2> HIDE DEF c
  <2> QED BY <2>3, <2>4, EmptyRecords, OperationShape
<1>6. /\ op \in [Ops -> OpRecs]
      /\ \A o \in Ops : /\ op[o].state = "new" /\ op[o].phase = "preflight" /\ op[o].at = "begin"
                        /\ op[o].expect = NoStore /\ ~op[o].cancel
  <2> DEFINE r == [state |-> "new", phase |-> "preflight", at |-> "begin",
                   expect |-> NoStore, cancel |-> FALSE, result |-> "none"]
  <2>1. /\ r \in OpRecs /\ r.state = "new" /\ r.phase = "preflight" /\ r.at = "begin"
        /\ r.expect = NoStore /\ ~r.cancel
    BY EmptyRecords, PcWords, StateWords DEF OpRecs, PhaseNames, Results
  <2>2. op = [o \in Ops |-> r] BY DEF StoreOpsInit
  <2> HIDE DEF r
  <2> QED BY <2>1, <2>2
<1>7. /\ staging \in [Ops -> Stages] /\ quarantine \in [Ops -> Copies] /\ replaced \in [Ops -> Nat]
      /\ \A o \in Ops : staging[o] = NoStage /\ replaced[o] = 0
      /\ lease = NoOp /\ minted = 2 /\ derived \in BOOLEAN /\ budget \in Budgets
  BY EmptyRecords, BoundsAreNaturals DEF StoreOpsInit, Budgets
<1>8. StoreTypeOK BY <1>3, <1>5, <1>6, <1>7 DEF StoreTypeOK
<1>9. FreshInv BY <1>3, <1>6, <1>7, EmptyRecords DEF FreshInv, Fresh
<1>10. ASSUME NEW o \in Ops PROVE OpInv(o)
  <2>1. op[o].at \notin LeasedPcs BY <1>6, PcWords
  <2>2. PhaseInv(o) BY <1>6 DEF PhaseInv
  <2>3. LeaseInv(o) BY <1>6, <1>7, <2>1, OperationShape DEF LeaseInv
  <2>4. StageInv(o) BY <1>7, EmptyRecords DEF StageInv
  <2>5. ReadyInv(o) BY <2>1, PcWords DEF ReadyInv
  <2>6. DoneInv(o) BY <1>6, <1>7, EmptyRecords DEF DoneInv
  <2>7. BackupInv(o) BY <1>5, <1>6, <1>7, EmptyRecords, OperationShape DEF BackupInv
  <2> QED BY <2>2, <2>3, <2>4, <2>5, <2>6, <2>7 DEF OpInv
<1> QED BY <1>3, <1>8, <1>9, <1>10 DEF StoreInv

LEMMA StepKeeps == ASSUME StoreInv, NEW o \in Ops, Step(o) PROVE StoreInv'
BY PreflightKeeps, WaitForQuiesceKeeps, StageKeepsInv, PublishNothingKeeps, TakeLeaseKeeps,
   PublishCheckKeeps, SnapshotCurrentKeeps, KeepCurrentKeeps, CopyToQuarantineKeeps,
   PublishQuarantineKeeps, ReplaceKeeps, MarkKeeps, PublishBackupKeeps, ReopenKeeps,
   CleanupKeeps, ReportKeeps DEF Step

LEMMA StoreInvInductive == StoreInv /\ [StoreOpsNext]_storeOpsVars => StoreInv'
<1> SUFFICES ASSUME StoreInv, [StoreOpsNext]_storeOpsVars PROVE StoreInv'
  OBVIOUS
<1>1. CASE UNCHANGED storeOpsVars
  BY <1>1 DEF storeOpsVars, StoreInv, StoreTypeOK, LiveInv, FreshInv, Fresh, OpInv, PhaseInv, LeaseInv,
              StageInv, ReadyInv, Kept, Quarantined, DoneInv, BackupInv, Verified
<1>2. CASE Record BY <1>2, RecordKeeps
<1>3. ASSUME NEW o \in Ops, Create(o) \/ Retry(o) \/ Crash(o) \/ Cancel(o) \/ Step(o) \/ Purge(o)
      PROVE  StoreInv'
  BY <1>3, CreateKeeps, RetryKeeps, CrashKeeps, CancelKeeps, StepKeeps, PurgeKeeps
<1> QED BY <1>1, <1>2, <1>3 DEF StoreOpsNext

\* The state of clear, restore, migrate, backup and quarantine stays together
\* (clear_operation.py, restore_operation.py, migrate_operation.py, backup_operation.py,
\* quarantine.py): the lease has one holder, what was checked under it still holds when
\* the store is replaced, and no two stores have one epoch.
THEOREM StoreInvHolds == StoreOpsSpec => []StoreInv
<1>1. StoreOpsInit => StoreInv BY StoreInitHolds
<1>2. StoreInv /\ [StoreOpsNext]_storeOpsVars => StoreInv' BY StoreInvInductive
<1> QED BY <1>1, <1>2, PTL DEF StoreOpsSpec

----------------------------------------------------------------------------
(* What is replaced was kept                                               *)

\* Only Replace counts a replacement.
LEMMA OnlyReplace ==
    ASSUME StoreInv, StoreOpsNext, NEW o \in Ops, replaced'[o] > replaced[o]
    PROVE  Replace(o) /\ staging[o].file
<1>0. replaced \in [Ops -> Nat] BY DEF StoreInv, StoreTypeOK
<1>1. ~Record BY <1>0 DEF Record
<1>2. PICK p \in Ops : Create(p) \/ Retry(p) \/ Crash(p) \/ Cancel(p) \/ Step(p) \/ Purge(p)
  BY <1>1 DEF StoreOpsNext
<1>3. replaced' # replaced BY <1>0
<1>4. ~Create(p) /\ ~Retry(p) /\ ~Crash(p) /\ ~Cancel(p) /\ ~Purge(p)
  BY <1>3 DEF Create, Retry, Crash, Cancel, Purge
<1>5. Replace(p)
  BY <1>2, <1>3, <1>4 DEF Step, Preflight, WaitForQuiesce, Stage, PublishNothing, TakeLease, PublishCheck,
     SnapshotCurrent, KeepCurrent, CopyToQuarantine, PublishQuarantine, Mark, PublishBackup, Reopen,
     Cleanup, Report
<1>6. staging[p].file /\ replaced' = [replaced EXCEPT ![p] = @ + 1]
  BY <1>3, <1>5 DEF Replace
<1>7. p = o BY <1>0, <1>6
<1> QED BY <1>5, <1>6, <1>7

LEMMA ReplacedWasKept ==
    ASSUME StoreInv, [StoreOpsNext]_storeOpsVars, NEW o \in Ops, replaced'[o] > replaced[o]
    PROVE  CASE o \in Keeps -> containers[Output[o]].by = o /\ containers[Output[o]].store = store
             [] Kind[o] = "restore" /\ Mode[o] = "unreadable" ->
                   Quarantined(o)
             [] Kind[o] = "migrate" -> store'.facts = store.facts /\ store'.hist = store.hist
             [] OTHER -> store.epoch = op[o].expect.epoch
<1>1. StoreOpsNext BY DEF StoreInv, StoreTypeOK, storeOpsVars
<1>2. Replace(o) /\ staging[o].file BY <1>1, OnlyReplace
<1>3. op[o].at = "safe" /\ store' = staging[o].store BY <1>2 DEF Replace, Running
<1>4. Kept(o) BY <1>2, <1>3, ReplaceKnows
<1>5. CASE o \in Keeps BY <1>4, <1>5, OperationShape DEF Kept
<1>6. CASE o \notin Keeps /\ Kind[o] = "restore" /\ Mode[o] = "unreadable"
  BY <1>4, <1>6 DEF Kept
<1>7. CASE o \notin Keeps /\ Kind[o] = "migrate"
  <2>1. store.kind = "old" BY <1>4, <1>7 DEF Kept
  <2>2. store.facts = {1} /\ store.hist = 1 BY <2>1 DEF StoreInv, LiveInv
  <2>3. staging[o].store.facts = {1} /\ staging[o].store.hist = 1
    BY <1>2, <1>7 DEF StoreInv, OpInv, StageInv
  <2> QED BY <1>3, <1>7, <2>2, <2>3
<1>8. CASE o \notin Keeps /\ ~(Kind[o] = "restore" /\ Mode[o] = "unreadable") /\ Kind[o] # "migrate"
  BY <1>4, <1>8 DEF Kept
<1> QED BY <1>5, <1>6, <1>7, <1>8

LEMMA BackupHonestFollows == StoreInv => BackupHonest
BY DEF StoreInv, OpInv, BackupInv, BackupHonest

\* What an operation promised to keep is kept before the store goes, and a finished
\* backup.create is at its destination with the facts it was asked for
\* (restore_operation.py, migrate_operation.py, clear_operation.py, backup_operation.py,
\* quarantine.py).
THEOREM ReplacementSafeHolds == StoreOpsSpec => ReplacementSafe
<1>1. StoreInv /\ [StoreOpsNext]_storeOpsVars =>
        \A o \in Ops : replaced'[o] > replaced[o] =>
          CASE o \in Keeps -> containers[Output[o]].by = o /\ containers[Output[o]].store = store
            [] Kind[o] = "restore" /\ Mode[o] = "unreadable" ->
                  Quarantined(o)
            [] Kind[o] = "migrate" -> store'.facts = store.facts /\ store'.hist = store.hist
            [] OTHER -> store.epoch = op[o].expect.epoch
  <2> SUFFICES ASSUME StoreInv, [StoreOpsNext]_storeOpsVars, NEW o \in Ops, replaced'[o] > replaced[o]
               PROVE  CASE o \in Keeps -> containers[Output[o]].by = o /\ containers[Output[o]].store = store
                        [] Kind[o] = "restore" /\ Mode[o] = "unreadable" ->
                              Quarantined(o)
                        [] Kind[o] = "migrate" -> store'.facts = store.facts /\ store'.hist = store.hist
                        [] OTHER -> store.epoch = op[o].expect.epoch
    OBVIOUS
  <2> QED BY ReplacedWasKept
<1>2. StoreOpsSpec => []StoreInv BY StoreInvHolds
<1>3. StoreInv => BackupHonest BY BackupHonestFollows
<1> QED BY <1>1, <1>2, <1>3, PTL DEF StoreOpsSpec, ReplacementSafe, NeverReplacedUnkept

----------------------------------------------------------------------------
(* An operation knows its own publication                                  *)

\* What a retried operation finds when the store on disk is its own.
OwnLive(o) ==
    /\ replaced[o] > 0 /\ Verified(store) /\ store.epoch = staging[o].store.epoch
    /\ lease \in {NoOp, o} /\ op[o].state = "running" /\ ~op[o].cancel

LEMMA OwnFacts ==
    ASSUME StoreInv, NEW o \in Ops, OwnLive(o)
    PROVE  /\ staging[o].state = "complete" /\ store.kind = "ok" /\ op[o].phase \in Late
           /\ Kind[o] \in {"clear", "restore", "migrate"}
           /\ op[o].at \notin {"keep", "keeping", "quarantine", "copied", "safe"}
           /\ op[o].at = "leased" => Kind[o] # "migrate"
           /\ op[o].at \in {"begin", "swept"} => lease = NoOp /\ LiveIdentity = "read"
           /\ Kind[o] # "migrate" => AlreadyPublished(o)
<1>1. store.epoch > 0 /\ store.epoch \in Nat
  BY DEF OwnLive, StoreInv, LiveInv, StoreTypeOK, StoreRecs
<1>2. staging[o].state = "complete" BY <1>1 DEF OwnLive, StoreInv, OpInv, StageInv
<1>3. store.kind = "ok" /\ op[o].phase \in Late /\ Kind[o] # "backup"
  BY DEF OwnLive, StoreInv, OpInv, DoneInv, Late
<1>4. op[o].at \in BeforeReplace => Kind[o] # "migrate"
  BY <1>3 DEF StoreInv, OpInv, ReadyInv
<1>5. op[o].at \notin BeforeReplace \ {"leased"}
  BY <1>4 DEF OwnLive, StoreInv, OpInv, ReadyInv
<1>6. op[o].at \in {"begin", "swept"} => lease = NoOp BY NotLeased DEF OwnLive
<1>7. lease = NoOp => LiveIdentity = "read" BY <1>3, ReadMeans
<1>8. Kind[o] # "migrate" => AlreadyPublished(o) BY DEF AlreadyPublished, OwnLive
<1> QED BY <1>2, <1>3, <1>4, <1>5, <1>6, <1>7, <1>8, OperationShape DEF BeforeReplace

\* Moving on does not block.
LEMMA MovesOn ==
    ASSUME StoreInv, NEW o \in Ops, op[o].state = "running",
           Advance(o) \/ \E w \in Pcs : At(o, w)
    PROVE  op'[o].state # "blocked"
BY DEF StoreInv, StoreTypeOK, OpRecs, Advance, At

LEMMA OwnPublish ==
    ASSUME StoreInv, NEW o \in Ops, OwnLive(o),
           \/ Preflight(o) \/ WaitForQuiesce(o) \/ Stage(o) \/ PublishNothing(o) \/ TakeLease(o)
           \/ PublishCheck(o) \/ Mark(o) \/ PublishBackup(o)
    PROVE  op'[o].state # "blocked"
<1>0. op[o].state = "running" BY DEF OwnLive
<1>1. ~Preflight(o) /\ ~WaitForQuiesce(o) /\ ~Stage(o) /\ ~PublishBackup(o)
  BY OwnFacts DEF Preflight, WaitForQuiesce, Stage, PublishBackup, Running, Late
<1>2. CASE PublishNothing(o)
  <2>1. Kind[o] = "migrate"
    BY <1>2, OwnFacts DEF PublishNothing, NothingStaged, StagingComplete
  <2>2. Disposition(o) = "noop"
    BY <2>1, OwnFacts DEF Disposition, MigrateDisposition, Schema
  <2> QED BY <1>0, <1>2, <2>1, <2>2, MovesOn DEF PublishNothing
<1>3. CASE TakeLease(o)
  <2>1. lease = NoOp BY <1>3, OwnFacts DEF TakeLease, Running
  <2> QED BY <1>0, <1>3, <2>1, MovesOn, PcWords DEF TakeLease
<1>4. CASE PublishCheck(o)
  <2>1. AlreadyPublished(o) BY <1>4, OwnFacts DEF PublishCheck, Running
  <2>2. At(o, "replaced") BY <1>4, <2>1 DEF PublishCheck
  <2> QED BY <1>0, <2>2, MovesOn, PcWords
<1>5. CASE Mark(o)
  <2>1. Advance(o) BY <1>5, OwnFacts DEF Mark
  <2> QED BY <1>0, <2>1, MovesOn
<1> QED BY <1>1, <1>2, <1>3, <1>4, <1>5

LEMMA OwnReopen ==
    ASSUME StoreInv, NEW o \in Ops, OwnLive(o), Reopen(o) \/ Cleanup(o) \/ Report(o)
    PROVE  op'[o].state # "blocked"
<1>0. op[o].state = "running" /\ ~op[o].cancel BY DEF OwnLive
<1>1. CASE Reopen(o)
  <2>1. LiveIdentity = "read" BY <1>1, OwnFacts DEF Reopen, Running
  <2>2. CASE Kind[o] = "clear"
    <3>1. ReopenClear(o) BY <2>1, <2>2, OwnFacts DEF ReopenClear
    <3>2. Advance(o) BY <1>0, <1>1, <2>2, <3>1 DEF Reopen
    <3> QED BY <1>0, <3>2, MovesOn
  <2>3. CASE Kind[o] = "migrate"
    <3>1. ReopenMigrate BY OwnFacts DEF ReopenMigrate, Schema
    <3>2. Advance(o) BY <1>0, <1>1, <2>3, <3>1 DEF Reopen
    <3> QED BY <1>0, <3>2, MovesOn
  <2>4. CASE Kind[o] = "restore"
    <3>1. ReopenRestore(o) BY <2>1, <2>4, OwnFacts DEF ReopenRestore
    <3>2. Advance(o) BY <1>0, <1>1, <2>4, <3>1 DEF Reopen
    <3> QED BY <1>0, <3>2, MovesOn
  <2> QED BY <2>2, <2>3, <2>4, OwnFacts
<1>2. CASE Cleanup(o)
  <2>1. LiveIdentity = "read" BY <1>2, OwnFacts DEF Cleanup, Running
  <2>2. Kind[o] \in {"clear", "restore"} BY <1>2, OwnFacts, PhaseKinds DEF Cleanup, Running
  <2>3. \E r \in {ClearOutcome(o), RestoreOutcome(o)} :
          op' = [op EXCEPT ![o].at = "swept", ![o].result = r]
    BY <1>2, <2>1, <2>2 DEF Cleanup
  <2>4. PICK r \in {ClearOutcome(o), RestoreOutcome(o)} :
          op' = [op EXCEPT ![o].at = "swept", ![o].result = r]
    BY <2>3
  <2> QED BY <1>0, <2>4 DEF StoreInv, StoreTypeOK, OpRecs
<1>3. CASE Report(o)
  <2> DEFINE result == IF Kind[o] = "migrate" THEN "migrated" ELSE op[o].result
  <2>1. op' = [op EXCEPT ![o].state = "succeeded", ![o].at = "begin", ![o].result = result]
    BY <1>0, <1>3, Zenon DEF Report
  <2> HIDE DEF result
  <2> QED BY <2>1 DEF StoreInv, StoreTypeOK, OpRecs
<1> QED BY <1>1, <1>2, <1>3

LEMMA OwnStep ==
    ASSUME StoreInv, [StoreOpsNext]_storeOpsVars, NEW o \in Ops, OwnLive(o)
    PROVE  op'[o].state # "blocked" \/ budget'.crashes < budget.crashes
<1>0. op[o].state = "running" /\ op \in [Ops -> OpRecs] BY DEF OwnLive, StoreInv, StoreTypeOK
<1>1. CASE op' = op BY <1>0, <1>1
<1>2. ASSUME NEW p \in Ops, Create(p) \/ Retry(p) \/ Crash(p) \/ Cancel(p) \/ Step(p), p # o
      PROVE  op'[o] = op[o]
  BY <1>0, <1>2 DEF Create, Retry, Crash, Cancel, Step, Preflight, WaitForQuiesce, Stage, PublishNothing,
     TakeLease, PublishCheck, SnapshotCurrent, KeepCurrent, CopyToQuarantine, PublishQuarantine, Replace,
     Mark, PublishBackup, Reopen, Cleanup, Report, Abort, At, Block, Advance
<1>3. CASE Crash(o)
  BY <1>3 DEF Crash, StoreInv, StoreTypeOK, Budgets
<1>4. CASE Create(o) \/ Retry(o)
  BY <1>0, <1>4 DEF Create, Retry
<1>5. CASE Cancel(o)
  BY <1>5, OwnFacts DEF Cancel, Late
<1>6. CASE Step(o)
  <2>1. ~SnapshotCurrent(o) /\ ~KeepCurrent(o) /\ ~CopyToQuarantine(o) /\ ~PublishQuarantine(o) /\ ~Replace(o)
    BY OwnFacts DEF SnapshotCurrent, KeepCurrent, CopyToQuarantine, PublishQuarantine, Replace, Running
  <2> QED BY <1>6, <2>1, OwnPublish, OwnReopen DEF Step
<1>7. CASE Record \/ UNCHANGED storeOpsVars BY <1>1, <1>7 DEF Record, storeOpsVars
<1>8. ASSUME NEW p \in Ops, Purge(p) PROVE op' = op BY <1>8 DEF Purge
<1>9. ASSUME NEW p \in Ops, Create(p) \/ Retry(p) \/ Crash(p) \/ Cancel(p) \/ Step(p)
      PROVE  op'[o].state # "blocked" \/ budget'.crashes < budget.crashes
  <2>1. CASE p = o BY <1>3, <1>4, <1>5, <1>6, <1>9, <2>1
  <2>2. CASE p # o
    <3>1. op'[o] = op[o] BY <1>2, <1>9, <2>2
    <3> QED BY <1>0, <3>1
  <2> QED BY <2>1, <2>2
<1> QED BY <1>1, <1>7, <1>8, <1>9 DEF StoreOpsNext

\* An operation that died between the replacement and its marker and is retried knows
\* its own store (clear_operation.py, restore_operation.py, migrate_operation.py): while
\* that store is live and nobody else has the lease, no step but a crash blocks it.
THEOREM OwnPublicationHolds == StoreOpsSpec => OwnPublicationKnown
<1>1. StoreInv /\ [StoreOpsNext]_storeOpsVars =>
        \A o \in Ops :
          /\ replaced[o] > 0 /\ Verified(store) /\ store.epoch = staging[o].store.epoch
          /\ lease \in {NoOp, o} /\ op[o].state = "running" /\ ~op[o].cancel
          => op'[o].state # "blocked" \/ budget'.crashes < budget.crashes
  BY OwnStep DEF OwnLive
<1>2. StoreOpsSpec => []StoreInv BY StoreInvHolds
<1> QED BY <1>1, <1>2, PTL DEF StoreOpsSpec, OwnPublicationKnown

----------------------------------------------------------------------------
(* The fact store of the processes: the inductive invariant                *)

Clocks == Nat \X Nat
FileRoles == {"copy", "empty", "migrated", "prepared"}
FileStores == [kind : {"store"}, schema : Nat, format : Nat, hist : Nat, epoch : Nat,
               clock : Clocks, facts : Seq(Rows), wal : BOOLEAN, role : FileRoles]
ConnModes == {"recorder", "maintenance", "exclusive"}
Conns == [pc : {"closed", "leased", "classified", "open"}, mode : ConnModes \cup {"none"},
          sawMeta : BOOLEAN, clock : Clocks]
Txns == [by : Procs, commit : Nat, clock : Clocks, added : Seq(Rows)]

StoreTypes ==
    /\ root \in LiveStores \cup {Absent}
    /\ staged \in [Files -> FileStores \cup {Absent}]
    /\ conn \in [Procs -> Conns]
    /\ storeLease \in {"free", "exclusive"}
    /\ txn \in Txns \cup {NoTxn}
    /\ wall \in 0 .. MaxWall /\ ids \in Nat /\ snaps \in Nat

\* A process that is not closed holds the lease its mode asks for, and one
\* that is open has a store in front of it that its mode accepts.
ConnInv ==
    \A p \in Procs :
        /\ conn[p].pc = "closed" <=> conn[p].mode = "none"
        /\ conn[p].mode = "exclusive" => storeLease = "exclusive"
        /\ conn[p].mode \in {"recorder", "maintenance"} => storeLease = "free"
        /\ conn[p].pc = "open" => IsStore(root) /\ Accepted(root, conn[p].mode)

\* The batch in progress is a recorder's, stands above the stored clock in
\* order, and nobody else has moved that clock.
Stacked(added, low, high) ==
    /\ HlcLeq(low, high)
    /\ \A i, j \in DOMAIN added : i < j => HlcLess(added[i].hlc, added[j].hlc)
    /\ \A i \in DOMAIN added : HlcLess(low, added[i].hlc) /\ HlcLeq(added[i].hlc, high)
BatchInv ==
    txn # NoTxn =>
        /\ conn[txn.by].pc = "open" /\ conn[txn.by].mode = "recorder"
        /\ IsStore(root) /\ Stacked(txn.added, root.clock, txn.clock)

\* Every store has its facts in order; a file is closed and can be inspected.
FilesInv ==
    /\ IsStore(root) => InOrder(root)
    /\ \A f \in Files : IsStore(staged[f]) =>
          /\ InOrder(staged[f]) /\ ~staged[f].wal /\ Accepted(staged[f], "maintenance")

\* Identities come from one counter: the epoch of a prepared or of an empty
\* file is nobody else's.
EpochInv ==
    /\ IsStore(root) => root.epoch < ids
    /\ \A f \in Files : IsStore(staged[f]) =>
          /\ staged[f].epoch < ids
          /\ staged[f].role \in {"empty", "prepared"} =>
                /\ IsStore(root) => staged[f].epoch # root.epoch
                /\ \A g \in Files \ {f} : IsStore(staged[g]) => staged[g].epoch # staged[f].epoch

\* An old live store is the one that was there at first: no recorder may open
\* it, so every copy of it is still a copy, and every migrated copy what the
\* chain makes of it.
IsOld(s) == s.schema # SchemaNow
OldInv ==
    /\ \A f \in Files : IsStore(staged[f]) /\ staged[f].role # "copy" => ~IsOld(staged[f])
    /\ IsStore(root) /\ IsOld(root) =>
          \A f \in Files : IsStore(staged[f]) =>
              /\ staged[f].role = "copy" =>
                    /\ staged[f].facts = root.facts /\ staged[f].clock = root.clock
                    /\ staged[f].schema = root.schema /\ staged[f].epoch = root.epoch
              /\ staged[f].role = "migrated" =>
                    /\ staged[f].facts = ApplyChain(root) /\ staged[f].clock = root.clock
                    /\ staged[f].epoch = root.epoch => ~ChainChanges(root)

\* A file that has the epoch of the live store is a past of it, and of two
\* files with one epoch the older is a past of the younger.
Past(s, t) == QueryActiveEventsAsOf(s, s.clock) = QueryActiveEventsAsOf(t, s.clock)
PastInv ==
    \A f \in Files : IsStore(staged[f]) =>
        /\ IsStore(root) /\ staged[f].epoch = root.epoch =>
              HlcLeq(staged[f].clock, root.clock) /\ Past(staged[f], root)
        /\ \A g \in Files :
              IsStore(staged[g]) /\ staged[f].epoch = staged[g].epoch /\ HlcLeq(staged[f].clock, staged[g].clock) =>
                  Past(staged[f], staged[g])

FactInv == StoreTypes /\ ConnInv /\ BatchInv /\ FilesInv /\ EpochInv /\ OldInv /\ PastInv

----------------------------------------------------------------------------
(* Clocks                                                                  *)

\* The hybrid clock is a total order.
LEMMA HlcOrder ==
  /\ \A a \in Clocks : ~HlcLess(a, a) /\ HlcLeq(a, a)
  /\ \A a, b \in Clocks : HlcLess(a, b) => HlcLeq(a, b) /\ ~HlcLeq(b, a)
  /\ \A a, b \in Clocks : ~HlcLeq(b, a) => HlcLess(a, b)
  /\ \A a, b \in Clocks : HlcLeq(a, b) /\ HlcLeq(b, a) => a = b
  /\ \A a, b, c \in Clocks : HlcLeq(a, b) /\ HlcLeq(b, c) => HlcLeq(a, c)
  /\ \A a, b, c \in Clocks : HlcLeq(a, b) /\ HlcLess(b, c) => HlcLess(a, c)
  /\ \A a, b, c \in Clocks : HlcLess(a, b) /\ HlcLeq(b, c) => HlcLess(a, c)
<1>1. \A a \in Clocks : a[1] \in Nat /\ a[2] \in Nat /\ a = <<a[1], a[2]>>
  BY DEF Clocks
<1>2. \A a, b \in Clocks : a = b <=> a[1] = b[1] /\ a[2] = b[2]
  BY <1>1
<1>3. \A a \in Clocks : ~HlcLess(a, a) /\ HlcLeq(a, a)
  BY <1>1 DEF HlcLess, HlcLeq
<1>4. \A a, b \in Clocks : HlcLess(a, b) => HlcLeq(a, b) /\ ~HlcLeq(b, a)
  BY <1>1, <1>2 DEF HlcLess, HlcLeq
<1>5. \A a, b \in Clocks : ~HlcLeq(b, a) => HlcLess(a, b)
  BY <1>1, <1>2 DEF HlcLess, HlcLeq
<1>6. \A a, b \in Clocks : HlcLeq(a, b) /\ HlcLeq(b, a) => a = b
  BY <1>1, <1>2 DEF HlcLess, HlcLeq
<1>7. \A a, b, c \in Clocks : HlcLess(a, b) /\ HlcLess(b, c) => HlcLess(a, c)
  BY <1>1 DEF HlcLess
<1>8. \A a, b, c \in Clocks : HlcLeq(a, b) /\ HlcLeq(b, c) => HlcLeq(a, c)
  BY <1>7 DEF HlcLeq
<1>9. \A a, b, c \in Clocks : HlcLeq(a, b) /\ HlcLess(b, c) => HlcLess(a, c)
  BY <1>7 DEF HlcLeq
<1>10. \A a, b, c \in Clocks : HlcLess(a, b) /\ HlcLeq(b, c) => HlcLess(a, c)
  BY <1>7 DEF HlcLeq
<1> QED BY <1>3, <1>4, <1>5, <1>6, <1>8, <1>9, <1>10

\* A tick goes up, whatever the wall clock says.
LEMMA TickGoesUp ==
  ASSUME NEW c \in Clocks, NEW now \in Nat
  PROVE  GiveTick(c, now) \in Clocks /\ HlcLess(c, GiveTick(c, now))
BY DEF GiveTick, Clocks, HlcLess

----------------------------------------------------------------------------
(* Rows and what is read of them                                           *)

\* The rows of a store have their types.
LEMMA RowTypes ==
  ASSUME NEW facts \in Seq(Rows)
  PROVE  /\ Len(facts) \in Nat /\ DOMAIN facts = 1..Len(facts)
         /\ \A i \in DOMAIN facts : facts[i] \in Rows /\ facts[i].hlc \in Clocks
<1>1. Len(facts) \in Nat /\ DOMAIN facts = 1..Len(facts) /\ \A i \in DOMAIN facts : facts[i] \in Rows
  OBVIOUS
<1> QED BY <1>1 DEF Rows, Clocks

\* The rows up to a point, and those among them that nothing withdraws.
UpTo(facts, point) == {i \in DOMAIN facts : HlcLeq(facts[i].hlc, point)}
Active(facts, point) ==
    {i \in UpTo(facts, point) :
        /\ facts[i].kind = "event"
        /\ ~\E r \in UpTo(facts, point) : facts[r].kind = "retraction" /\ facts[r].commit = facts[i].commit}

\* An as-of read is what the active rows say.
LEMMA QueryIs ==
  ASSUME NEW s, NEW point
  PROVE  QueryActiveEventsAsOf(s, point) =
           {<<s.facts[i].hlc, s.facts[i].commit, s.facts[i].text>> : i \in Active(s.facts, point)}
BY DEF QueryActiveEventsAsOf, Active, UpTo

\* Two rows that differ at most in their format.
SameRow(a, b) ==
    /\ a.kind = b.kind /\ a.commit = b.commit /\ a.hlc = b.hlc
    /\ a.kind = "event" => a.text = b.text

\* A read depends on nothing but the rows up to its point.
LEMMA QuerySame ==
  ASSUME NEW s, NEW t, NEW point,
         UpTo(s.facts, point) = UpTo(t.facts, point),
         \A i \in UpTo(s.facts, point) : SameRow(s.facts[i], t.facts[i])
  PROVE  QueryActiveEventsAsOf(s, point) = QueryActiveEventsAsOf(t, point)
<1> DEFINE U == UpTo(s.facts, point)
<1>1. \A i \in U : i \in Active(s.facts, point) <=> i \in Active(t.facts, point)
  BY DEF Active, SameRow
<1>2. Active(s.facts, point) = Active(t.facts, point)
  BY <1>1 DEF Active
<1>3. \A i \in Active(s.facts, point) :
         <<s.facts[i].hlc, s.facts[i].commit, s.facts[i].text>> = <<t.facts[i].hlc, t.facts[i].commit, t.facts[i].text>>
  BY DEF Active, SameRow
<1> HIDE DEF U
<1> QED BY <1>2, <1>3, QueryIs

\* Rows appended above a point do not show in it.
LEMMA QueryAppended ==
  ASSUME NEW s, NEW t, NEW added \in Seq(Rows), NEW point \in Clocks,
         s.facts \in Seq(Rows), t.facts = s.facts \o added,
         \A i \in DOMAIN added : HlcLess(point, added[i].hlc)
  PROVE  QueryActiveEventsAsOf(s, point) = QueryActiveEventsAsOf(t, point)
<1> DEFINE m == Len(s.facts)
           n == Len(added)
<1>1. /\ m \in Nat /\ n \in Nat /\ DOMAIN s.facts = 1..m /\ DOMAIN added = 1..n
      /\ \A i \in DOMAIN added : added[i].hlc \in Clocks
  BY RowTypes
<1>2. /\ DOMAIN t.facts = 1..(m + n)
      /\ \A i \in 1..m : t.facts[i] = s.facts[i]
      /\ \A i \in (m + 1)..(m + n) : i - m \in 1..n /\ t.facts[i] = added[i - m]
  BY <1>1
<1>3. \A i \in (m + 1)..(m + n) : ~HlcLeq(t.facts[i].hlc, point)
  <2>1. \A j \in 1..n : ~HlcLeq(added[j].hlc, point)
    BY <1>1, HlcOrder
  <2> HIDE DEF m, n
  <2> QED BY <1>2, <2>1
<1>4. UpTo(s.facts, point) = UpTo(t.facts, point)
  <2>1. \A i \in 1..(m + n) : i \in 1..m \/ i \in (m + 1)..(m + n)
    BY <1>1
  <2>2. \A i : i \in 1..m => i \in 1..(m + n)
    BY <1>1
  <2> HIDE DEF m, n
  <2> QED BY <1>1, <1>2, <1>3, <2>1, <2>2 DEF UpTo
<1>5. \A i \in UpTo(s.facts, point) : SameRow(s.facts[i], t.facts[i])
  BY <1>1, <1>2 DEF UpTo, SameRow
<1> QED BY <1>4, <1>5, QuerySame

\* What the chain makes of a store has its rows.
LEMMA ChainRows ==
  ASSUME NEW s, s.facts \in Seq(Rows)
  PROVE  /\ ApplyChain(s) \in Seq(Rows) /\ DOMAIN ApplyChain(s) = DOMAIN s.facts
         /\ \A i \in DOMAIN s.facts : /\ ApplyChain(s)[i].kind = s.facts[i].kind
                                      /\ ApplyChain(s)[i].commit = s.facts[i].commit
                                      /\ ApplyChain(s)[i].hlc = s.facts[i].hlc
         /\ ~Steps[s.schema].recode => \A i \in DOMAIN s.facts : SameRow(s.facts[i], ApplyChain(s)[i])
<1> DEFINE step == Steps[s.schema]
           Row(i) == IF s.facts[i].kind = "event" THEN ProjectRow(s.facts[i], step) ELSE s.facts[i]
<1>1. ASSUME NEW i \in DOMAIN s.facts
      PROVE  /\ Row(i) \in Rows /\ Row(i).kind = s.facts[i].kind
             /\ Row(i).commit = s.facts[i].commit /\ Row(i).hlc = s.facts[i].hlc
             /\ ~step.recode => Row(i).text = s.facts[i].text
  <2> DEFINE r == s.facts[i]
  <2>1. r \in Rows
    BY RowTypes
  <2>2. FormatNow \in Nat
    BY VersionsAssumption
  <2> HIDE DEF step
  <2> DEFINE text == IF step.recode /\ r.text = "long" THEN "short" ELSE r.text
  <2>3. ProjectRow(r, step) = IF r.format = FormatNow THEN r ELSE [r EXCEPT !.format = FormatNow, !.text = text]
    BY DEF ProjectRow
  <2>4. text \in Texts /\ (~step.recode => text = r.text)
    BY <2>1 DEF Rows, Texts
  <2>5. Row(i) = r \/ Row(i) = [r EXCEPT !.format = FormatNow, !.text = text]
    BY <2>3
  <2> HIDE DEF r, text, Row
  <2>6. CASE Row(i) = r
    BY <2>1, <2>6 DEF r
  <2>7. CASE Row(i) = [r EXCEPT !.format = FormatNow, !.text = text]
    <3>1. /\ Row(i) \in Rows /\ Row(i).kind = r.kind /\ Row(i).commit = r.commit /\ Row(i).hlc = r.hlc
          /\ Row(i).text = text
      BY <2>1, <2>2, <2>4, <2>7 DEF Rows
    <3> QED BY <3>1, <2>4 DEF r
  <2> QED BY <2>5, <2>6, <2>7
<1>2. ApplyChain(s) = [i \in DOMAIN s.facts |-> Row(i)]
  BY DEF ApplyChain
<1> HIDE DEF Row
<1>3. Len(s.facts) \in Nat /\ DOMAIN s.facts = 1..Len(s.facts)
  BY RowTypes
<1>4. ApplyChain(s) \in Seq(Rows) /\ DOMAIN ApplyChain(s) = DOMAIN s.facts
  BY <1>1, <1>2, <1>3
<1>5. \A i \in DOMAIN s.facts : ApplyChain(s)[i] = Row(i)
  BY <1>2
<1>6. ~step.recode => \A i \in DOMAIN s.facts : SameRow(s.facts[i], ApplyChain(s)[i])
  BY <1>1, <1>5 DEF SameRow
<1>7. \A i \in DOMAIN s.facts : /\ ApplyChain(s)[i].kind = s.facts[i].kind
                                /\ ApplyChain(s)[i].commit = s.facts[i].commit
                                /\ ApplyChain(s)[i].hlc = s.facts[i].hlc
  BY <1>1, <1>5
<1> QED BY <1>4, <1>6, <1>7

----------------------------------------------------------------------------
(* Stores, versions and what a step does to them                           *)

\* The stores among the values of the root and of a file.
LEMMA StoresAre ==
  ASSUME StoreTypes
  PROVE  /\ IsStore(root) <=> root \in LiveStores
         /\ IsStore(root) <=> root # Absent
         /\ \A f \in Files : /\ IsStore(staged[f]) <=> staged[f] \in FileStores
                             /\ IsStore(staged[f]) <=> staged[f] # Absent
         /\ ~IsStore(Absent)
<1>1. \A s \in LiveStores : s.kind = "store"
  BY DEF LiveStores
<1>2. \A s \in FileStores : s.kind = "store"
  BY DEF FileStores
<1>3. Absent.kind # "store"
  BY DEF Absent
<1>4. root \in LiveStores \cup {Absent} /\ \A f \in Files : staged[f] \in FileStores \cup {Absent}
  BY DEF StoreTypes
<1> QED BY <1>1, <1>2, <1>3, <1>4 DEF IsStore

\* The fields of a store, live or not.
LEMMA StoreFieldsAre ==
  ASSUME NEW s \in LiveStores \cup FileStores
  PROVE  /\ s.kind = "store" /\ s.schema \in Nat /\ s.format \in Nat /\ s.hist \in Nat /\ s.epoch \in Nat
         /\ s.clock \in Clocks /\ s.facts \in Seq(Rows) /\ s.wal \in BOOLEAN
         /\ s \in FileStores => s.role \in FileRoles
BY DEF LiveStores, FileStores, Clocks

\* A file made of a store, and a live store made of a file.
LEMMA CopiesTyped ==
  ASSUME NEW s \in LiveStores \cup FileStores, NEW role \in FileRoles
  PROVE  /\ Standalone(s, role) \in FileStores /\ Live(s) \in LiveStores
         /\ Standalone(s, role).role = role /\ ~Standalone(s, role).wal
         /\ \A t \in {Standalone(s, role), Live(s)} :
               /\ t.schema = s.schema /\ t.format = s.format /\ t.hist = s.hist /\ t.epoch = s.epoch
               /\ t.clock = s.clock /\ t.facts = s.facts
<1>1. /\ s.schema \in Nat /\ s.format \in Nat /\ s.hist \in Nat /\ s.epoch \in Nat
      /\ s.clock \in Clocks /\ s.facts \in Seq(Rows)
  BY StoreFieldsAre
<1> QED BY <1>1 DEF Standalone, Live, FileStores, LiveStores, Clocks

\* A fresh store.
LEMMA FreshStore ==
  ASSUME NEW id \in Nat, NEW now \in Nat
  PROVE  LET s == InitializeMeta(id, now)
         IN  /\ s \in LiveStores /\ s.epoch = id + 1 /\ s.schema = SchemaNow /\ s.format = FormatNow
             /\ s.facts = <<>> /\ s.clock \in Clocks /\ InOrder(s)
<1>1. <<>> \in Seq(Rows) /\ <<now, 0>> \in Clocks /\ SchemaNow \in Nat /\ FormatNow \in Nat
      /\ DOMAIN <<>> = {}
  BY VersionsAssumption DEF Clocks
<1>2. <<>> \in Seq(Rows) /\ DOMAIN <<>> = {}
  OBVIOUS
<1> QED BY <1>1, <1>2 DEF InitializeMeta, LiveStores, Clocks, InOrder

\* What the modes accept.
LEMMA AcceptedIs ==
  ASSUME NEW s \in LiveStores \cup FileStores
  PROVE  /\ \A mode \in ConnModes : ValidateMeta(s, mode) = "ok" <=> Accepted(s, mode)
         /\ Accepted(s, "recorder") => ~IsOld(s)
         /\ \A mode \in ConnModes : Accepted(s, mode) => Accepted(s, "maintenance")
         /\ Accepted(s, "exclusive") <=> Accepted(s, "maintenance")
         /\ s.schema = SchemaNow /\ s.format = FormatNow => \A mode \in ConnModes : Accepted(s, mode)
         /\ DispositionFor(s.schema) = "needs_migration" => IsOld(s) /\ s.schema \in DOMAIN Steps
         /\ DispositionFor(s.schema) = "current" <=> ~IsOld(s)
<1>1. s.schema \in Nat /\ s.format \in Nat /\ SchemaNow \in Nat /\ FormatNow \in Nat
  BY StoreFieldsAre, VersionsAssumption
<1>2. DispositionFor(s.schema) \in {"current", "unsupported", "needs_migration", "missing_step"}
  BY DEF DispositionFor
<1>3. DispositionFor(s.schema) = "current" <=> ~IsOld(s)
  BY DEF DispositionFor, CurrentSchemaHead, IsOld
<1>4. DispositionFor(s.schema) = "needs_migration" => IsOld(s) /\ s.schema \in DOMAIN Steps
  <2> SUFFICES ASSUME DispositionFor(s.schema) = "needs_migration"
               PROVE  IsOld(s) /\ s.schema \in DOMAIN Steps
    OBVIOUS
  <2>1. s.schema # SchemaNow /\ ~(s.schema > SchemaNow) /\ s.schema .. (SchemaNow - 1) \subseteq DOMAIN Steps
    BY DEF DispositionFor, CurrentSchemaHead
  <2>2. s.schema \in s.schema .. (SchemaNow - 1)
    BY <1>1, <2>1
  <2> QED BY <2>1, <2>2 DEF IsOld
<1>5. \A mode \in ConnModes : ValidateMeta(s, mode) = "ok" <=> Accepted(s, mode)
  BY <1>2 DEF ValidateMeta, Accepted, ConnModes
<1>6. Accepted(s, "recorder") => ~IsOld(s)
  BY <1>3 DEF Accepted
<1>7. /\ \A mode \in ConnModes : Accepted(s, mode) => Accepted(s, "maintenance")
      /\ Accepted(s, "exclusive") <=> Accepted(s, "maintenance")
  BY DEF Accepted, ConnModes
<1>8. s.schema = SchemaNow /\ s.format = FormatNow => \A mode \in ConnModes : Accepted(s, mode)
  BY <1>1, <1>3 DEF Accepted, IsOld, EventFormatIsTooNew
<1> QED BY <1>3, <1>4, <1>5, <1>6, <1>7, <1>8

\* Acceptance looks at the two versions only.
LEMMA AcceptedSame ==
  ASSUME NEW s, NEW t, s.schema = t.schema, s.format = t.format, NEW mode, Accepted(s, mode)
  PROVE  Accepted(t, mode)
BY DEF Accepted, EventFormatIsTooNew

\* What a step can do to the stores.
Quiet == UNCHANGED <<root, staged, ids>>
Creates == ~IsStore(root) /\ root' = InitializeMeta(ids, wall) /\ ids' = ids + 2 /\ UNCHANGED staged
Extends ==
    /\ IsStore(root) /\ ~IsOld(root) /\ ids <= ids' /\ UNCHANGED staged
    /\ \E added \in Seq(Rows) : \E c \in Clocks :
          /\ Stacked(added, root.clock, c)
          /\ root' = [root EXCEPT !.facts = @ \o added, !.clock = c]
CopiesRoot(f) ==
    /\ IsStore(root) /\ Accepted(root, "maintenance") /\ ~IsStore(staged[f])
    /\ staged' = [staged EXCEPT ![f] = Standalone(root, "copy")] /\ UNCHANGED <<root, ids>>
Empties(f) ==
    /\ ~IsStore(staged[f]) /\ ids' = ids + 2 /\ UNCHANGED root
    /\ staged' = [staged EXCEPT ![f] = Standalone(InitializeMeta(ids, wall), "empty")]
Migrates(f) ==
    /\ IsStore(staged[f]) /\ staged[f].role = "copy" /\ ids' = ids + 1 /\ UNCHANGED root
    /\ DispositionFor(staged[f].schema) = "needs_migration" /\ ChainProjects(staged[f])
    /\ staged' = [staged EXCEPT ![f] = [Migrated(staged[f], ids) EXCEPT !.role = "migrated"]]
Prepares(f) ==
    /\ IsStore(staged[f]) /\ ~IsOld(staged[f]) /\ ids' = ids + 1 /\ UNCHANGED root
    /\ staged[f].role \in {"copy", "migrated"}
    /\ staged' = [staged EXCEPT ![f] = [staged[f] EXCEPT !.epoch = ids, !.role = "prepared"]]
Replaces(f) ==
    /\ IsStore(staged[f]) /\ storeLease = "exclusive" /\ UNCHANGED <<ids, storeLease>>
    /\ \/ staged[f].role \in {"empty", "prepared"}
       \/ staged[f].role = "migrated" /\ IsStore(root) /\ IsOld(root) /\ root.schema \in DOMAIN Steps
    /\ root' = Live(staged[f]) /\ staged' = [staged EXCEPT ![f] = Absent]
StoreStep ==
    \/ Quiet \/ Creates \/ Extends
    \/ \E f \in Files : CopiesRoot(f) \/ Empties(f) \/ Migrates(f) \/ Prepares(f) \/ Replaces(f)

FactStep == FactStoreNext \/ UNCHANGED factStoreVars

\* A wall clock, and the batch in progress.
LEMMA BatchFields ==
  ASSUME StoreTypes
  PROVE  /\ wall \in Nat /\ ids \in Nat
         /\ txn # NoTxn => /\ txn \in Txns /\ txn.by \in Procs /\ txn.commit \in Nat /\ txn.clock \in Clocks
                           /\ txn.added \in Seq(Rows)
         /\ \A p \in Procs : txn.by = p => txn # NoTxn
<1>1. wall \in Nat /\ ids \in Nat
  BY BoundsAssumption DEF StoreTypes
<1>2. txn \in Txns \cup {NoTxn}
  BY DEF StoreTypes
<1>3. NoTxn.by \notin Procs
  BY ProcsAssumption DEF NoTxn
<1> QED BY <1>1, <1>2, <1>3 DEF Txns

\* A retraction is a batch of one row.
RetractionRow(c, hlc) ==
    [kind |-> "retraction", commit |-> c, hlc |-> hlc, format |-> FormatNow, text |-> "short"]
\* That row stands above the clock it ticked, and is appended as a batch is.
LEMMA OneRow ==
  ASSUME NEW facts \in Seq(Rows), NEW c \in Nat, NEW low \in Clocks, NEW high \in Clocks, HlcLess(low, high)
  PROVE  /\ <<RetractionRow(c, high)>> \in Seq(Rows) /\ Stacked(<<RetractionRow(c, high)>>, low, high)
         /\ Append(facts, RetractionRow(c, high)) = facts \o <<RetractionRow(c, high)>>
<1> DEFINE r == RetractionRow(c, high)
<1>1. r \in Rows /\ r.hlc = high
  BY VersionsAssumption DEF RetractionRow, Rows, Texts, Clocks
<1> HIDE DEF r
<1>2. <<r>> \in Seq(Rows) /\ DOMAIN <<r>> = {1} /\ <<r>>[1] = r
  BY <1>1
<1>3. HlcLeq(low, high) /\ HlcLeq(high, high)
  BY HlcOrder
<1>4. Append(facts, r) = facts \o <<r>>
  BY <1>1
<1>5. Stacked(<<r>>, low, high)
  BY <1>1, <1>2, <1>3 DEF Stacked
<1> QED BY <1>2, <1>4, <1>5 DEF r

\* Every step is one of these.
LEMMA StepsAre ==
  ASSUME StoreTypes, ConnInv, BatchInv, FactStep
  PROVE  StoreStep
<1>0. /\ root \in LiveStores \cup {Absent} /\ staged \in [Files -> FileStores \cup {Absent}]
      /\ ids \in Nat /\ wall \in Nat
  BY BatchFields DEF StoreTypes
<1>1. CASE UNCHANGED factStoreVars
  BY <1>1 DEF factStoreVars, StoreStep, Quiet
<1>2. ASSUME NEW p \in Procs, NEW mode \in ConnModes, OpenLease(p, mode) PROVE StoreStep
  BY <1>2 DEF OpenLease, StoreStep, Quiet
<1>3. ASSUME NEW p \in Procs, OpenClassify(p) PROVE StoreStep
  BY <1>3 DEF OpenClassify, StoreStep, Quiet
<1>4. ASSUME NEW p \in Procs, OpenInitialize(p) PROVE StoreStep
  <2>1. CASE IsStore(root)
    BY <1>4, <2>1 DEF OpenInitialize, StoreStep, Quiet
  <2>2. CASE ~IsStore(root)
    BY <1>4, <2>2 DEF OpenInitialize, StoreStep, Creates
  <2> QED BY <2>1, <2>2
<1>5. ASSUME NEW p \in Procs, Close(p) \/ BeginBatch(p) \/ AddEvent(p) \/ RollbackBatch(p) PROVE StoreStep
  BY <1>5 DEF Close, BeginBatch, AddEvent, RollbackBatch, StoreStep, Quiet
<1>6. ASSUME NEW p \in Procs, CommitBatch(p) PROVE StoreStep
  <2>1. txn # NoTxn /\ txn.by = p /\ txn.added \in Seq(Rows) /\ txn.clock \in Clocks
    BY <1>6, BatchFields DEF CommitBatch
  <2>2. /\ IsStore(root) /\ Stacked(txn.added, root.clock, txn.clock)
        /\ Accepted(root, "recorder")
    BY <2>1, BatchFields DEF BatchInv, ConnInv
  <2>3. ~IsOld(root)
    BY <2>2, StoresAre, AcceptedIs
  <2>4. root' = [root EXCEPT !.facts = @ \o txn.added, !.clock = txn.clock] /\ ids' = ids + 1 /\ UNCHANGED staged
    BY <1>6 DEF CommitBatch
  <2>5. ids <= ids'
    BY <1>0, <2>4
  <2> QED BY <2>1, <2>2, <2>3, <2>4, <2>5 DEF StoreStep, Extends
<1>7. ASSUME NEW p \in Procs, NEW c \in Commits(root), IsStore(root), AppendRetraction(p, c) PROVE StoreStep
  <2> DEFINE hlc == GiveTick(root.clock, wall)
             added == <<RetractionRow(c, hlc)>>
  <2>1. Accepted(root, "recorder")
    BY <1>7 DEF AppendRetraction, ConnInv
  <2>2. /\ ~IsOld(root) /\ root.clock \in Clocks /\ root.facts \in Seq(Rows)
    BY <1>7, <2>1, StoresAre, AcceptedIs, StoreFieldsAre
  <2>3. hlc \in Clocks /\ HlcLess(root.clock, hlc)
    BY <1>0, <2>2, TickGoesUp
  <2>4. c \in Nat
    <3>1. \A i \in DOMAIN root.facts : root.facts[i] \in Rows
      BY <2>2, RowTypes
    <3>2. \A i \in DOMAIN root.facts : root.facts[i].commit \in Nat
      BY <3>1 DEF Rows
    <3> QED BY <1>7, <3>2 DEF Commits, Events, RowsOf
  <2>5. root' = [root EXCEPT !.facts = Append(root.facts, RetractionRow(c, hlc)), !.clock = hlc]
        /\ UNCHANGED <<staged, ids>>
    BY <1>7 DEF AppendRetraction, RetractionRow
  <2> HIDE DEF hlc
  <2>6. added \in Seq(Rows) /\ Stacked(added, root.clock, hlc) /\ Append(root.facts, RetractionRow(c, hlc)) = root.facts \o added
    BY <2>2, <2>3, <2>4, OneRow
  <2> HIDE DEF added
  <2>7. root' = [root EXCEPT !.facts = root.facts \o added, !.clock = hlc]
    BY <2>5, <2>6
  <2>8. ids <= ids' /\ UNCHANGED staged
    BY <1>0, <2>5
  <2>9. Extends
    BY <1>7, <2>2, <2>3, <2>6, <2>7, <2>8 DEF Extends
  <2> QED BY <2>9 DEF StoreStep
<1>8. ASSUME NEW p \in Procs, NEW f \in Files, SnapshotTo(p, f) PROVE StoreStep
  <2>1. IsStore(root) /\ Accepted(root, conn[p].mode) /\ conn[p].mode \in ConnModes
    BY <1>8 DEF SnapshotTo, ConnInv, ConnModes
  <2>2. Accepted(root, "maintenance")
    BY <2>1, StoresAre, AcceptedIs
  <2>3. ~IsStore(staged[f])
    BY <1>8, StoresAre DEF SnapshotTo
  <2>4. CopiesRoot(f)
    BY <1>8, <2>1, <2>2, <2>3 DEF SnapshotTo, CopiesRoot
  <2> QED BY <2>4 DEF StoreStep
<1>9. ASSUME NEW f \in Files, CreateEmptyStore(f) PROVE StoreStep
  <2>1. ~IsStore(staged[f])
    BY <1>9, StoresAre DEF CreateEmptyStore
  <2>2. Empties(f)
    BY <1>9, <2>1 DEF CreateEmptyStore, Empties
  <2> QED BY <2>2 DEF StoreStep
<1>10. ASSUME NEW f \in Files, MigrateFile(f) PROVE StoreStep
  <2>1. Migrates(f)
    BY <1>10 DEF MigrateFile, Migrates
  <2> QED BY <2>1 DEF StoreStep
<1>11. ASSUME NEW f \in Files, PrepareRestoreFile(f) PROVE StoreStep
  <2>1. ~IsOld(staged[f])
    BY <1>11, StoresAre, AcceptedIs DEF PrepareRestoreFile
  <2>2. Prepares(f)
    BY <1>11, <2>1 DEF PrepareRestoreFile, Prepares
  <2> QED BY <2>2 DEF StoreStep
<1>12. ASSUME NEW f \in Files, ReplaceRoot(f) PROVE StoreStep
  <2>1. IsStore(root) /\ DispositionFor(root.schema) = "needs_migration" =>
          IsOld(root) /\ root.schema \in DOMAIN Steps
    BY StoresAre, AcceptedIs
  <2>2. \/ staged[f].role \in {"empty", "prepared"}
        \/ staged[f].role = "migrated" /\ IsStore(root) /\ IsOld(root) /\ root.schema \in DOMAIN Steps
    BY <1>12, <2>1 DEF ReplaceRoot
  <2>3. Replaces(f)
    BY <1>12, <2>2 DEF ReplaceRoot, Replaces
  <2> QED BY <2>3 DEF StoreStep
<1>13. CASE TakeExclusive \/ ReleaseExclusive \/ \E now \in 0 .. MaxWall : SetWall(now)
  BY <1>13 DEF TakeExclusive, ReleaseExclusive, SetWall, StoreStep, Quiet
<1> QED BY <1>1, <1>2, <1>3, <1>4, <1>5, <1>6, <1>7, <1>8, <1>9, <1>10, <1>11, <1>12, <1>13
        DEF FactStep, FactStoreNext, ConnModes

\* What the root is after a step, with its fields.
LEMMA ExtendedTyped ==
  ASSUME root \in LiveStores, NEW added \in Seq(Rows), NEW c \in Clocks,
         root' = [root EXCEPT !.facts = @ \o added, !.clock = c]
  PROVE  /\ root' \in LiveStores /\ root'.facts = root.facts \o added /\ root'.clock = c
         /\ root'.schema = root.schema /\ root'.format = root.format
         /\ root'.epoch = root.epoch /\ root'.hist = root.hist
<1> DEFINE facts == root.facts \o added
<1>1. facts \in Seq(Rows)
  BY StoreFieldsAre
<1>2. root' = [root EXCEPT !.facts = facts, !.clock = c]
  OBVIOUS
<1> HIDE DEF facts
<1>3. /\ root' \in LiveStores /\ root'.facts = facts /\ root'.clock = c
      /\ root'.schema = root.schema /\ root'.format = root.format
      /\ root'.epoch = root.epoch /\ root'.hist = root.hist
  BY <1>1, <1>2 DEF LiveStores, Clocks
<1> QED BY <1>3 DEF facts

\* What a migration makes of a file.
LEMMA MigratedTyped ==
  ASSUME StoreTypes, NEW f \in Files, Migrates(f)
  PROVE  \E t \in FileStores :
            /\ staged' = [staged EXCEPT ![f] = t] /\ t.role = "migrated" /\ t.wal = staged[f].wal
            /\ t.facts = ApplyChain(staged[f]) /\ t.clock = staged[f].clock /\ t.hist = staged[f].hist
            /\ t.schema = SchemaNow /\ t.format = FormatNow
            /\ t.epoch = IF ChainChanges(staged[f]) THEN ids ELSE staged[f].epoch
<1> DEFINE s == staged[f]
           t == [Migrated(s, ids) EXCEPT !.role = "migrated"]
           facts == ApplyChain(s)
           epoch == IF ChainChanges(s) THEN ids ELSE s.epoch
<1>1. s \in FileStores /\ s.schema \in DOMAIN Steps /\ ChainProjects(s)
  BY StoresAre, AcceptedIs DEF Migrates
<1>2. s.facts \in Seq(Rows) /\ s.epoch \in Nat /\ ids \in Nat
  BY <1>1, StoreFieldsAre, BatchFields
<1>3. facts \in Seq(Rows)
  BY <1>1, <1>2, ChainRows
<1>4. epoch \in Nat /\ SchemaNow \in Nat /\ FormatNow \in Nat
  BY <1>2, VersionsAssumption
<1>5. t = [s EXCEPT !.facts = facts, !.schema = SchemaNow, !.format = FormatNow, !.epoch = epoch, !.role = "migrated"]
  BY <1>1 DEF Migrated, CurrentSchemaHead, FileStores
<1>6. staged' = [staged EXCEPT ![f] = t]
  BY DEF Migrates
<1> HIDE DEF s, t, facts, epoch
<1>7. /\ t \in FileStores /\ t.role = "migrated" /\ t.wal = s.wal /\ t.facts = facts /\ t.clock = s.clock
      /\ t.hist = s.hist /\ t.schema = SchemaNow /\ t.format = FormatNow /\ t.epoch = epoch
  BY <1>1, <1>3, <1>4, <1>5 DEF FileStores, FileRoles
<1> QED BY <1>6, <1>7 DEF s, facts, epoch

\* What a preparation makes of a file.
LEMMA PreparedTyped ==
  ASSUME StoreTypes, NEW f \in Files, Prepares(f)
  PROVE  \E t \in FileStores :
            /\ staged' = [staged EXCEPT ![f] = t] /\ t.role = "prepared" /\ t.wal = staged[f].wal
            /\ t.facts = staged[f].facts /\ t.clock = staged[f].clock /\ t.hist = staged[f].hist
            /\ t.schema = staged[f].schema /\ t.format = staged[f].format /\ t.epoch = ids
<1> DEFINE s == staged[f]
           t == [s EXCEPT !.epoch = ids, !.role = "prepared"]
<1>1. s \in FileStores /\ ids \in Nat
  BY StoresAre, BatchFields DEF Prepares
<1>2. staged' = [staged EXCEPT ![f] = t]
  BY DEF Prepares
<1> HIDE DEF s
<1>3. /\ t \in FileStores /\ t.role = "prepared" /\ t.wal = s.wal /\ t.facts = s.facts /\ t.clock = s.clock
      /\ t.hist = s.hist /\ t.schema = s.schema /\ t.format = s.format /\ t.epoch = ids
  BY <1>1 DEF FileStores, FileRoles
<1> QED BY <1>2, <1>3 DEF s

----------------------------------------------------------------------------
(* The stores stay in order                                                *)

\* Whether the facts are in order does not depend on their formats.
LEMMA InOrderSame ==
  ASSUME NEW s, NEW t, InOrder(s), DOMAIN t.facts = DOMAIN s.facts, t.clock = s.clock,
         \A i \in DOMAIN s.facts : t.facts[i].hlc = s.facts[i].hlc
  PROVE  InOrder(t)
BY DEF InOrder

\* A batch on top of a store in order.
LEMMA InOrderExtends ==
  ASSUME root \in LiveStores, InOrder(root), NEW added \in Seq(Rows), NEW c \in Clocks,
         Stacked(added, root.clock, c), root' = [root EXCEPT !.facts = @ \o added, !.clock = c]
  PROVE  InOrder(root')
<1> DEFINE facts == root.facts
           all == root'.facts
           low == root.clock
           m == Len(facts)
           n == Len(added)
<1>1. facts \in Seq(Rows) /\ low \in Clocks /\ all = facts \o added /\ root'.clock = c
  BY StoreFieldsAre, ExtendedTyped
<1>2. /\ m \in Nat /\ n \in Nat /\ DOMAIN facts = 1..m /\ DOMAIN added = 1..n
      /\ \A i \in 1..m : facts[i].hlc \in Clocks
      /\ \A i \in 1..n : added[i].hlc \in Clocks
  BY <1>1, RowTypes
<1>3. /\ DOMAIN all = 1..(m + n)
      /\ \A i \in 1..m : all[i] = facts[i]
      /\ \A i \in (m + 1)..(m + n) : i - m \in 1..n /\ all[i] = added[i - m]
      /\ \A i \in 1..(m + n) : i \in 1..m \/ i \in (m + 1)..(m + n)
  BY <1>1, <1>2
<1>4. /\ \A i, j \in 1..m : i < j => HlcLess(facts[i].hlc, facts[j].hlc)
      /\ \A i \in 1..m : HlcLeq(facts[i].hlc, low)
      /\ \A i, j \in 1..n : i < j => HlcLess(added[i].hlc, added[j].hlc)
      /\ \A i \in 1..n : HlcLess(low, added[i].hlc) /\ HlcLeq(added[i].hlc, c)
      /\ HlcLeq(low, c)
  BY <1>2 DEF InOrder, Stacked
<1> HIDE DEF facts, all, low, m, n
<1>5. \A i \in 1..m : HlcLeq(facts[i].hlc, c)
  BY <1>1, <1>2, <1>4, HlcOrder
<1>6. \A i \in 1..m : \A j \in 1..n : HlcLess(facts[i].hlc, added[j].hlc)
  BY <1>1, <1>2, <1>4, HlcOrder
<1>7. \A i \in 1..(m + n) : HlcLeq(all[i].hlc, c)
  BY <1>3, <1>4, <1>5
<1>8. ASSUME NEW i \in 1..(m + n), NEW j \in 1..(m + n), i < j
      PROVE  HlcLess(all[i].hlc, all[j].hlc)
  <2>1. CASE i \in 1..m /\ j \in 1..m
    BY <1>3, <1>4, <1>8, <2>1
  <2>2. CASE i \in 1..m /\ j \in (m + 1)..(m + n)
    BY <1>3, <1>6, <2>2
  <2>3. CASE i \in (m + 1)..(m + n) /\ j \in (m + 1)..(m + n)
    <3>1. i - m \in 1..n /\ j - m \in 1..n /\ i - m < j - m
      BY <1>2, <1>3, <1>8, <2>3
    <3> QED BY <1>3, <1>4, <2>3, <3>1
  <2>4. ~(i \in (m + 1)..(m + n) /\ j \in 1..m)
    BY <1>2, <1>8
  <2> QED BY <1>3, <2>1, <2>2, <2>3, <2>4
<1> QED BY <1>1, <1>3, <1>7, <1>8 DEF InOrder, all

\* A set of numbers has a least one.
LEMMA LeastIn ==
  ASSUME NEW T \in SUBSET Nat, T # {}
  PROVE  \E m \in T : \A j \in T : m <= j
<1> DEFINE R == StrictSubsetOrdering(Nat)
           below == {1..k : k \in T}
<1>1. IsWellFoundedOn(R, FiniteSubsetsOf(Nat))
  BY FS_StrictSubsetOrderingWellFounded
<1>2. below \subseteq FiniteSubsetsOf(Nat) /\ below # {}
  <2>1. \A k \in T : 1..k \in SUBSET Nat /\ IsFiniteSet(1..k)
    BY FS_Interval
  <2>2. \A k \in T : 1..k \in FiniteSubsetsOf(Nat)
    BY <2>1 DEF FiniteSubsetsOf
  <2> QED BY <2>2
<1> HIDE DEF R, below
<1>3. PICK X \in below : \A Y \in below : ~(<<Y, X>> \in R)
  BY <1>1, <1>2, WFMin
<1>4. PICK m \in T : X = 1..m
  BY <1>3 DEF below
<1>5. ASSUME NEW j \in T, j < m PROVE FALSE
  <2>1. 1..j \in below /\ 1..j \subseteq 1..m /\ 1..j # 1..m /\ 1..m \subseteq Nat
    BY <1>5 DEF below
  <2> QED BY <1>3, <1>4, <2>1 DEF R, StrictSubsetOrdering
<1> QED BY <1>5

\* The highest event of a store in order is not above its clock.
LEMMA HighestEvent ==
  ASSUME NEW s \in LiveStores \cup FileStores, InOrder(s)
  PROVE  HlcLeq(MaxEventHlc(s), s.clock)
<1> DEFINE E == Events(s)
           Highest(i) == \A j \in E : HlcLeq(s.facts[j].hlc, s.facts[i].hlc)
<1>1. /\ s.clock \in Clocks /\ s.facts \in Seq(Rows) /\ Len(s.facts) \in Nat /\ DOMAIN s.facts = 1..Len(s.facts)
      /\ \A i \in DOMAIN s.facts : s.facts[i].hlc \in Clocks
  BY StoreFieldsAre, RowTypes
<1>2. E \subseteq DOMAIN s.facts
  BY DEF Events, RowsOf
<1>3. CASE E = {}
  <2>1. MaxEventHlc(s) = <<-1, -1>>
    BY <1>3 DEF MaxEventHlc
  <2>2. s.clock[1] \in Nat
    BY <1>1 DEF Clocks
  <2> QED BY <2>1, <2>2 DEF HlcLeq, HlcLess
<1>4. CASE E # {}
  <2>1. PICK m \in E : \A j \in E : j <= m
    <3> DEFINE n == Len(s.facts)
               T == {n - i : i \in E}
    <3>1. n \in Nat /\ E \subseteq 1..n
      BY <1>1, <1>2
    <3> HIDE DEF n, E
    <3>2. T \in SUBSET Nat /\ T # {}
      <4>1. \A i \in E : n - i \in Nat
        BY <3>1
      <4>2. PICK i \in E : TRUE
        BY <1>4
      <4>3. n - i \in T
        BY <4>2
      <4> QED BY <4>1, <4>3
    <3>3. PICK k \in T : \A j \in T : k <= j
      BY <3>2, LeastIn
    <3>4. PICK m \in E : k = n - m
      BY <3>3
    <3>5. \A j \in E : n - m <= n - j
      BY <3>3, <3>4
    <3>6. \A j \in E : j <= m
      BY <3>1, <3>5
    <3> QED BY <3>6
  <2>2. Highest(m)
    <3> SUFFICES ASSUME NEW j \in E PROVE HlcLeq(s.facts[j].hlc, s.facts[m].hlc)
      OBVIOUS
    <3>1. j = m \/ j < m
      BY <1>1, <1>2, <2>1
    <3>2. m \in DOMAIN s.facts /\ j \in DOMAIN s.facts
      BY <1>2
    <3> QED BY <1>1, <3>1, <3>2, HlcOrder DEF InOrder
  <2> DEFINE h == CHOOSE i \in E : Highest(i)
  <2>3. h \in E
    BY <2>1, <2>2
  <2>4. MaxEventHlc(s) = s.facts[h].hlc
    BY <1>4 DEF MaxEventHlc
  <2> HIDE DEF h
  <2> QED BY <1>2, <2>3, <2>4 DEF InOrder
<1> QED BY <1>3, <1>4

\* FilesInv survives a step of the stores.
LEMMA FilesStep ==
  ASSUME StoreTypes, StoreTypes', FilesInv, StoreStep
  PROVE  FilesInv'
<1>0. /\ root \in LiveStores \cup {Absent} /\ staged \in [Files -> FileStores \cup {Absent}]
      /\ ids \in Nat /\ wall \in Nat /\ ~IsStore(Absent)
  BY BatchFields, StoresAre DEF StoreTypes
<1>1. CASE Quiet
  BY <1>1 DEF Quiet, FilesInv
<1>2. CASE Creates
  <2>1. InOrder(root')
    BY <1>0, <1>2, FreshStore DEF Creates
  <2> QED BY <1>2, <2>1 DEF Creates, FilesInv
<1>3. CASE Extends
  <2>1. PICK added \in Seq(Rows) : \E c \in Clocks :
              Stacked(added, root.clock, c) /\ root' = [root EXCEPT !.facts = @ \o added, !.clock = c]
    BY <1>3 DEF Extends
  <2>2. PICK c \in Clocks : Stacked(added, root.clock, c) /\ root' = [root EXCEPT !.facts = @ \o added, !.clock = c]
    BY <2>1
  <2>3. IsStore(root) /\ root \in LiveStores /\ InOrder(root)
    BY <1>3, StoresAre DEF Extends, FilesInv
  <2>4. InOrder(root')
    BY <2>2, <2>3, InOrderExtends
  <2> QED BY <1>3, <2>4 DEF Extends, FilesInv
<1>4. ASSUME NEW f \in Files, NEW t \in FileStores, staged' = [staged EXCEPT ![f] = t], UNCHANGED root,
             InOrder(t), ~t.wal, Accepted(t, "maintenance")
      PROVE  FilesInv'
  <2>1. \A g \in Files : staged'[g] = IF g = f THEN t ELSE staged[g]
    BY <1>0, <1>4
  <2> QED BY <1>4, <2>1 DEF FilesInv
<1>5. ASSUME NEW f \in Files, CopiesRoot(f) PROVE FilesInv'
  <2> DEFINE t == Standalone(root, "copy")
  <2>1. root \in LiveStores /\ InOrder(root)
    BY <1>5, StoresAre DEF CopiesRoot, FilesInv
  <2>2. /\ t \in FileStores /\ ~t.wal /\ t.facts = root.facts /\ t.clock = root.clock
        /\ t.schema = root.schema /\ t.format = root.format
    BY <2>1, CopiesTyped DEF FileRoles
  <2>3. staged' = [staged EXCEPT ![f] = t] /\ UNCHANGED root /\ Accepted(root, "maintenance")
    BY <1>5 DEF CopiesRoot
  <2> HIDE DEF t
  <2>4. InOrder(t) /\ Accepted(t, "maintenance")
    BY <2>1, <2>2, <2>3, InOrderSame, AcceptedSame
  <2> QED BY <1>4, <2>2, <2>3, <2>4
<1>6. ASSUME NEW f \in Files, Empties(f) PROVE FilesInv'
  <2> DEFINE s == InitializeMeta(ids, wall)
             t == Standalone(s, "empty")
  <2>1. s \in LiveStores /\ InOrder(s) /\ s.schema = SchemaNow /\ s.format = FormatNow
    BY <1>0, FreshStore
  <2>2. staged' = [staged EXCEPT ![f] = t] /\ UNCHANGED root
    BY <1>6 DEF Empties
  <2> HIDE DEF s
  <2>3. /\ t \in FileStores /\ ~t.wal /\ t.facts = s.facts /\ t.clock = s.clock
        /\ t.schema = s.schema /\ t.format = s.format
    BY <2>1, CopiesTyped DEF FileRoles
  <2> HIDE DEF t
  <2>4. InOrder(t)
    BY <2>1, <2>3, InOrderSame
  <2>5. Accepted(t, "maintenance")
    BY <2>1, <2>3, AcceptedIs DEF ConnModes
  <2> QED BY <1>4, <2>2, <2>3, <2>4, <2>5
<1>7. ASSUME NEW f \in Files, Migrates(f) PROVE FilesInv'
  <2>1. PICK t \in FileStores :
            /\ staged' = [staged EXCEPT ![f] = t] /\ t.role = "migrated" /\ t.wal = staged[f].wal
            /\ t.facts = ApplyChain(staged[f]) /\ t.clock = staged[f].clock
            /\ t.schema = SchemaNow /\ t.format = FormatNow
    BY <1>7, MigratedTyped
  <2>2. staged[f] \in FileStores /\ InOrder(staged[f]) /\ ~staged[f].wal /\ UNCHANGED root
        /\ staged[f].facts \in Seq(Rows)
    BY <1>7, StoresAre, StoreFieldsAre DEF Migrates, FilesInv
  <2>3. staged[f].schema \in DOMAIN Steps /\ ChainProjects(staged[f])
    BY <1>7, <2>2, AcceptedIs DEF Migrates
  <2>4. InOrder(t)
    BY <2>1, <2>2, <2>3, ChainRows, InOrderSame
  <2>5. Accepted(t, "maintenance")
    BY <2>1, AcceptedIs DEF ConnModes
  <2> QED BY <1>4, <2>1, <2>2, <2>4, <2>5
<1>8. ASSUME NEW f \in Files, Prepares(f) PROVE FilesInv'
  <2>1. PICK t \in FileStores :
            /\ staged' = [staged EXCEPT ![f] = t] /\ t.role = "prepared" /\ t.wal = staged[f].wal
            /\ t.facts = staged[f].facts /\ t.clock = staged[f].clock
            /\ t.schema = staged[f].schema /\ t.format = staged[f].format
    BY <1>8, PreparedTyped
  <2>2. InOrder(staged[f]) /\ ~staged[f].wal /\ Accepted(staged[f], "maintenance") /\ UNCHANGED root
    BY <1>8 DEF Prepares, FilesInv
  <2>3. InOrder(t) /\ Accepted(t, "maintenance")
    BY <2>1, <2>2, InOrderSame, AcceptedSame
  <2> QED BY <1>4, <2>1, <2>2, <2>3
<1>9. ASSUME NEW f \in Files, Replaces(f) PROVE FilesInv'
  <2>1. staged[f] \in FileStores /\ InOrder(staged[f]) /\ root' = Live(staged[f]) /\ staged' = [staged EXCEPT ![f] = Absent]
    BY <1>9, StoresAre DEF Replaces, FilesInv
  <2>2. root'.facts = staged[f].facts /\ root'.clock = staged[f].clock
    BY <2>1, CopiesTyped DEF FileRoles
  <2>3. InOrder(root')
    BY <2>1, <2>2, InOrderSame
  <2>4. \A g \in Files : staged'[g] = IF g = f THEN Absent ELSE staged[g]
    BY <1>0, <2>1
  <2> QED BY <1>0, <2>3, <2>4 DEF FilesInv
<1> QED BY <1>1, <1>2, <1>3, <1>5, <1>6, <1>7, <1>8, <1>9 DEF StoreStep

----------------------------------------------------------------------------
(* Epochs, old stores and pasts                                            *)

\* EpochInv survives a step of the stores.
LEMMA EpochStep ==
  ASSUME StoreTypes, ids' \in Nat, EpochInv, StoreStep
  PROVE  EpochInv'
<1>0. /\ root \in LiveStores \cup {Absent} /\ staged \in [Files -> FileStores \cup {Absent}]
      /\ ids \in Nat /\ wall \in Nat /\ ~IsStore(Absent)
      /\ IsStore(root) => root \in LiveStores /\ root.epoch \in Nat /\ root.epoch < ids
      /\ \A f \in Files : IsStore(staged[f]) => staged[f].epoch \in Nat /\ staged[f].epoch < ids
  BY BatchFields, StoresAre, StoreFieldsAre DEF StoreTypes, EpochInv
<1>1. CASE Quiet
  BY <1>1 DEF Quiet, EpochInv
<1>2. CASE Creates
  <2>1. root'.epoch = ids + 1 /\ ids' = ids + 2 /\ UNCHANGED staged
    BY <1>0, <1>2, FreshStore DEF Creates
  <2>2. ASSUME NEW f \in Files, IsStore(staged[f])
        PROVE  staged[f].epoch < ids' /\ staged[f].epoch # root'.epoch
    BY <1>0, <2>1, <2>2
  <2>3. root'.epoch < ids'
    BY <1>0, <2>1
  <2> QED BY <2>1, <2>2, <2>3 DEF EpochInv
<1>3. CASE Extends
  <2>1. PICK added \in Seq(Rows) : \E c \in Clocks :
              Stacked(added, root.clock, c) /\ root' = [root EXCEPT !.facts = @ \o added, !.clock = c]
    BY <1>3 DEF Extends
  <2>2. PICK c \in Clocks : Stacked(added, root.clock, c) /\ root' = [root EXCEPT !.facts = @ \o added, !.clock = c]
    BY <2>1
  <2>3. IsStore(root) /\ root'.epoch = root.epoch /\ ids <= ids' /\ UNCHANGED staged
    BY <1>0, <1>3, <2>2, ExtendedTyped DEF Extends
  <2>4. root'.epoch < ids' /\ \A f \in Files : IsStore(staged[f]) => staged[f].epoch < ids'
    <3> SUFFICES ASSUME NEW e \in Nat, e < ids PROVE e < ids'
      BY <1>0, <2>3
    <3>1. ids <= ids'
      BY <2>3
    <3> QED BY <1>0, <3>1
  <2> QED BY <2>3, <2>4 DEF EpochInv
\* A file gets a value whose epoch is fresh, or an old one that is no claim.
<1>4. ASSUME NEW f \in Files, NEW t \in FileStores, staged' = [staged EXCEPT ![f] = t], UNCHANGED root,
             ids' \in {ids, ids + 1, ids + 2}, t.epoch < ids', IsStore(t),
             \/ t.epoch >= ids
             \/ /\ t.role \in {"copy", "migrated"}
                /\ \A g \in Files \ {f} :
                      IsStore(staged[g]) /\ staged[g].role \in {"empty", "prepared"} => staged[g].epoch # t.epoch
      PROVE  EpochInv'
  <2>1. \A g \in Files : staged'[g] = IF g = f THEN t ELSE staged[g]
    BY <1>0, <1>4
  <2>2. t.epoch \in Nat
    BY StoreFieldsAre
  <2>3. \A e \in Nat : e < ids => e < ids'
    BY <1>0, <1>4
  <2>4. IsStore(root') => root'.epoch < ids'
    BY <1>0, <1>4, <2>3
  <2>5. ASSUME NEW g \in Files, IsStore(staged'[g])
        PROVE  staged'[g].epoch < ids'
    BY <1>0, <1>4, <2>1, <2>3, <2>5
  <2>6. ASSUME NEW g \in Files, IsStore(staged'[g]), staged'[g].role \in {"empty", "prepared"}, IsStore(root')
        PROVE  staged'[g].epoch # root'.epoch
    <3>1. CASE g = f
      <4>1. t.epoch >= ids
        BY <1>4, <2>1, <2>6, <3>1
      <4> QED BY <1>0, <1>4, <2>1, <2>2, <2>6, <3>1, <4>1
    <3>2. CASE g # f
      BY <1>4, <2>1, <2>6, <3>2 DEF EpochInv
    <3> QED BY <3>1, <3>2
  <2>7. ASSUME NEW g \in Files, IsStore(staged'[g]), staged'[g].role \in {"empty", "prepared"},
               NEW h \in Files \ {g}, IsStore(staged'[h])
        PROVE  staged'[h].epoch # staged'[g].epoch
    <3>1. CASE g = f
      <4>1. t.epoch >= ids /\ staged'[h] = staged[h]
        BY <1>4, <2>1, <2>7, <3>1
      <4>2. staged[h].epoch \in Nat /\ staged[h].epoch < ids
        BY <1>0, <2>7, <4>1
      <4> QED BY <1>0, <2>1, <2>2, <3>1, <4>1, <4>2
    <3>2. CASE h = f
      <4>1. staged'[g] = staged[g] /\ staged'[h] = t
        BY <2>1, <3>2
      <4>2. staged[g].epoch \in Nat /\ staged[g].epoch < ids
        BY <1>0, <2>7, <4>1
      <4>3. CASE t.epoch >= ids
        BY <1>0, <2>2, <4>1, <4>2, <4>3
      <4>4. CASE \A k \in Files \ {f} :
                      IsStore(staged[k]) /\ staged[k].role \in {"empty", "prepared"} => staged[k].epoch # t.epoch
        BY <2>7, <3>2, <4>1, <4>4
      <4> QED BY <1>4, <4>3, <4>4
    <3>3. CASE g # f /\ h # f
      BY <2>1, <2>7, <3>3 DEF EpochInv
    <3> QED BY <3>1, <3>2, <3>3
  <2> QED BY <2>4, <2>5, <2>6, <2>7 DEF EpochInv
<1>5. ASSUME NEW f \in Files, CopiesRoot(f) PROVE EpochInv'
  <2> DEFINE t == Standalone(root, "copy")
  <2>1. root \in LiveStores /\ IsStore(root) /\ staged' = [staged EXCEPT ![f] = t] /\ UNCHANGED <<root, ids>>
    BY <1>0, <1>5 DEF CopiesRoot
  <2>2. t \in FileStores /\ t.epoch = root.epoch /\ t.role = "copy"
    BY <2>1, CopiesTyped DEF FileRoles
  <2> HIDE DEF t
  <2>3. IsStore(t)
    BY <2>2, StoreFieldsAre DEF IsStore
  <2>4. \A g \in Files \ {f} :
           IsStore(staged[g]) /\ staged[g].role \in {"empty", "prepared"} => staged[g].epoch # t.epoch
    BY <2>1, <2>2 DEF EpochInv
  <2>5. t.epoch < ids'
    BY <1>0, <2>1, <2>2
  <2> QED BY <1>4, <2>1, <2>2, <2>3, <2>4, <2>5
<1>6. ASSUME NEW f \in Files, Empties(f) PROVE EpochInv'
  <2> DEFINE s == InitializeMeta(ids, wall)
             t == Standalone(s, "empty")
  <2>1. s \in LiveStores /\ s.epoch = ids + 1
    BY <1>0, FreshStore
  <2>2. staged' = [staged EXCEPT ![f] = t] /\ UNCHANGED root /\ ids' = ids + 2
    BY <1>6 DEF Empties
  <2> HIDE DEF s
  <2>3. t \in FileStores /\ t.epoch = s.epoch
    BY <2>1, CopiesTyped DEF FileRoles
  <2> HIDE DEF t
  <2>4. IsStore(t)
    BY <2>3, StoreFieldsAre DEF IsStore
  <2>5. t.epoch < ids' /\ t.epoch >= ids
    BY <1>0, <2>1, <2>2, <2>3
  <2> QED BY <1>4, <2>2, <2>3, <2>4, <2>5
<1>7. ASSUME NEW f \in Files, Migrates(f) PROVE EpochInv'
  <2>1. PICK t \in FileStores :
            /\ staged' = [staged EXCEPT ![f] = t] /\ t.role = "migrated"
            /\ t.epoch = IF ChainChanges(staged[f]) THEN ids ELSE staged[f].epoch
    BY <1>7, MigratedTyped
  <2>2. ids' = ids + 1 /\ UNCHANGED root /\ IsStore(staged[f])
    BY <1>7 DEF Migrates
  <2>3. IsStore(t)
    BY <2>1, StoreFieldsAre DEF IsStore
  <2>4. t.epoch = ids \/ t.epoch = staged[f].epoch
    BY <2>1
  <2>5. t.epoch < ids'
    BY <1>0, <2>2, <2>4
  <2>6. CASE t.epoch = ids
    <3>1. t.epoch >= ids
      BY <1>0, <2>6
    <3> QED BY <1>4, <2>1, <2>2, <2>3, <2>5, <3>1
  <2>7. CASE t.epoch = staged[f].epoch
    <3>1. \A g \in Files \ {f} :
             IsStore(staged[g]) /\ staged[g].role \in {"empty", "prepared"} => staged[g].epoch # t.epoch
      BY <2>2, <2>7 DEF EpochInv
    <3> QED BY <1>4, <2>1, <2>2, <2>3, <2>5, <3>1
  <2> QED BY <2>4, <2>6, <2>7
<1>8. ASSUME NEW f \in Files, Prepares(f) PROVE EpochInv'
  <2>1. PICK t \in FileStores : staged' = [staged EXCEPT ![f] = t] /\ t.epoch = ids
    BY <1>8, PreparedTyped
  <2>2. ids' = ids + 1 /\ UNCHANGED root
    BY <1>8 DEF Prepares
  <2>3. IsStore(t)
    BY StoreFieldsAre DEF IsStore
  <2>4. t.epoch < ids' /\ t.epoch >= ids
    BY <1>0, <2>1, <2>2
  <2> QED BY <1>4, <2>1, <2>2, <2>3, <2>4
<1>9. ASSUME NEW f \in Files, Replaces(f) PROVE EpochInv'
  <2>1. /\ staged[f] \in FileStores /\ IsStore(staged[f]) /\ root' = Live(staged[f]) /\ UNCHANGED ids
        /\ staged' = [staged EXCEPT ![f] = Absent]
    BY <1>9, StoresAre DEF Replaces
  <2>2. root'.epoch = staged[f].epoch
    BY <2>1, CopiesTyped DEF FileRoles
  <2>3. \A g \in Files : staged'[g] = IF g = f THEN Absent ELSE staged[g]
    BY <1>0, <2>1
  <2>4. ASSUME NEW g \in Files, IsStore(staged'[g])
        PROVE  g # f /\ staged'[g] = staged[g] /\ IsStore(staged[g])
    BY <1>0, <2>3, <2>4
  <2>5. ASSUME NEW g \in Files, IsStore(staged'[g]), staged'[g].role \in {"empty", "prepared"}
        PROVE  staged'[g].epoch # root'.epoch
    BY <2>1, <2>2, <2>4, <2>5 DEF EpochInv
  <2> QED BY <1>0, <2>1, <2>2, <2>4, <2>5 DEF EpochInv
<1> QED BY <1>1, <1>2, <1>3, <1>5, <1>6, <1>7, <1>8, <1>9 DEF StoreStep

\* OldInv survives a step of the stores.
LEMMA OldStep ==
  ASSUME StoreTypes, EpochInv, OldInv, StoreStep
  PROVE  OldInv'
<1>0. /\ root \in LiveStores \cup {Absent} /\ staged \in [Files -> FileStores \cup {Absent}]
      /\ ids \in Nat /\ wall \in Nat /\ ~IsStore(Absent)
      /\ IsStore(root) => root \in LiveStores /\ root.epoch \in Nat /\ root.epoch < ids
  BY BatchFields, StoresAre, StoreFieldsAre DEF StoreTypes, EpochInv
<1>1. CASE Quiet
  BY <1>1 DEF Quiet, OldInv
<1>2. CASE Creates
  <2>1. ~IsOld(root') /\ UNCHANGED staged
    BY <1>0, <1>2, FreshStore DEF Creates, IsOld
  <2> QED BY <2>1 DEF OldInv
<1>3. CASE Extends
  <2>1. PICK added \in Seq(Rows) : \E c \in Clocks :
              Stacked(added, root.clock, c) /\ root' = [root EXCEPT !.facts = @ \o added, !.clock = c]
    BY <1>3 DEF Extends
  <2>2. PICK c \in Clocks : Stacked(added, root.clock, c) /\ root' = [root EXCEPT !.facts = @ \o added, !.clock = c]
    BY <2>1
  <2>3. root'.schema = root.schema /\ ~IsOld(root) /\ UNCHANGED staged
    BY <1>0, <1>3, <2>2, ExtendedTyped DEF Extends
  <2>4. ~IsOld(root')
    BY <2>3 DEF IsOld
  <2> QED BY <2>3, <2>4 DEF OldInv
<1>4. ASSUME NEW f \in Files, NEW t, staged' = [staged EXCEPT ![f] = t], UNCHANGED root,
             t.role # "copy" => ~IsOld(t),
             IsStore(root) /\ IsOld(root) =>
                /\ t.role = "copy" => t.facts = root.facts /\ t.clock = root.clock
                                      /\ t.schema = root.schema /\ t.epoch = root.epoch
                /\ t.role = "migrated" => /\ t.facts = ApplyChain(root) /\ t.clock = root.clock
                                          /\ t.epoch = root.epoch => ~ChainChanges(root)
      PROVE  OldInv'
  <2>1. \A g \in Files : staged'[g] = IF g = f THEN t ELSE staged[g]
    BY <1>0, <1>4
  <2>2. ApplyChain(root)' = ApplyChain(root) /\ ChainChanges(root)' = ChainChanges(root)
    BY <1>4 DEF ApplyChain, ChainChanges
  <2> QED BY <1>4, <2>1, <2>2 DEF OldInv
<1>5. ASSUME NEW f \in Files, CopiesRoot(f) PROVE OldInv'
  <2> DEFINE t == Standalone(root, "copy")
  <2>1. root \in LiveStores /\ staged' = [staged EXCEPT ![f] = t] /\ UNCHANGED root
    BY <1>0, <1>5 DEF CopiesRoot
  <2>2. t.facts = root.facts /\ t.clock = root.clock /\ t.schema = root.schema /\ t.epoch = root.epoch /\ t.role = "copy"
    BY <2>1, CopiesTyped DEF FileRoles
  <2> HIDE DEF t
  <2> QED BY <1>4, <2>1, <2>2
<1>6. ASSUME NEW f \in Files, Empties(f) PROVE OldInv'
  <2> DEFINE s == InitializeMeta(ids, wall)
             t == Standalone(s, "empty")
  <2>1. s \in LiveStores /\ s.schema = SchemaNow
    BY <1>0, FreshStore
  <2>2. staged' = [staged EXCEPT ![f] = t] /\ UNCHANGED root
    BY <1>6 DEF Empties
  <2> HIDE DEF s
  <2>3. t.schema = SchemaNow /\ t.role = "empty"
    BY <2>1, CopiesTyped DEF FileRoles
  <2> HIDE DEF t
  <2>4. ~IsOld(t)
    BY <2>3 DEF IsOld
  <2> QED BY <1>4, <2>2, <2>3, <2>4
<1>7. ASSUME NEW f \in Files, Migrates(f) PROVE OldInv'
  <2>1. PICK t \in FileStores :
            /\ staged' = [staged EXCEPT ![f] = t] /\ t.role = "migrated"
            /\ t.facts = ApplyChain(staged[f]) /\ t.clock = staged[f].clock /\ t.schema = SchemaNow
            /\ t.epoch = IF ChainChanges(staged[f]) THEN ids ELSE staged[f].epoch
    BY <1>7, MigratedTyped
  <2>2. IsStore(staged[f]) /\ staged[f].role = "copy" /\ UNCHANGED root
    BY <1>7 DEF Migrates
  <2>3. ASSUME IsStore(root), IsOld(root)
        PROVE  t.facts = ApplyChain(root) /\ t.clock = root.clock /\ (t.epoch = root.epoch => ~ChainChanges(root))
    <3>1. staged[f].facts = root.facts /\ staged[f].clock = root.clock /\ staged[f].schema = root.schema
      BY <2>2, <2>3 DEF OldInv
    <3>2. ApplyChain(staged[f]) = ApplyChain(root) /\ (ChainChanges(staged[f]) <=> ChainChanges(root))
      BY <3>1 DEF ApplyChain, ChainChanges
    <3>3. ChainChanges(root) => t.epoch = ids
      BY <2>1, <3>2
    <3>4. root.epoch # ids
      BY <1>0, <2>3
    <3> QED BY <2>1, <3>1, <3>2, <3>3, <3>4
  <2>4. ~IsOld(t)
    BY <2>1 DEF IsOld
  <2>5. staged' = [staged EXCEPT ![f] = t] /\ UNCHANGED root /\ t.role = "migrated"
    BY <2>1, <2>2
  <2> QED BY <1>4, <2>3, <2>4, <2>5
<1>8. ASSUME NEW f \in Files, Prepares(f) PROVE OldInv'
  <2>1. PICK t \in FileStores :
            staged' = [staged EXCEPT ![f] = t] /\ t.role = "prepared" /\ t.schema = staged[f].schema
    BY <1>8, PreparedTyped
  <2>2. ~IsOld(t) /\ UNCHANGED root
    BY <1>8, <2>1 DEF Prepares, IsOld
  <2> QED BY <1>4, <2>1, <2>2
<1>9. ASSUME NEW f \in Files, Replaces(f) PROVE OldInv'
  <2>1. /\ staged[f] \in FileStores /\ IsStore(staged[f]) /\ root' = Live(staged[f])
        /\ staged' = [staged EXCEPT ![f] = Absent] /\ staged[f].role # "copy"
    BY <1>9, StoresAre DEF Replaces
  <2>2. root'.schema = staged[f].schema
    BY <2>1, CopiesTyped DEF FileRoles
  <2>3. ~IsOld(root')
    BY <2>1, <2>2 DEF OldInv, IsOld
  <2>4. \A g \in Files : staged'[g] = IF g = f THEN Absent ELSE staged[g]
    BY <1>0, <2>1
  <2> QED BY <1>0, <2>3, <2>4 DEF OldInv
<1> QED BY <1>1, <1>2, <1>3, <1>5, <1>6, <1>7, <1>8, <1>9 DEF StoreStep

\* Two stores that say the same as of every point.
Alike(s, t) ==
    /\ s.clock = t.clock
    /\ \A point \in Clocks : QueryActiveEventsAsOf(s, point) = QueryActiveEventsAsOf(t, point)

\* Equal rows and clocks are enough.
LEMMA SameFactsAlike ==
  ASSUME NEW s, NEW t, s.facts = t.facts, s.clock = t.clock
  PROVE  Alike(s, t)
<1>1. \A point \in Clocks : QueryActiveEventsAsOf(s, point) = QueryActiveEventsAsOf(t, point)
  BY QueryIs
<1> QED BY <1>1 DEF Alike

\* A migration that keeps the epoch keeps what the store says.
LEMMA KeptEpochAlike ==
  ASSUME NEW s \in LiveStores \cup FileStores, NEW t, ~ChainChanges(s),
         s.schema \in DOMAIN Steps, t.facts = ApplyChain(s), t.clock = s.clock
  PROVE  Alike(s, t)
<1>1. s.schema \in s.schema .. (CurrentSchemaHead - 1)
  <2>1. s.schema \in Nat /\ s.schema <= SchemaNow - 1 /\ SchemaNow \in Nat
    BY StoreFieldsAre, StepsAssumption, VersionsAssumption
  <2> QED BY <2>1 DEF CurrentSchemaHead
<1>2. ~Steps[s.schema].recode
  BY <1>1, RecodeAssumption DEF ChainChanges
<1>3. /\ DOMAIN t.facts = DOMAIN s.facts /\ s.facts \in Seq(Rows)
      /\ \A i \in DOMAIN s.facts : SameRow(s.facts[i], t.facts[i])
  BY <1>2, StoreFieldsAre, ChainRows
<1>4. ASSUME NEW point \in Clocks
      PROVE  QueryActiveEventsAsOf(s, point) = QueryActiveEventsAsOf(t, point)
  <2>1. UpTo(s.facts, point) = UpTo(t.facts, point) /\ UpTo(s.facts, point) \subseteq DOMAIN s.facts
    BY <1>3 DEF UpTo, SameRow
  <2>2. \A i \in UpTo(s.facts, point) : SameRow(s.facts[i], t.facts[i])
    BY <1>3, <2>1
  <2> QED BY <2>1, <2>2, QuerySame
<1> QED BY <1>4 DEF Alike

\* PastInv survives a step of the stores.
LEMMA PastStep ==
  ASSUME StoreTypes, EpochInv, OldInv, PastInv, StoreStep
  PROVE  PastInv'
<1>0. /\ root \in LiveStores \cup {Absent} /\ staged \in [Files -> FileStores \cup {Absent}]
      /\ ids \in Nat /\ wall \in Nat /\ ~IsStore(Absent)
      /\ IsStore(root) => root \in LiveStores /\ root.clock \in Clocks /\ root.epoch \in Nat /\ root.epoch < ids
      /\ \A f \in Files : IsStore(staged[f]) =>
            /\ staged[f] \in FileStores /\ staged[f].clock \in Clocks
            /\ staged[f].epoch \in Nat /\ staged[f].epoch < ids
  BY BatchFields, StoresAre, StoreFieldsAre DEF StoreTypes, EpochInv
<1>1. CASE Quiet
  BY <1>1 DEF Quiet, PastInv, Past, QueryActiveEventsAsOf
<1>2. CASE Creates
  <2>1. root'.epoch = ids + 1 /\ UNCHANGED staged
    BY <1>0, <1>2, FreshStore DEF Creates
  <2>2. \A f \in Files : IsStore(staged[f]) => staged[f].epoch # root'.epoch
    BY <1>0, <2>1
  <2> QED BY <2>1, <2>2 DEF PastInv
<1>3. CASE Extends
  <2>1. PICK added \in Seq(Rows) : \E c \in Clocks :
              Stacked(added, root.clock, c) /\ root' = [root EXCEPT !.facts = @ \o added, !.clock = c]
    BY <1>3 DEF Extends
  <2>2. PICK c \in Clocks : Stacked(added, root.clock, c) /\ root' = [root EXCEPT !.facts = @ \o added, !.clock = c]
    BY <2>1
  <2>3. /\ IsStore(root) /\ root'.epoch = root.epoch /\ root'.clock = c /\ root'.facts = root.facts \o added
        /\ UNCHANGED staged /\ root.facts \in Seq(Rows)
    BY <1>0, <1>3, <2>2, ExtendedTyped, StoreFieldsAre DEF Extends
  <2>4. ASSUME NEW f \in Files, IsStore(staged[f]), staged[f].epoch = root.epoch
        PROVE  HlcLeq(staged[f].clock, root'.clock) /\ Past(staged[f], root')
    <3> DEFINE point == staged[f].clock
    <3>1. point \in Clocks /\ HlcLeq(point, root.clock) /\ Past(staged[f], root)
      BY <1>0, <2>3, <2>4 DEF PastInv
    <3>2. HlcLeq(root.clock, c) /\ \A i \in DOMAIN added : HlcLess(root.clock, added[i].hlc) /\ added[i].hlc \in Clocks
      BY <2>2, RowTypes DEF Stacked
    <3>3. HlcLeq(point, c) /\ \A i \in DOMAIN added : HlcLess(point, added[i].hlc)
      BY <1>0, <2>3, <3>1, <3>2, HlcOrder
    <3>4. QueryActiveEventsAsOf(root, point) = QueryActiveEventsAsOf(root', point)
      BY <2>3, <3>1, <3>3, QueryAppended
    <3> QED BY <2>3, <3>1, <3>3, <3>4 DEF Past
  <2> QED BY <2>3, <2>4 DEF PastInv
\* A file gets a value with a fresh epoch, or one that agrees with its kin.
<1>4. ASSUME NEW f \in Files, NEW t, staged' = [staged EXCEPT ![f] = t], UNCHANGED root,
             IsStore(root) /\ t.epoch = root.epoch => HlcLeq(t.clock, root.clock) /\ Past(t, root),
             \A g \in Files \ {f} : IsStore(staged[g]) /\ staged[g].epoch = t.epoch =>
                /\ HlcLeq(staged[g].clock, t.clock) => Past(staged[g], t)
                /\ HlcLeq(t.clock, staged[g].clock) => Past(t, staged[g])
      PROVE  PastInv'
  <2>1. \A g \in Files : staged'[g] = IF g = f THEN t ELSE staged[g]
    BY <1>0, <1>4
  <2>2. Past(t, t)
    BY DEF Past
  <2>3. ASSUME NEW g \in Files, IsStore(staged'[g]), IsStore(root'), staged'[g].epoch = root'.epoch
        PROVE  HlcLeq(staged'[g].clock, root'.clock) /\ Past(staged'[g], root')
    <3>1. CASE g = f
      BY <1>4, <2>1, <2>3, <3>1
    <3>2. CASE g # f
      BY <1>4, <2>1, <2>3, <3>2 DEF PastInv
    <3> QED BY <3>1, <3>2
  <2>4. ASSUME NEW g \in Files, IsStore(staged'[g]), NEW h \in Files, IsStore(staged'[h]),
               staged'[g].epoch = staged'[h].epoch, HlcLeq(staged'[g].clock, staged'[h].clock)
        PROVE  Past(staged'[g], staged'[h])
    <3>1. CASE g = f /\ h = f
      BY <2>1, <2>2, <3>1
    <3>2. CASE g = f /\ h # f
      BY <1>4, <2>1, <2>4, <3>2
    <3>3. CASE g # f /\ h = f
      BY <1>4, <2>1, <2>4, <3>3
    <3>4. CASE g # f /\ h # f
      BY <2>1, <2>4, <3>4 DEF PastInv
    <3> QED BY <3>1, <3>2, <3>3, <3>4
  <2> QED BY <2>3, <2>4 DEF PastInv
<1>5. ASSUME NEW f \in Files, NEW t, staged' = [staged EXCEPT ![f] = t], UNCHANGED root, t.epoch \in Nat, t.epoch >= ids
      PROVE  PastInv'
  <2>1. IsStore(root) => t.epoch # root.epoch
    BY <1>0, <1>5
  <2>2. \A g \in Files : IsStore(staged[g]) => staged[g].epoch # t.epoch
    BY <1>0, <1>5
  <2> QED BY <1>4, <1>5, <2>1, <2>2
<1>6. ASSUME NEW f \in Files, CopiesRoot(f) PROVE PastInv'
  <2> DEFINE t == Standalone(root, "copy")
  <2>1. IsStore(root) /\ root \in LiveStores /\ staged' = [staged EXCEPT ![f] = t] /\ UNCHANGED root
    BY <1>0, <1>6 DEF CopiesRoot
  <2>2. t.facts = root.facts /\ t.clock = root.clock /\ t.epoch = root.epoch
    BY <2>1, CopiesTyped DEF FileRoles
  <2> HIDE DEF t
  <2>3. Alike(t, root) /\ root.clock \in Clocks
    BY <1>0, <2>1, <2>2, SameFactsAlike
  <2>4. HlcLeq(t.clock, root.clock) /\ Past(t, root)
    BY <2>2, <2>3 DEF HlcLeq, Past, Alike
  <2>5. ASSUME NEW g \in Files \ {f}, IsStore(staged[g]), staged[g].epoch = t.epoch
        PROVE  /\ Past(staged[g], t)
               /\ HlcLeq(t.clock, staged[g].clock) => Past(t, staged[g])
    <3>1. staged[g].clock \in Clocks /\ HlcLeq(staged[g].clock, root.clock) /\ Past(staged[g], root)
      BY <1>0, <2>1, <2>2, <2>5 DEF PastInv
    <3>2. Past(staged[g], t)
      BY <2>3, <3>1 DEF Past, Alike
    <3>3. HlcLeq(t.clock, staged[g].clock) => staged[g].clock = t.clock
      BY <2>2, <2>3, <3>1, HlcOrder
    <3> QED BY <3>2, <3>3 DEF Past
  <2> QED BY <1>4, <2>1, <2>4, <2>5
<1>7. ASSUME NEW f \in Files, Empties(f) PROVE PastInv'
  <2> DEFINE s == InitializeMeta(ids, wall)
             t == Standalone(s, "empty")
  <2>1. s \in LiveStores /\ s.epoch = ids + 1
    BY <1>0, FreshStore
  <2>2. staged' = [staged EXCEPT ![f] = t] /\ UNCHANGED root
    BY <1>7 DEF Empties
  <2> HIDE DEF s
  <2>3. t.epoch = ids + 1
    BY <2>1, CopiesTyped DEF FileRoles
  <2> HIDE DEF t
  <2>4. t.epoch \in Nat /\ t.epoch >= ids
    BY <1>0, <2>3
  <2> QED BY <1>5, <2>2, <2>4
<1>8. ASSUME NEW f \in Files, Migrates(f) PROVE PastInv'
  <2>1. PICK t \in FileStores :
            /\ staged' = [staged EXCEPT ![f] = t]
            /\ t.facts = ApplyChain(staged[f]) /\ t.clock = staged[f].clock
            /\ t.epoch = IF ChainChanges(staged[f]) THEN ids ELSE staged[f].epoch
    BY <1>8, MigratedTyped
  <2>2. IsStore(staged[f]) /\ ChainProjects(staged[f]) /\ UNCHANGED root
        /\ DispositionFor(staged[f].schema) = "needs_migration"
    BY <1>8 DEF Migrates
  <2>3. CASE ChainChanges(staged[f])
    <3>1. t.epoch \in Nat /\ t.epoch >= ids
      BY <1>0, <2>1, <2>3
    <3> QED BY <1>5, <2>1, <2>2, <3>1
  <2>4. CASE ~ChainChanges(staged[f])
    <3>1. staged[f] \in FileStores /\ staged[f].schema \in DOMAIN Steps /\ staged[f].clock \in Clocks
      BY <1>0, <2>2, AcceptedIs
    <3>2. Alike(staged[f], t) /\ t.epoch = staged[f].epoch
      BY <2>1, <2>2, <2>4, <3>1, KeptEpochAlike
    <3>3. IsStore(root) /\ t.epoch = root.epoch => HlcLeq(t.clock, root.clock) /\ Past(t, root)
      BY <2>1, <2>2, <3>1, <3>2 DEF PastInv, Past, Alike
    <3>4. ASSUME NEW g \in Files \ {f}, IsStore(staged[g]), staged[g].epoch = t.epoch
          PROVE  /\ HlcLeq(staged[g].clock, t.clock) => Past(staged[g], t)
                 /\ HlcLeq(t.clock, staged[g].clock) => Past(t, staged[g])
      <4>1. staged[g].clock \in Clocks
        BY <1>0, <3>4
      <4> QED BY <2>1, <2>2, <3>1, <3>2, <3>4, <4>1 DEF PastInv, Past, Alike
    <3> QED BY <1>4, <2>1, <2>2, <3>3, <3>4
  <2> QED BY <2>3, <2>4
<1>9. ASSUME NEW f \in Files, Prepares(f) PROVE PastInv'
  <2>1. PICK t \in FileStores : staged' = [staged EXCEPT ![f] = t] /\ t.epoch = ids
    BY <1>9, PreparedTyped
  <2>2. t.epoch \in Nat /\ t.epoch >= ids /\ UNCHANGED root
    BY <1>0, <1>9, <2>1 DEF Prepares
  <2> QED BY <1>5, <2>1, <2>2
<1>10. ASSUME NEW f \in Files, Replaces(f) PROVE PastInv'
  <2>1. /\ staged[f] \in FileStores /\ IsStore(staged[f]) /\ root' = Live(staged[f])
        /\ staged' = [staged EXCEPT ![f] = Absent]
        /\ \/ staged[f].role \in {"empty", "prepared"}
           \/ staged[f].role = "migrated" /\ IsStore(root) /\ IsOld(root) /\ root.schema \in DOMAIN Steps
    BY <1>10, StoresAre DEF Replaces
  <2>2. root'.epoch = staged[f].epoch /\ root'.clock = staged[f].clock /\ root'.facts = staged[f].facts
    BY <2>1, CopiesTyped DEF FileRoles
  <2>3. Alike(staged[f], root')
    BY <2>2, SameFactsAlike
  <2>4. \A g \in Files : staged'[g] = IF g = f THEN Absent ELSE staged[g]
    BY <1>0, <2>1
  <2>5. ASSUME NEW g \in Files, IsStore(staged'[g]), staged'[g].epoch = root'.epoch
        PROVE  HlcLeq(staged'[g].clock, root'.clock) /\ Past(staged'[g], root')
    <3>1. g # f /\ staged'[g] = staged[g] /\ IsStore(staged[g]) /\ staged[g].epoch = staged[f].epoch
      BY <1>0, <2>2, <2>4, <2>5
    <3>2. staged[f].role \notin {"empty", "prepared"} /\ staged[g].role \notin {"empty", "prepared"}
      BY <2>1, <3>1 DEF EpochInv
    <3>3. staged[g].role \in {"copy", "migrated"}
      BY <1>0, <3>1, <3>2, StoreFieldsAre DEF FileRoles
    <3>4. IsStore(root) /\ IsOld(root) /\ staged[f].role = "migrated"
      BY <2>1, <3>2
    <3>5. staged[g].clock = root.clock /\ staged[f].clock = root.clock
      BY <2>1, <3>1, <3>3, <3>4 DEF OldInv
    <3>6. staged[g].clock \in Clocks /\ HlcLeq(staged[g].clock, staged[f].clock)
      BY <1>0, <3>1, <3>5 DEF HlcLeq
    <3>7. Past(staged[g], staged[f])
      BY <2>1, <3>1, <3>6 DEF PastInv
    <3> QED BY <2>2, <2>3, <3>1, <3>6, <3>7 DEF Past, Alike
  <2> QED BY <1>0, <2>4, <2>5 DEF PastInv
<1> QED BY <1>1, <1>2, <1>3, <1>6, <1>7, <1>8, <1>9, <1>10 DEF StoreStep

----------------------------------------------------------------------------
(* The processes                                                           *)

\* The types of a process's own record.
LEMMA ConnTyped ==
  /\ Closed \in Conns /\ Closed.pc = "closed" /\ Closed.mode = "none"
  /\ \A c \in Conns : /\ c.pc \in {"closed", "leased", "classified", "open"} /\ c.mode \in ConnModes \cup {"none"}
                      /\ [c EXCEPT !.pc = "classified", !.sawMeta = IsStore(root)] \in Conns
                      /\ \A clock \in Clocks : /\ [c EXCEPT !.pc = "open", !.clock = clock] \in Conns
                                               /\ [c EXCEPT !.clock = clock] \in Conns
  /\ \A mode \in ConnModes : [Closed EXCEPT !.pc = "leased", !.mode = mode] \in Conns
<1>1. <<0, 0>> \in Clocks
  BY DEF Clocks
<1>2. Closed \in Conns /\ Closed.pc = "closed" /\ Closed.mode = "none"
  BY <1>1 DEF Closed, Conns
<1>3. IsStore(root) \in BOOLEAN
  BY DEF IsStore
<1>4. \A c \in Conns : /\ c.pc \in {"closed", "leased", "classified", "open"} /\ c.mode \in ConnModes \cup {"none"}
                      /\ [c EXCEPT !.pc = "classified", !.sawMeta = IsStore(root)] \in Conns
                      /\ \A clock \in Clocks : /\ [c EXCEPT !.pc = "open", !.clock = clock] \in Conns
                                               /\ [c EXCEPT !.clock = clock] \in Conns
  BY <1>3 DEF Conns
<1>5. \A mode \in ConnModes : [Closed EXCEPT !.pc = "leased", !.mode = mode] \in Conns
  BY <1>2 DEF Conns, ConnModes
<1> QED BY <1>2, <1>4, <1>5

\* The stores have their types after any step.
LEMMA RootAndFilesTyped ==
  ASSUME StoreTypes, StoreStep
  PROVE  root' \in LiveStores \cup {Absent} /\ staged' \in [Files -> FileStores \cup {Absent}]
<1>0. /\ root \in LiveStores \cup {Absent} /\ staged \in [Files -> FileStores \cup {Absent}]
      /\ ids \in Nat /\ wall \in Nat
  BY BatchFields DEF StoreTypes
<1>1. CASE Quiet
  BY <1>0, <1>1 DEF Quiet
<1>2. CASE Creates
  BY <1>0, <1>2, FreshStore DEF Creates
<1>3. CASE Extends
  <2>1. PICK added \in Seq(Rows) : \E c \in Clocks : root' = [root EXCEPT !.facts = @ \o added, !.clock = c]
    BY <1>3 DEF Extends
  <2>2. PICK c \in Clocks : root' = [root EXCEPT !.facts = @ \o added, !.clock = c]
    BY <2>1
  <2>3. root \in LiveStores
    BY <1>3, StoresAre DEF Extends
  <2>4. root' \in LiveStores
    BY <2>2, <2>3, ExtendedTyped
  <2> QED BY <1>0, <1>3, <2>4 DEF Extends
<1>4. ASSUME NEW f \in Files, NEW t \in FileStores \cup {Absent}, staged' = [staged EXCEPT ![f] = t]
      PROVE  staged' \in [Files -> FileStores \cup {Absent}]
  BY <1>0, <1>4
<1>5. ASSUME NEW f \in Files, CopiesRoot(f) PROVE staged' \in [Files -> FileStores \cup {Absent}]
  <2>1. Standalone(root, "copy") \in FileStores
    BY <1>5, StoresAre, CopiesTyped DEF CopiesRoot, FileRoles
  <2> QED BY <1>4, <1>5, <2>1 DEF CopiesRoot
<1>6. ASSUME NEW f \in Files, Empties(f) PROVE staged' \in [Files -> FileStores \cup {Absent}]
  <2>1. InitializeMeta(ids, wall) \in LiveStores
    BY <1>0, FreshStore
  <2>2. Standalone(InitializeMeta(ids, wall), "empty") \in FileStores
    BY <2>1, CopiesTyped DEF FileRoles
  <2> QED BY <1>4, <1>6, <2>2 DEF Empties
<1>7. ASSUME NEW f \in Files, Migrates(f) PROVE staged' \in [Files -> FileStores \cup {Absent}]
  <2>1. PICK t \in FileStores : staged' = [staged EXCEPT ![f] = t]
    BY <1>7, MigratedTyped
  <2> QED BY <1>4, <2>1
<1>8. ASSUME NEW f \in Files, Prepares(f) PROVE staged' \in [Files -> FileStores \cup {Absent}]
  <2>1. PICK t \in FileStores : staged' = [staged EXCEPT ![f] = t]
    BY <1>8, PreparedTyped
  <2> QED BY <1>4, <2>1
<1>9. ASSUME NEW f \in Files, Replaces(f)
      PROVE  root' \in LiveStores /\ staged' \in [Files -> FileStores \cup {Absent}]
  <2>1. staged[f] \in FileStores
    BY <1>9, StoresAre DEF Replaces
  <2>2. Live(staged[f]) \in LiveStores
    BY <2>1, CopiesTyped DEF FileRoles
  <2> QED BY <1>4, <1>9, <2>2 DEF Replaces
<1>10. ASSUME NEW f \in Files, CopiesRoot(f) \/ Empties(f) \/ Migrates(f) \/ Prepares(f) PROVE UNCHANGED root
  BY <1>10 DEF CopiesRoot, Empties, Migrates, Prepares
<1> QED BY <1>0, <1>1, <1>2, <1>3, <1>5, <1>6, <1>7, <1>8, <1>9, <1>10 DEF StoreStep

\* A process whose record changes keeps a process's record.
LEMMA ConnUpdate ==
  ASSUME conn \in [Procs -> Conns], NEW p \in Procs, NEW c \in Conns
  PROVE  [conn EXCEPT ![p] = c] \in [Procs -> Conns]
OBVIOUS

\* What an action makes of the process that takes it.
Moves(p, c) == c \in Conns /\ conn' = [conn EXCEPT ![p] = c]

\* A first open, or one that validates what is there: the process is open or closed.
LEMMA OpenInitializeEffect ==
  ASSUME StoreTypes, NEW p \in Procs, OpenInitialize(p)
  PROVE  \E c \in Conns :
            /\ Moves(p, c) /\ (c = Closed \/ (c.pc = "open" /\ c.mode = conn[p].mode))
            /\ conn[p].pc = "classified"
            /\ c # Closed => IsStore(root') /\ (ValidateMeta(root', c.mode) = "ok" \/ ~IsStore(root))
            /\ UNCHANGED <<txn, storeLease, wall, snaps>>
<1> DEFINE r == conn[p]
<1>1. r \in Conns /\ <<wall, 0>> \in Clocks
  BY BatchFields DEF StoreTypes, Clocks
<1>2. CASE IsStore(root)
  <2> DEFINE o == [r EXCEPT !.pc = "open", !.clock = root.clock]
  <2>1. root.clock \in Clocks
    BY <1>2, StoresAre, StoreFieldsAre
  <2>2. o \in Conns /\ o.pc = "open" /\ o.mode = r.mode
    BY <1>1, <2>1, ConnTyped DEF Conns
  <2>3. /\ r.pc = "classified" /\ UNCHANGED <<root, txn, storeLease, wall, snaps>>
        /\ conn' = [conn EXCEPT ![p] = IF ValidateMeta(root, r.mode) = "ok" THEN o ELSE Closed]
    BY <1>2 DEF OpenInitialize
  <2> HIDE DEF o
  <2>4. CASE ValidateMeta(root, r.mode) = "ok"
    BY <1>2, <2>2, <2>3, <2>4 DEF Moves
  <2>5. CASE ValidateMeta(root, r.mode) # "ok"
    BY <2>3, <2>5, ConnTyped DEF Moves
  <2> QED BY <2>4, <2>5
<1>3. CASE ~IsStore(root)
  <2> DEFINE o == [r EXCEPT !.pc = "open", !.clock = <<wall, 0>>]
  <2>1. o \in Conns /\ o.pc = "open" /\ o.mode = r.mode
    BY <1>1, ConnTyped DEF Conns
  <2>2. /\ r.pc = "classified" /\ UNCHANGED <<txn, storeLease, wall, snaps>>
        /\ conn' = [conn EXCEPT ![p].pc = "open", ![p].clock = <<wall, 0>>] /\ root' = InitializeMeta(ids, wall)
    BY <1>3 DEF OpenInitialize
  <2>3. conn' = [conn EXCEPT ![p] = o]
    BY <1>1, <2>2 DEF StoreTypes, Conns
  <2>4. IsStore(root')
    BY <2>2 DEF InitializeMeta, IsStore
  <2> HIDE DEF o
  <2> QED BY <1>3, <2>1, <2>2, <2>3, <2>4 DEF Moves
<1> QED BY <1>2, <1>3

\* A batch that begins, and one that gets another event.
LEMMA BeginBatchEffect ==
  ASSUME StoreTypes, ConnInv, BatchInv, NEW p \in Procs, BeginBatch(p)
  PROVE  /\ txn' \in Txns /\ txn'.by = p /\ txn'.added = <<>> /\ txn'.clock = root.clock
         /\ conn[p].pc = "open" /\ conn[p].mode = "recorder" /\ IsStore(root)
         /\ Stacked(txn'.added, root.clock, txn'.clock) /\ UNCHANGED <<root, staged, conn, storeLease, wall, ids, snaps>>
<1>1. /\ conn[p].pc = "open" /\ conn[p].mode = "recorder"
      /\ txn' = [by |-> p, commit |-> ids, clock |-> root.clock, added |-> <<>>]
      /\ UNCHANGED <<root, staged, conn, storeLease, wall, ids, snaps>>
  BY DEF BeginBatch
<1>2. IsStore(root)
  BY <1>1 DEF ConnInv
<1>3. root.clock \in Clocks /\ ids \in Nat /\ <<>> \in Seq(Rows) /\ DOMAIN <<>> = {}
  BY <1>2, StoresAre, StoreFieldsAre, BatchFields
<1>4. /\ txn' \in Txns /\ txn'.by = p /\ txn'.added = <<>> /\ txn'.clock = root.clock
  BY <1>1, <1>3 DEF Txns
<1>5. Stacked(<<>>, root.clock, root.clock)
  BY <1>3, HlcOrder DEF Stacked
<1> QED BY <1>1, <1>2, <1>4, <1>5

\* Another event on top of the batch, above everything before it.
LEMMA AddEventEffect ==
  ASSUME StoreTypes, BatchInv, NEW p \in Procs, AddEvent(p)
  PROVE  /\ txn # NoTxn /\ txn' \in Txns /\ txn'.by = txn.by
         /\ Stacked(txn'.added, root.clock, txn'.clock) /\ UNCHANGED <<root, staged, conn, storeLease, wall, ids, snaps>>
<1> DEFINE hlc == GiveTick(txn.clock, wall)
           row == [kind |-> "event", commit |-> txn.commit, hlc |-> hlc, format |-> FormatNow, text |-> "short"]
           added == Append(txn.added, row)
           n == Len(txn.added)
<1>1. txn.by = p /\ txn' = [txn EXCEPT !.clock = hlc, !.added = Append(@, row)]
      /\ UNCHANGED <<root, staged, conn, storeLease, wall, ids, snaps>>
  BY DEF AddEvent
<1>2. /\ txn # NoTxn /\ txn \in Txns /\ txn.commit \in Nat /\ txn.clock \in Clocks /\ txn.added \in Seq(Rows)
      /\ wall \in Nat
  BY <1>1, BatchFields
<1>3. IsStore(root) /\ Stacked(txn.added, root.clock, txn.clock) /\ root.clock \in Clocks
  BY <1>2, StoresAre, StoreFieldsAre DEF BatchInv
<1>4. hlc \in Clocks /\ HlcLess(txn.clock, hlc)
  BY <1>2, TickGoesUp
<1> HIDE DEF hlc
<1>5. row \in Rows /\ row.hlc = hlc
  BY <1>2, <1>4, VersionsAssumption DEF Rows, Texts, Clocks
<1> HIDE DEF row
<1>6. /\ added \in Seq(Rows) /\ n \in Nat /\ DOMAIN txn.added = 1..n /\ DOMAIN added = 1..(n + 1)
      /\ \A i \in 1..n : added[i] = txn.added[i] /\ txn.added[i].hlc \in Clocks
      /\ added[n + 1] = row
  BY <1>2, <1>5, RowTypes
<1>7. txn' \in Txns /\ txn'.by = txn.by /\ txn'.added = added /\ txn'.clock = hlc
  BY <1>1, <1>2, <1>4, <1>6 DEF Txns
<1> DEFINE low == root.clock
           old == txn.added
           high == txn.clock
<1>8. /\ HlcLeq(low, high)
      /\ \A i, j \in 1..n : i < j => HlcLess(old[i].hlc, old[j].hlc)
      /\ \A i \in 1..n : HlcLess(low, old[i].hlc) /\ HlcLeq(old[i].hlc, high)
      /\ low \in Clocks /\ high \in Clocks
  BY <1>2, <1>3, <1>6 DEF Stacked
<1> HIDE DEF added, n, low, old, high
<1>9. HlcLeq(low, hlc) /\ HlcLess(low, hlc) /\ HlcLeq(hlc, hlc)
  BY <1>4, <1>8, HlcOrder DEF high
<1>10. \A i \in 1..n : old[i].hlc \in Clocks /\ HlcLess(old[i].hlc, hlc) /\ HlcLeq(old[i].hlc, hlc)
  BY <1>4, <1>6, <1>8, HlcOrder DEF high, old
<1>11. \A i \in 1..(n + 1) : i \in 1..n \/ i = n + 1
  BY <1>6
<1>12. \A i, j \in DOMAIN added : i < j => HlcLess(added[i].hlc, added[j].hlc)
  <2> SUFFICES ASSUME NEW i \in 1..(n + 1), NEW j \in 1..(n + 1), i < j
               PROVE  HlcLess(added[i].hlc, added[j].hlc)
    BY <1>6
  <2>1. i \in 1..n
    BY <1>6
  <2>2. CASE j \in 1..n
    BY <1>6, <1>8, <2>1, <2>2 DEF old
  <2>3. CASE j = n + 1
    BY <1>5, <1>6, <1>10, <2>1, <2>3 DEF old
  <2> QED BY <1>11, <2>2, <2>3
<1>13. \A i \in DOMAIN added : HlcLess(low, added[i].hlc) /\ HlcLeq(added[i].hlc, hlc)
  BY <1>5, <1>6, <1>8, <1>9, <1>10, <1>11 DEF old
<1>14. Stacked(added, low, hlc)
  BY <1>9, <1>12, <1>13 DEF Stacked
<1> QED BY <1>1, <1>2, <1>7, <1>14 DEF low

\* The types survive a step.
LEMMA StoreTypesStep ==
  ASSUME StoreTypes, ConnInv, BatchInv, FactStep
  PROVE  StoreTypes'
<1>0. /\ root' \in LiveStores \cup {Absent} /\ staged' \in [Files -> FileStores \cup {Absent}]
      /\ conn \in [Procs -> Conns] /\ storeLease \in {"free", "exclusive"} /\ txn \in Txns \cup {NoTxn}
      /\ wall \in 0 .. MaxWall /\ ids \in Nat /\ snaps \in Nat
  BY StepsAre, RootAndFilesTyped DEF StoreTypes
<1>1. CASE UNCHANGED factStoreVars
  BY <1>0, <1>1 DEF factStoreVars, StoreTypes
<1>2. ASSUME NEW p \in Procs, NEW mode \in ConnModes, OpenLease(p, mode) PROVE StoreTypes'
  <2>1. conn' \in [Procs -> Conns]
    BY <1>0, <1>2, ConnTyped, ConnUpdate DEF OpenLease
  <2> QED BY <1>0, <1>2, <2>1 DEF OpenLease, StoreTypes
<1>3. ASSUME NEW p \in Procs, OpenClassify(p) PROVE StoreTypes'
  <2> DEFINE c == IF ~IsStore(root) \/ ValidateMeta(root, conn[p].mode) = "ok"
                  THEN [conn[p] EXCEPT !.pc = "classified", !.sawMeta = IsStore(root)] ELSE Closed
  <2>1. c \in Conns
    BY <1>0, ConnTyped
  <2>2. conn' = [conn EXCEPT ![p] = c]
    BY <1>3 DEF OpenClassify
  <2> HIDE DEF c
  <2>3. conn' \in [Procs -> Conns]
    BY <1>0, <2>1, <2>2
  <2> QED BY <1>0, <1>3, <2>3 DEF OpenClassify, StoreTypes
<1>4. ASSUME NEW p \in Procs, OpenInitialize(p) PROVE StoreTypes'
  <2>1. PICK c \in Conns : Moves(p, c) /\ UNCHANGED <<txn, storeLease, wall, snaps>>
    BY <1>4, OpenInitializeEffect
  <2>2. conn' \in [Procs -> Conns]
    BY <1>0, <2>1 DEF Moves
  <2>3. ids' \in Nat
    BY <1>0, <1>4 DEF OpenInitialize
  <2> QED BY <1>0, <2>1, <2>2, <2>3 DEF StoreTypes
<1>5. ASSUME NEW p \in Procs, Close(p) PROVE StoreTypes'
  <2>1. conn' \in [Procs -> Conns]
    BY <1>0, <1>5, ConnTyped, ConnUpdate DEF Close
  <2> QED BY <1>0, <1>5, <2>1 DEF Close, StoreTypes
<1>6. ASSUME NEW p \in Procs, BeginBatch(p) PROVE StoreTypes'
  BY <1>0, <1>6, BeginBatchEffect DEF StoreTypes
<1>7. ASSUME NEW p \in Procs, AddEvent(p) PROVE StoreTypes'
  BY <1>0, <1>7, AddEventEffect DEF StoreTypes
<1>8. ASSUME NEW p \in Procs, CommitBatch(p) PROVE StoreTypes'
  <2>1. txn.clock \in Clocks
    BY <1>8, BatchFields DEF CommitBatch
  <2> DEFINE c == [conn[p] EXCEPT !.clock = txn.clock]
  <2>2. c \in Conns /\ conn' = [conn EXCEPT ![p] = c]
    BY <1>0, <1>8, <2>1, ConnTyped DEF CommitBatch
  <2> HIDE DEF c
  <2>3. conn' \in [Procs -> Conns]
    BY <1>0, <2>2
  <2>4. ids' \in Nat
    BY <1>0, <1>8 DEF CommitBatch
  <2> QED BY <1>0, <1>8, <2>3, <2>4 DEF CommitBatch, StoreTypes
<1>9. ASSUME NEW p \in Procs, RollbackBatch(p) PROVE StoreTypes'
  BY <1>0, <1>9 DEF RollbackBatch, StoreTypes
<1>10. ASSUME NEW p \in Procs, NEW k, AppendRetraction(p, k) PROVE StoreTypes'
  <2> DEFINE hlc == GiveTick(root.clock, wall)
             c == [conn[p] EXCEPT !.clock = hlc]
  <2>1. IsStore(root)
    BY <1>10 DEF AppendRetraction, ConnInv
  <2>2. hlc \in Clocks
    BY <2>1, StoresAre, StoreFieldsAre, BatchFields, TickGoesUp
  <2> HIDE DEF hlc
  <2>3. c \in Conns
    BY <1>0, <2>2, ConnTyped
  <2>4. conn' = [conn EXCEPT ![p] = c] /\ UNCHANGED <<staged, storeLease, txn, wall, ids, snaps>>
    BY <1>10 DEF AppendRetraction, hlc
  <2> HIDE DEF c
  <2>5. conn' \in [Procs -> Conns]
    BY <1>0, <2>3, <2>4
  <2> QED BY <1>0, <2>4, <2>5 DEF StoreTypes
<1>11. ASSUME NEW p \in Procs, NEW f \in Files, SnapshotTo(p, f) PROVE StoreTypes'
  BY <1>0, <1>11 DEF SnapshotTo, StoreTypes
<1>12. ASSUME NEW f \in Files, CreateEmptyStore(f) \/ MigrateFile(f) \/ PrepareRestoreFile(f) \/ ReplaceRoot(f)
       PROVE  StoreTypes'
  <2>1. ids' \in Nat /\ snaps' \in Nat /\ UNCHANGED <<conn, storeLease, txn, wall>>
    BY <1>0, <1>12 DEF CreateEmptyStore, MigrateFile, PrepareRestoreFile, ReplaceRoot
  <2> QED BY <1>0, <2>1 DEF StoreTypes
<1>13. CASE TakeExclusive \/ ReleaseExclusive \/ \E now \in 0 .. MaxWall : SetWall(now)
  BY <1>0, <1>13 DEF TakeExclusive, ReleaseExclusive, SetWall, StoreTypes
<1> QED BY <1>1, <1>2, <1>3, <1>4, <1>5, <1>6, <1>7, <1>8, <1>9, <1>10, <1>11, <1>12, <1>13
        DEF FactStep, FactStoreNext, ConnModes

\* One process moves, the live store and the lease stay: ConnInv survives.
LEMMA ConnMoves ==
  ASSUME StoreTypes, ConnInv, UNCHANGED storeLease, NEW p \in Procs, NEW c \in Conns, Moves(p, c),
         c.pc = "closed" <=> c.mode = "none",
         c.mode = "exclusive" => storeLease = "exclusive",
         c.mode \in {"recorder", "maintenance"} => storeLease = "free",
         c.pc = "open" => IsStore(root') /\ Accepted(root', c.mode),
         \A q \in Procs \ {p} : conn[q].pc = "open" => IsStore(root') /\ Accepted(root', conn[q].mode)
  PROVE  ConnInv'
<1>1. \A q \in Procs : conn'[q] = IF q = p THEN c ELSE conn[q]
  BY DEF StoreTypes, Moves
<1> QED BY <1>1 DEF ConnInv

\* A process keeps what it has and at most its clock changes.
LEMMA ClockMoves ==
  ASSUME StoreTypes, NEW p \in Procs, NEW clock \in Clocks, conn' = [conn EXCEPT ![p].clock = clock]
  PROVE  \A q \in Procs : conn'[q].pc = conn[q].pc /\ conn'[q].mode = conn[q].mode
BY DEF StoreTypes, Conns

\* ConnInv survives a step.
LEMMA ConnStep ==
  ASSUME StoreTypes, ConnInv, BatchInv, FactStep
  PROVE  ConnInv'
<1>0. /\ conn \in [Procs -> Conns] /\ storeLease \in {"free", "exclusive"}
      /\ \A q \in Procs : conn[q] \in Conns /\ conn[q].mode \in ConnModes \cup {"none"}
                          /\ conn[q].pc \in {"closed", "leased", "classified", "open"}
  BY ConnTyped DEF StoreTypes
<1>1. CASE UNCHANGED factStoreVars
  BY <1>1 DEF factStoreVars, ConnInv
<1>2. ASSUME NEW p \in Procs, NEW mode \in ConnModes, OpenLease(p, mode) PROVE ConnInv'
  <2> DEFINE c == [Closed EXCEPT !.pc = "leased", !.mode = mode]
  <2>1. c \in Conns /\ c.pc = "leased" /\ c.mode = mode
    BY ConnTyped DEF Closed
  <2>2. Moves(p, c) /\ UNCHANGED <<root, storeLease>>
        /\ IF mode = "exclusive" THEN storeLease = "exclusive" ELSE storeLease = "free"
    BY <1>2, <2>1 DEF OpenLease, Moves
  <2> HIDE DEF c
  <2>3. \A q \in Procs \ {p} : conn[q].pc = "open" => IsStore(root') /\ Accepted(root', conn[q].mode)
    BY <2>2 DEF ConnInv
  <2> QED BY <2>1, <2>2, <2>3, ConnMoves DEF ConnModes
<1>3. ASSUME NEW p \in Procs, OpenClassify(p) PROVE ConnInv'
  <2> DEFINE d == [conn[p] EXCEPT !.pc = "classified", !.sawMeta = IsStore(root)]
             c == IF ~IsStore(root) \/ ValidateMeta(root, conn[p].mode) = "ok" THEN d ELSE Closed
  <2>1. d \in Conns /\ d.pc = "classified" /\ d.mode = conn[p].mode
    <3>1. conn[p] \in Conns
      BY <1>0
    <3>2. d \in Conns
      BY <3>1, ConnTyped
    <3>3. d.pc = "classified" /\ d.mode = conn[p].mode
      BY <3>1 DEF Conns
    <3> QED BY <3>2, <3>3
  <2>2. conn' = [conn EXCEPT ![p] = c] /\ UNCHANGED <<root, storeLease>> /\ conn[p].pc = "leased"
    BY <1>3 DEF OpenClassify
  <2> HIDE DEF d
  <2>3. c = Closed \/ c = d
    OBVIOUS
  <2>4. c \in Conns /\ (c = Closed \/ (c.pc = "classified" /\ c.mode = conn[p].mode))
    BY <2>1, <2>3, ConnTyped
  <2> HIDE DEF c
  <2>5. Moves(p, c)
    BY <2>2, <2>4 DEF Moves
  <2>6. \A q \in Procs \ {p} : conn[q].pc = "open" => IsStore(root') /\ Accepted(root', conn[q].mode)
    BY <2>2 DEF ConnInv
  <2>7. CASE c = Closed
    <3>1. c.pc = "closed" /\ c.mode = "none"
      BY <2>7, ConnTyped
    <3> QED BY <2>2, <2>4, <2>5, <2>6, <3>1, ConnMoves
  <2>8. CASE c.pc = "classified" /\ c.mode = conn[p].mode
    <3>1. /\ c.mode # "none"
          /\ c.mode = "exclusive" => storeLease = "exclusive"
          /\ c.mode \in {"recorder", "maintenance"} => storeLease = "free"
      BY <2>2, <2>8 DEF ConnInv
    <3> QED BY <2>2, <2>4, <2>5, <2>6, <2>8, <3>1, ConnMoves
  <2> QED BY <2>4, <2>7, <2>8
<1>4. ASSUME NEW p \in Procs, OpenInitialize(p) PROVE ConnInv'
  <2>1. PICK c \in Conns :
            /\ Moves(p, c) /\ (c = Closed \/ (c.pc = "open" /\ c.mode = conn[p].mode))
            /\ conn[p].pc = "classified"
            /\ c # Closed => IsStore(root') /\ (ValidateMeta(root', c.mode) = "ok" \/ ~IsStore(root))
            /\ UNCHANGED <<txn, storeLease, wall, snaps>>
    BY <1>4, OpenInitializeEffect
  <2>2. CASE IsStore(root)
    <3>1. UNCHANGED root
      BY <1>4, <2>2 DEF OpenInitialize
    <3>2. \A q \in Procs \ {p} : conn[q].pc = "open" => IsStore(root') /\ Accepted(root', conn[q].mode)
      BY <3>1 DEF ConnInv
    <3>3. CASE c = Closed
      <4>1. c.pc = "closed" /\ c.mode = "none"
        BY <3>3, ConnTyped
      <4> QED BY <2>1, <3>2, <4>1, ConnMoves
    <3>4. CASE c # Closed
      <4>1. /\ c.pc = "open" /\ c.mode = conn[p].mode /\ c.mode # "none"
            /\ c.mode = "exclusive" => storeLease = "exclusive"
            /\ c.mode \in {"recorder", "maintenance"} => storeLease = "free"
        BY <2>1, <3>4 DEF ConnInv
      <4>2. c.mode \in ConnModes
        BY <1>0, <4>1
      <4>3. ValidateMeta(root, c.mode) = "ok"
        BY <2>1, <2>2, <3>1, <3>4
      <4>4. IsStore(root') /\ Accepted(root', c.mode)
        BY <2>2, <3>1, <4>2, <4>3, StoresAre, AcceptedIs
      <4> QED BY <2>1, <3>2, <4>1, <4>4, ConnMoves
    <3> QED BY <3>3, <3>4
  <2>3. CASE ~IsStore(root)
    <3>1. root' = InitializeMeta(ids, wall)
      BY <1>4, <2>3 DEF OpenInitialize
    <3>2. root' \in LiveStores /\ root'.schema = SchemaNow /\ root'.format = FormatNow
      BY <3>1, BatchFields, FreshStore
    <3>3. \A mode \in ConnModes : Accepted(root', mode)
      BY <3>2, AcceptedIs
    <3>4. \A q \in Procs \ {p} : conn[q].pc = "open" => IsStore(root') /\ Accepted(root', conn[q].mode)
      BY <2>3 DEF ConnInv
    <3>5. CASE c = Closed
      <4>1. c.pc = "closed" /\ c.mode = "none"
        BY <3>5, ConnTyped
      <4> QED BY <2>1, <3>4, <4>1, ConnMoves
    <3>6. CASE c # Closed
      <4>1. /\ c.pc = "open" /\ c.mode = conn[p].mode /\ c.mode # "none" /\ IsStore(root')
            /\ c.mode = "exclusive" => storeLease = "exclusive"
            /\ c.mode \in {"recorder", "maintenance"} => storeLease = "free"
        BY <2>1, <3>6 DEF ConnInv
      <4>2. Accepted(root', c.mode)
        BY <1>0, <3>3, <4>1
      <4> QED BY <2>1, <3>4, <4>1, <4>2, ConnMoves
    <3> QED BY <3>5, <3>6
  <2> QED BY <2>2, <2>3
<1>5. ASSUME NEW p \in Procs, Close(p) PROVE ConnInv'
  <2>1. Moves(p, Closed) /\ UNCHANGED <<root, storeLease>>
    BY <1>5, ConnTyped DEF Close, Moves
  <2>2. \A q \in Procs \ {p} : conn[q].pc = "open" => IsStore(root') /\ Accepted(root', conn[q].mode)
    BY <2>1 DEF ConnInv
  <2> QED BY <2>1, <2>2, ConnMoves, ConnTyped
<1>6. ASSUME NEW p \in Procs, BeginBatch(p) \/ AddEvent(p) \/ RollbackBatch(p) PROVE ConnInv'
  BY <1>6 DEF BeginBatch, AddEvent, RollbackBatch, ConnInv
<1>7. ASSUME IsStore(root), NEW p \in Procs, NEW clock \in Clocks, conn' = [conn EXCEPT ![p].clock = clock],
             UNCHANGED storeLease, root'.schema = root.schema, root'.format = root.format, IsStore(root')
      PROVE  ConnInv'
  <2>1. \A q \in Procs : conn'[q].pc = conn[q].pc /\ conn'[q].mode = conn[q].mode
    BY <1>7, ClockMoves
  <2>2. \A mode : Accepted(root, mode) => Accepted(root', mode)
    BY <1>7, AcceptedSame
  <2> QED BY <1>7, <2>1, <2>2 DEF ConnInv
<1>8. ASSUME NEW p \in Procs, CommitBatch(p) PROVE ConnInv'
  <2>1. /\ txn # NoTxn /\ txn.added \in Seq(Rows) /\ txn.clock \in Clocks
    BY <1>8, BatchFields DEF CommitBatch
  <2>2. IsStore(root) /\ root \in LiveStores
    BY <2>1, StoresAre DEF BatchInv
  <2>3. /\ root' = [root EXCEPT !.facts = @ \o txn.added, !.clock = txn.clock]
        /\ conn' = [conn EXCEPT ![p].clock = txn.clock] /\ UNCHANGED storeLease
    BY <1>8 DEF CommitBatch
  <2>4. root' \in LiveStores /\ root'.schema = root.schema /\ root'.format = root.format
    BY <2>1, <2>2, <2>3, ExtendedTyped
  <2>5. IsStore(root')
    BY <2>4, StoreFieldsAre DEF IsStore
  <2> QED BY <1>7, <2>1, <2>2, <2>3, <2>4, <2>5
<1>9. ASSUME NEW p \in Procs, NEW k, AppendRetraction(p, k) PROVE ConnInv'
  <2> DEFINE hlc == GiveTick(root.clock, wall)
  <2>1. IsStore(root) /\ root \in LiveStores
    BY <1>9, StoresAre DEF AppendRetraction, ConnInv
  <2>2. hlc \in Clocks
    BY <2>1, StoreFieldsAre, BatchFields, TickGoesUp
  <2> DEFINE facts == Append(root.facts, RetractionRow(k, hlc))
  <2>3. /\ root' = [root EXCEPT !.facts = facts, !.clock = hlc]
        /\ conn' = [conn EXCEPT ![p].clock = hlc] /\ UNCHANGED storeLease
    BY <1>9 DEF AppendRetraction, RetractionRow
  <2> HIDE DEF hlc, facts
  <2>4. root'.kind = root.kind /\ root'.schema = root.schema /\ root'.format = root.format
    BY <2>1, <2>3 DEF LiveStores
  <2>5. IsStore(root')
    BY <2>1, <2>4 DEF IsStore
  <2> QED BY <1>7, <2>1, <2>2, <2>3, <2>4, <2>5
<1>10. ASSUME NEW p \in Procs, NEW f \in Files, SnapshotTo(p, f) PROVE ConnInv'
  BY <1>10 DEF SnapshotTo, ConnInv
<1>11. ASSUME NEW f \in Files, CreateEmptyStore(f) \/ MigrateFile(f) \/ PrepareRestoreFile(f) PROVE ConnInv'
  BY <1>11 DEF CreateEmptyStore, MigrateFile, PrepareRestoreFile, ConnInv
<1>12. ASSUME NEW f \in Files, ReplaceRoot(f) PROVE ConnInv'
  <2>1. storeLease = "exclusive" /\ (\A q \in Procs : conn[q].mode # "exclusive") /\ UNCHANGED <<conn, storeLease>>
    BY <1>12 DEF ReplaceRoot
  <2>2. \A q \in Procs : conn[q].mode = "none"
    BY <1>0, <2>1 DEF ConnInv, ConnModes
  <2> QED BY <2>1, <2>2 DEF ConnInv
<1>13. CASE TakeExclusive
  <2>1. /\ storeLease = "free" /\ storeLease' = "exclusive" /\ UNCHANGED <<root, conn>>
        /\ \A q \in Procs : ~(conn[q].pc # "closed" /\ conn[q].mode # "exclusive")
    BY <1>13 DEF TakeExclusive, SharedHeld
  <2>2. \A q \in Procs : conn[q].mode \notin {"recorder", "maintenance"}
    BY <2>1 DEF ConnInv
  <2> QED BY <2>1, <2>2 DEF ConnInv
<1>14. CASE ReleaseExclusive
  <2>1. storeLease = "exclusive" /\ storeLease' = "free" /\ UNCHANGED <<root, conn>> /\ \A q \in Procs : conn[q].mode # "exclusive"
    BY <1>14 DEF ReleaseExclusive
  <2> QED BY <2>1 DEF ConnInv
<1>15. CASE \E now \in 0 .. MaxWall : SetWall(now)
  BY <1>15 DEF SetWall, ConnInv
<1> QED BY <1>1, <1>2, <1>3, <1>4, <1>5, <1>6, <1>8, <1>9, <1>10, <1>11, <1>12, <1>13, <1>14, <1>15
        DEF FactStep, FactStoreNext, ConnModes

\* BatchInv survives a step.
LEMMA BatchStep ==
  ASSUME StoreTypes, ConnInv, BatchInv, FactStep
  PROVE  BatchInv'
<1>0. /\ conn \in [Procs -> Conns] /\ (txn # NoTxn => txn.by \in Procs /\ txn \in Txns)
      /\ \A q \in Procs : conn[q] \in Conns
  BY BatchFields DEF StoreTypes
<1>1. CASE UNCHANGED factStoreVars
  BY <1>1 DEF factStoreVars, BatchInv, Stacked
\* Somebody else moves, the live store stays.
<1>2. ASSUME NEW p \in Procs, UNCHANGED <<root, txn>>, \A q \in Procs \ {p} : conn'[q] = conn[q],
             txn # NoTxn => txn.by # p
      PROVE  BatchInv'
  BY <1>0, <1>2 DEF BatchInv
<1>3. ASSUME NEW p \in Procs, NEW mode \in ConnModes, OpenLease(p, mode) PROVE BatchInv'
  <2>1. conn[p].pc = "closed" /\ UNCHANGED <<root, txn>> /\ \A q \in Procs \ {p} : conn'[q] = conn[q]
    BY <1>0, <1>3 DEF OpenLease
  <2>2. txn # NoTxn => txn.by # p
    BY <2>1 DEF BatchInv
  <2> QED BY <1>2, <2>1, <2>2
<1>4. ASSUME NEW p \in Procs, OpenClassify(p) PROVE BatchInv'
  <2>1. conn[p].pc = "leased" /\ UNCHANGED <<root, txn>> /\ \A q \in Procs \ {p} : conn'[q] = conn[q]
    BY <1>0, <1>4 DEF OpenClassify
  <2>2. txn # NoTxn => txn.by # p
    BY <2>1 DEF BatchInv
  <2> QED BY <1>2, <2>1, <2>2
<1>5. ASSUME NEW p \in Procs, OpenInitialize(p) PROVE BatchInv'
  <2>1. txn = NoTxn
    BY <1>5 DEF OpenInitialize
  <2>2. UNCHANGED txn
    BY <1>5, OpenInitializeEffect
  <2> QED BY <2>1, <2>2 DEF BatchInv
<1>6. ASSUME NEW p \in Procs, Close(p) PROVE BatchInv'
  <2>1. UNCHANGED root /\ txn' = (IF txn.by = p THEN NoTxn ELSE txn) /\ \A q \in Procs \ {p} : conn'[q] = conn[q]
    BY <1>0, <1>6 DEF Close
  <2>2. CASE txn.by = p
    BY <2>1, <2>2 DEF BatchInv
  <2>3. CASE txn.by # p
    BY <1>2, <2>1, <2>3
  <2> QED BY <2>2, <2>3
<1>7. ASSUME NEW p \in Procs, BeginBatch(p) PROVE BatchInv'
  BY <1>7, BeginBatchEffect DEF BatchInv
<1>8. ASSUME NEW p \in Procs, AddEvent(p) PROVE BatchInv'
  <2>1. /\ txn # NoTxn /\ txn'.by = txn.by
        /\ Stacked(txn'.added, root.clock, txn'.clock) /\ UNCHANGED <<root, conn>>
    BY <1>8, AddEventEffect
  <2> QED BY <2>1 DEF BatchInv
<1>9. ASSUME NEW p \in Procs, CommitBatch(p) \/ RollbackBatch(p) PROVE BatchInv'
  BY <1>9 DEF CommitBatch, RollbackBatch, BatchInv
<1>10. ASSUME NEW p \in Procs, NEW k, AppendRetraction(p, k) PROVE BatchInv'
  BY <1>10 DEF AppendRetraction, BatchInv
<1>11. ASSUME NEW p \in Procs, NEW f \in Files, SnapshotTo(p, f) PROVE BatchInv'
  BY <1>11 DEF SnapshotTo, BatchInv
<1>12. ASSUME NEW f \in Files, CreateEmptyStore(f) \/ MigrateFile(f) \/ PrepareRestoreFile(f) PROVE BatchInv'
  BY <1>12 DEF CreateEmptyStore, MigrateFile, PrepareRestoreFile, BatchInv
<1>13. ASSUME NEW f \in Files, ReplaceRoot(f) PROVE BatchInv'
  <2>1. storeLease = "exclusive" /\ UNCHANGED txn
    BY <1>13 DEF ReplaceRoot
  <2>2. txn = NoTxn
    BY <1>0, <2>1 DEF BatchInv, ConnInv
  <2> QED BY <2>1, <2>2 DEF BatchInv
<1>14. CASE TakeExclusive \/ ReleaseExclusive \/ \E now \in 0 .. MaxWall : SetWall(now)
  BY <1>14 DEF TakeExclusive, ReleaseExclusive, SetWall, BatchInv
<1> QED BY <1>1, <1>3, <1>4, <1>5, <1>6, <1>7, <1>8, <1>9, <1>10, <1>11, <1>12, <1>13, <1>14
        DEF FactStep, FactStoreNext, ConnModes

----------------------------------------------------------------------------
(* The invariant holds, and what it says                                   *)

\* FactInv holds at first: the root is what an earlier run left.
LEMMA FactInvInit ==
  ASSUME FactStoreInit
  PROVE  FactInv
<1>1. /\ root \in StartStores /\ staged = [f \in Files |-> Absent] /\ conn = [p \in Procs |-> Closed]
      /\ storeLease = "free" /\ txn = NoTxn /\ wall \in 0 .. MaxWall /\ ids = FirstId /\ snaps = 0
  BY DEF FactStoreInit
<1>2. root = Absent \/ (root \in LiveStores /\ InOrder(root) /\ root.epoch < FirstId)
  BY <1>1, StartAssumption
<1>3. FirstId \in Nat /\ Absent.kind # "store"
  BY DEF FirstId, Absent
<1>4. StoreTypes
  BY <1>1, <1>2, <1>3, ConnTyped DEF StoreTypes
<1>5. /\ \A f \in Files : ~IsStore(staged[f])
      /\ IsStore(root) => root \in LiveStores /\ InOrder(root) /\ root.epoch < ids
  BY <1>1, <1>2, <1>3 DEF IsStore
<1>6. ConnInv
  <2>1. \A p \in Procs : conn[p].pc = "closed" /\ conn[p].mode = "none"
    BY <1>1, ConnTyped
  <2> QED BY <2>1 DEF ConnInv
<1>7. BatchInv
  BY <1>1 DEF BatchInv
<1>8. FilesInv /\ EpochInv /\ OldInv /\ PastInv
  BY <1>5 DEF FilesInv, EpochInv, OldInv, PastInv
<1> QED BY <1>4, <1>6, <1>7, <1>8 DEF FactInv

\* FactInv survives every step.
LEMMA FactInvStep ==
  ASSUME FactInv, FactStep
  PROVE  FactInv'
<1>1. StoreTypes /\ ConnInv /\ BatchInv /\ FilesInv /\ EpochInv /\ OldInv /\ PastInv
  BY DEF FactInv
<1>2. StoreStep
  BY <1>1, StepsAre
<1>3. StoreTypes' /\ ConnInv' /\ BatchInv'
  BY <1>1, StoreTypesStep, ConnStep, BatchStep
<1>4. ids' \in Nat
  BY <1>3 DEF StoreTypes
<1>5. FilesInv'
  BY <1>1, <1>2, <1>3, FilesStep
<1>6. EpochInv'
  BY <1>1, <1>2, <1>4, EpochStep
<1>7. OldInv' /\ PastInv'
  BY <1>1, <1>2, OldStep, PastStep
<1> QED BY <1>3, <1>5, <1>6, <1>7 DEF FactInv

\* The live root and the files, as one set of stores.
LEMMA StoresTyped ==
  ASSUME StoreTypes
  PROVE  \A s \in Stores :
            /\ s \in LiveStores \cup FileStores
            /\ (s = root /\ IsStore(root)) \/ \E f \in Files : s = staged[f] /\ IsStore(staged[f])
BY StoresAre DEF Stores

\* FactInv is what the states show.
LEMMA FactInvSays ==
  ASSUME FactInv
  PROVE  TypeOK /\ HlcOrdered /\ SnapshotsPass /\ EpochNamesHistory
<1>0. StoreTypes /\ ConnInv /\ BatchInv /\ FilesInv /\ EpochInv /\ OldInv /\ PastInv
  BY DEF FactInv
<1>1. TypeOK
  <2>1. \A s \in Stores : s.clock \in Nat \X Nat /\ s.schema \in Nat
    BY <1>0, StoresTyped, StoreFieldsAre DEF Clocks
  <2>2. \A p \in Procs : conn[p].pc \in {"closed", "leased", "classified", "open"}
    BY <1>0, ConnTyped DEF StoreTypes
  <2>3. txn # NoTxn => txn.by \in Procs /\ conn[txn.by].pc = "open" /\ IsStore(root)
    BY <1>0, BatchFields DEF BatchInv
  <2>4. storeLease \in {"free", "exclusive"} /\ wall \in 0 .. MaxWall
    BY <1>0 DEF StoreTypes
  <2> QED BY <2>1, <2>2, <2>3, <2>4 DEF TypeOK
<1>2. \A s \in Stores : s \in LiveStores \cup FileStores /\ InOrder(s)
  BY <1>0, StoresTyped DEF FilesInv
<1>3. HlcOrdered
  <2> SUFFICES ASSUME NEW s \in Stores
               PROVE  /\ \A i \in 1 .. Len(s.facts) - 1 : HlcLess(s.facts[i].hlc, s.facts[i + 1].hlc)
                      /\ s.facts # <<>> => HlcLeq(s.facts[Len(s.facts)].hlc, s.clock)
    BY DEF HlcOrdered
  <2> DEFINE facts == s.facts
  <2>1. facts \in Seq(Rows) /\ InOrder(s)
    BY <1>2, StoreFieldsAre
  <2>2. /\ Len(facts) \in Nat /\ DOMAIN facts = 1..Len(facts)
        /\ facts # <<>> => Len(facts) \in DOMAIN facts
    BY <2>1
  <2>3. \A i \in 1 .. Len(facts) - 1 : i \in DOMAIN facts /\ i + 1 \in DOMAIN facts /\ i < i + 1
    BY <2>2
  <2> QED BY <2>1, <2>2, <2>3 DEF InOrder
<1>4. SnapshotsPass
  <2> SUFFICES ASSUME NEW f \in Files, IsStore(staged[f])
               PROVE  InspectSnapshot(staged[f], "maintenance")
    BY DEF SnapshotsPass
  <2>1. staged[f] \in FileStores /\ InOrder(staged[f]) /\ ~staged[f].wal /\ Accepted(staged[f], "maintenance")
    BY <1>0, StoresAre DEF FilesInv
  <2>2. HlcLeq(MaxEventHlc(staged[f]), staged[f].clock)
    BY <2>1, HighestEvent
  <2> QED BY <2>1, <2>2 DEF InspectSnapshot
<1>5. EpochNamesHistory
  <2> SUFFICES ASSUME NEW s \in Stores, NEW t \in Stores, s.epoch = t.epoch, HlcLeq(s.clock, t.clock)
               PROVE  Past(s, t)
    BY DEF EpochNamesHistory, Past
  <2>1. /\ s.clock \in Clocks /\ t.clock \in Clocks
        /\ (s = root /\ IsStore(root)) \/ \E f \in Files : s = staged[f] /\ IsStore(staged[f])
        /\ (t = root /\ IsStore(root)) \/ \E f \in Files : t = staged[f] /\ IsStore(staged[f])
    BY <1>0, StoresTyped, StoreFieldsAre
  <2>2. CASE s = t
    BY <2>2 DEF Past
  <2>3. ASSUME NEW f \in Files, s = staged[f], IsStore(staged[f]), t = root, IsStore(root)
        PROVE  Past(s, t)
    BY <1>0, <2>3 DEF PastInv
  <2>4. ASSUME NEW f \in Files, t = staged[f], IsStore(staged[f]), s = root, IsStore(root)
        PROVE  Past(s, t)
    <3>1. HlcLeq(t.clock, s.clock) /\ Past(t, s)
      BY <1>0, <2>4 DEF PastInv
    <3>2. t.clock = s.clock
      BY <2>1, <3>1, HlcOrder
    <3> QED BY <3>1, <3>2 DEF Past
  <2>5. ASSUME NEW f \in Files, s = staged[f], IsStore(staged[f]), NEW g \in Files, t = staged[g], IsStore(staged[g])
        PROVE  Past(s, t)
    BY <1>0, <2>5 DEF PastInv
  <2> QED BY <2>1, <2>2, <2>3, <2>4, <2>5
<1> QED BY <1>1, <1>3, <1>4, <1>5

\* A settled point stays settled in every step.
LEMMA AsOfStep ==
  ASSUME FactInv, FactStep, IsStore(root), IsStore(root'), root'.epoch = root.epoch,
         NEW point \in {root.clock} \cup {root.facts[i].hlc : i \in DOMAIN root.facts}
  PROVE  QueryActiveEventsAsOf(root', point) = QueryActiveEventsAsOf(root, point)
<1>0. StoreTypes /\ ConnInv /\ BatchInv /\ FilesInv /\ EpochInv /\ OldInv /\ StoreStep
  BY StepsAre DEF FactInv
<1>1. /\ root \in LiveStores /\ InOrder(root) /\ root.clock \in Clocks /\ root.facts \in Seq(Rows)
      /\ \A i \in DOMAIN root.facts : root.facts[i].hlc \in Clocks
  BY <1>0, StoresAre, StoreFieldsAre, RowTypes DEF FilesInv
<1>2. point \in Clocks /\ HlcLeq(point, root.clock)
  BY <1>1, HlcOrder DEF InOrder
<1>3. CASE root' = root
  BY <1>3
<1>4. CASE Extends
  <2>1. PICK added \in Seq(Rows) : \E c \in Clocks :
              Stacked(added, root.clock, c) /\ root' = [root EXCEPT !.facts = @ \o added, !.clock = c]
    BY <1>4 DEF Extends
  <2>2. PICK c \in Clocks : Stacked(added, root.clock, c) /\ root' = [root EXCEPT !.facts = @ \o added, !.clock = c]
    BY <2>1
  <2>3. root'.facts = root.facts \o added
    BY <1>1, <2>2, ExtendedTyped
  <2>4. \A i \in DOMAIN added : HlcLess(root.clock, added[i].hlc) /\ added[i].hlc \in Clocks
    BY <2>2, RowTypes DEF Stacked
  <2>5. \A i \in DOMAIN added : HlcLess(point, added[i].hlc)
    BY <1>1, <1>2, <2>4, HlcOrder
  <2> QED BY <1>1, <1>2, <2>3, <2>5, QueryAppended
<1>5. ASSUME NEW f \in Files, Replaces(f)
      PROVE  QueryActiveEventsAsOf(root', point) = QueryActiveEventsAsOf(root, point)
  <2>1. /\ staged[f] \in FileStores /\ IsStore(staged[f]) /\ root' = Live(staged[f])
        /\ \/ staged[f].role \in {"empty", "prepared"}
           \/ staged[f].role = "migrated" /\ IsOld(root) /\ root.schema \in DOMAIN Steps
    BY <1>0, <1>5, StoresAre DEF Replaces
  <2>2. root'.epoch = staged[f].epoch /\ root'.clock = staged[f].clock /\ root'.facts = staged[f].facts
    BY <2>1, CopiesTyped DEF FileRoles
  <2>3. staged[f].role \notin {"empty", "prepared"}
    BY <1>0, <2>1, <2>2 DEF EpochInv
  <2>4. staged[f].role = "migrated" /\ IsOld(root) /\ root.schema \in DOMAIN Steps
    BY <2>1, <2>3
  <2>5. staged[f].facts = ApplyChain(root) /\ staged[f].clock = root.clock /\ ~ChainChanges(root)
    BY <1>0, <2>1, <2>2, <2>4 DEF OldInv
  <2>6. Alike(root, root')
    BY <1>1, <2>2, <2>4, <2>5, KeptEpochAlike
  <2> QED BY <1>2, <2>6 DEF Alike
<1>6. ASSUME NEW f \in Files, CopiesRoot(f) \/ Empties(f) \/ Migrates(f) \/ Prepares(f) PROVE root' = root
  BY <1>6 DEF CopiesRoot, Empties, Migrates, Prepares
<1>7. Quiet => root' = root
  BY DEF Quiet
<1>8. ~Creates
  BY DEF Creates
<1> QED BY <1>0, <1>3, <1>4, <1>5, <1>6, <1>7, <1>8 DEF StoreStep

\* The store that replaces an old one has all its commits.
LEMMA MigrationStep ==
  ASSUME FactInv, FactStep, NEW f \in Files, IsStore(root), IsStore(staged[f]), staged'[f] = Absent,
         staged[f].role = "migrated"
  PROVE  Commits(root) \subseteq Commits(root')
<1>0. StoreTypes /\ OldInv /\ StoreStep /\ staged \in [Files -> FileStores \cup {Absent}]
      /\ ids \in Nat /\ wall \in Nat
  BY StepsAre, BatchFields DEF FactInv, StoreTypes
<1>1. staged[f] # Absent
  BY <1>0, StoresAre
<1>2. ~Quiet /\ ~Creates /\ ~Extends
  BY <1>1 DEF Quiet, Creates, Extends
<1>3. ASSUME NEW g \in Files, NEW t \in FileStores, staged' = [staged EXCEPT ![g] = t] PROVE FALSE
  <2>1. t # Absent
    BY DEF FileStores, Absent
  <2> QED BY <1>0, <1>1, <1>3, <2>1
<1>4. ASSUME NEW g \in Files, CopiesRoot(g) PROVE FALSE
  <2>1. Standalone(root, "copy") \in FileStores
    BY <1>0, <1>4, StoresAre, CopiesTyped DEF CopiesRoot, FileRoles
  <2> QED BY <1>3, <1>4, <2>1 DEF CopiesRoot
<1>5. ASSUME NEW g \in Files, Empties(g) PROVE FALSE
  <2>1. InitializeMeta(ids, wall) \in LiveStores
    BY <1>0, FreshStore
  <2>2. Standalone(InitializeMeta(ids, wall), "empty") \in FileStores
    BY <2>1, CopiesTyped DEF FileRoles
  <2> QED BY <1>3, <1>5, <2>2 DEF Empties
<1>6. ASSUME NEW g \in Files, Migrates(g) \/ Prepares(g) PROVE FALSE
  <2>1. PICK t \in FileStores : staged' = [staged EXCEPT ![g] = t]
    BY <1>0, <1>6, MigratedTyped, PreparedTyped
  <2> QED BY <1>3, <2>1
<1>7. PICK g \in Files : Replaces(g)
  BY <1>0, <1>2, <1>4, <1>5, <1>6 DEF StoreStep
<1>8. g = f
  <2>1. staged' = [staged EXCEPT ![g] = Absent]
    BY <1>7 DEF Replaces
  <2> QED BY <1>0, <1>1, <2>1
<1>9. IsOld(root) /\ root' = Live(staged[f]) /\ staged[f] \in FileStores /\ root \in LiveStores
  BY <1>0, <1>7, <1>8, StoresAre DEF Replaces
<1>10. root'.facts = staged[f].facts
  BY <1>9, CopiesTyped DEF FileRoles
<1>11. root'.facts = ApplyChain(root) /\ root.facts \in Seq(Rows)
  BY <1>0, <1>9, <1>10, StoreFieldsAre DEF OldInv
<1>12. /\ DOMAIN root'.facts = DOMAIN root.facts
       /\ \A i \in DOMAIN root.facts : root'.facts[i].kind = root.facts[i].kind
                                       /\ root'.facts[i].commit = root.facts[i].commit
  BY <1>11, ChainRows
<1> QED BY <1>12 DEF Commits, Events, RowsOf

\* Without the exclusive lease a store keeps its identity.
LEMMA IdentityStep ==
  ASSUME FactInv, FactStep, IsStore(root), storeLease = "free"
  PROVE  IsStore(root') /\ root'.hist = root.hist /\ root'.epoch = root.epoch
<1>0. StoreTypes /\ StoreStep
  BY StepsAre DEF FactInv
<1>1. CASE root' = root
  BY <1>1
<1>2. CASE Extends
  <2>1. PICK added \in Seq(Rows) : \E c \in Clocks : root' = [root EXCEPT !.facts = @ \o added, !.clock = c]
    BY <1>2 DEF Extends
  <2>2. PICK c \in Clocks : root' = [root EXCEPT !.facts = @ \o added, !.clock = c]
    BY <2>1
  <2>3. root \in LiveStores
    BY <1>0, StoresAre
  <2>4. root' \in LiveStores /\ root'.hist = root.hist /\ root'.epoch = root.epoch
    BY <2>2, <2>3, ExtendedTyped
  <2> QED BY <2>4, StoreFieldsAre DEF IsStore
<1>3. ASSUME NEW f \in Files, CopiesRoot(f) \/ Empties(f) \/ Migrates(f) \/ Prepares(f) PROVE root' = root
  BY <1>3 DEF CopiesRoot, Empties, Migrates, Prepares
<1>4. \A f \in Files : ~Replaces(f)
  BY DEF Replaces
<1>5. ~Creates /\ (Quiet => root' = root)
  BY DEF Creates, Quiet
<1> QED BY <1>0, <1>1, <1>2, <1>3, <1>4, <1>5 DEF StoreStep

\* Every reachable state of the processes satisfies FactInv: the leases and the
\* accepted versions (Open, AcquireExclusiveFor), the batch above the stored
\* clock (PersistBatch), the fresh epochs (InitializeMeta, MigrateFile,
\* PrepareRestoreFile) and the pasts that share an epoch.
THEOREM FactInvHolds == FactStoreSpec => []FactInv
<1>1. FactStoreInit => FactInv
  BY FactInvInit
<1>2. FactInv /\ [FactStoreNext]_factStoreVars => FactInv'
  BY FactInvStep DEF FactStep
<1> QED BY <1>1, <1>2, PTL DEF FactStoreSpec

\* The history of a store is only extended, whoever records, retracts, migrates
\* or replaces it and whatever the wall clock does: rows in the order of their
\* clocks, snapshots that pass their inspection, one history per epoch, as-of
\* reads that never change, no commit lost by a migration, one identity.
THEOREM FactsAreKept == FactStoreSpec => FactsKept
<1>1. FactInv => TypeOK /\ HlcOrdered /\ SnapshotsPass /\ EpochNamesHistory
  BY FactInvSays
<1>2. FactInv /\ [FactStoreNext]_factStoreVars =>
        [IsStore(root) /\ IsStore(root') /\ root'.epoch = root.epoch =>
           \A point \in {root.clock} \cup {root.facts[i].hlc : i \in DOMAIN root.facts} :
              QueryActiveEventsAsOf(root', point) = QueryActiveEventsAsOf(root, point)]_factStoreVars
  BY AsOfStep DEF FactStep
<1>3. FactInv /\ [FactStoreNext]_factStoreVars =>
        [\A f \in Files : IsStore(root) /\ root' # root /\ IsStore(staged[f]) /\ staged'[f] = Absent
            /\ staged[f].role = "migrated" => Commits(root) \subseteq Commits(root')]_factStoreVars
  BY MigrationStep DEF FactStep
<1>4. FactInv /\ [FactStoreNext]_factStoreVars =>
        [IsStore(root) /\ storeLease = "free" =>
           IsStore(root') /\ root'.hist = root.hist /\ root'.epoch = root.epoch]_factStoreVars
  BY IdentityStep DEF FactStep
<1>5. FactStoreSpec => []FactInv
  BY FactInvHolds
<1>6. FactStoreSpec => [](TypeOK /\ HlcOrdered /\ SnapshotsPass /\ EpochNamesHistory)
  BY <1>1, <1>5, PTL
<1>7. FactStoreSpec => AsOfStable
  BY <1>2, <1>5, PTL DEF FactStoreSpec, AsOfStable
<1>8. FactStoreSpec => MigrationKeepsFacts
  BY <1>3, <1>5, PTL DEF FactStoreSpec, MigrationKeepsFacts
<1>9. FactStoreSpec => IdentityOnce
  BY <1>4, <1>5, PTL DEF FactStoreSpec, IdentityOnce
<1> QED BY <1>6, <1>7, <1>8, <1>9, PTL DEF FactsKept
=============================================================================
