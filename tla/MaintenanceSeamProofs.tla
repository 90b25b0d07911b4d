----------------------- MODULE MaintenanceSeamProofs -----------------------
(***************************************************************************)
(* Proofs about the maintenance seam (MaintenanceSeam): while a client     *)
(* replaces the fact database nothing reads it, the files on disk are one  *)
(* complete store at every instant, and the daemon never serves an epoch   *)
(* that is not the one on disk.                                            *)
(*                                                                         *)
(* The inductive invariant follows what protects a client that replaces    *)
(* the database.  The exclusive flock keeps handles out (LockInv).  At     *)
(* most one control thread is at work, and the coordinator's state says at *)
(* what (ThreadInv).  Once prepare has drained, nothing can begin          *)
(* (QuietInv, which counts the threads that open a handle).  So a client   *)
(* that was told its lease is live keeps it until it reopens, unless the   *)
(* coordinator closes (HeldInv); and when the daemon died under it, the    *)
(* new daemon can learn no epoch before the flock is released (OrphanInv). *)
(***************************************************************************)
EXTENDS MaintenanceSeam, FiniteSetTheorems, TLAPS

ThreadControl == {"idle"} \cup PrepareControl \cup RecoverControl
Recoveries == [pc : {"none", "building", "proving"}, target : Nat, seen : Nat]

\* The types of the store, the coordinator, its threads and the clients.
SeamTypes ==
    /\ epoch \in Nat /\ wal \in Nat /\ minted \in Nat /\ whole \in BOOLEAN
    /\ exclusive \in Clients \cup {NoClient} /\ shared \subseteq Handles
    /\ up \in BOOLEAN /\ state \in CoordinatorStates /\ closed \in BOOLEAN
    /\ owner \in Clients \cup {NoClient}
    /\ requests \in Nat /\ opening \in Nat /\ handles \subseteq Handles /\ builders \subseteq {Machine}
    /\ preparedEpoch \in Nat /\ activeEpoch \in Nat /\ targetEpoch \in Nat
    /\ thread \in [Clients -> ThreadControl] /\ owns \in [Clients -> BOOLEAN] /\ found \in Nat
    /\ recovery \in Recoveries /\ opener \in [Readers -> ReaderControl]
    /\ client \in [Clients -> ClientControl] /\ linked \in [Clients -> BOOLEAN] /\ wire \in [Clients -> Wires]

InFlight == {r \in Readers : opener[r] \in {"opening", "opened", "rejected"}}
Reopening == \E c \in Clients : thread[c] = "recover_open"
AllIdle == \A c \in Clients : thread[c] = "idle"

\* The flock: exclusive for a client under lease, shared for every handle.
LockInv ==
    /\ \A c \in Clients : client[c] \in UnderLease => exclusive = c
    /\ exclusive # NoClient => shared = {}
    /\ handles \subseteq shared
    /\ \A r \in Readers : opener[r] \in {"opened", "rejected"} => r \in shared
    /\ \A r \in Readers : r \in handles => opener[r] = "holding"

\* One control thread at a time; the state says what it is at.
ThreadInv ==
    /\ \A c, d \in Clients : thread[c] # "idle" /\ thread[d] # "idle" => c = d
    /\ state = "serving" => AllIdle /\ recovery.pc = "none"
    /\ \A c \in Clients :
          /\ thread[c] \in PrepareControl => state \in {"preparing", "blocked"}
          /\ thread[c] \in RecoverControl \ {"rebuild"} => state \in {"prepared", "blocked"}
          /\ thread[c] = "rebuild" => state \in {"catching_up", "blocked"}
          /\ thread[c] # "idle" /\ state = "prepared" => owner = c
    /\ recovery.pc # "none" => AllIdle /\ state \in {"catching_up", "blocked"}
    /\ ~ up => state = "blocked" /\ AllIdle /\ recovery.pc = "none" /\ InFlight = {}
    /\ closed => up /\ state = "blocked"

\* The count of openings, and what is over once prepare has drained.
QuietInv ==
    /\ opening = Cardinality(InFlight) + (IF Reopening THEN 1 ELSE 0)
    /\ state = "prepared" \/ (\E c \in Clients : thread[c] \in {"identity", "prepared"}) =>
          requests = 0 /\ builders = {} /\ InFlight = {}

\* A control thread works for a client that waits for its answer, or is gone.
ConnectionInv ==
    \A c \in Clients :
        /\ client[c] \notin {"start", "done", "dead"} => linked[c]
        /\ wire[c] = "prepare" => client[c] \in {"preparing", "dead"}
        /\ wire[c] = "reopen" => client[c] \in {"reopening", "dead"}
        /\ thread[c] # "idle" =>
              client[c] \in {"done", "dead"} \/ (wire[c] = "busy" /\ client[c] \in {"preparing", "reopening"})
        /\ owns[c] => client[c] # "start"

\* What a client has that was told its lease is live.
Held(c) ==
    /\ up /\ AllIdle /\ recovery.pc = "none"
    /\ (state = "prepared" /\ owner = c) \/ closed
    /\ requests = 0 /\ builders = {} /\ InFlight = {}
HeldInv ==
    \A c \in Clients :
        /\ client[c] \in Replacing => wire[c] \in {"ok", "hangup"}
        /\ client[c] \in Replacing \cup {"assert_again"} /\ wire[c] = "ok" => Held(c)

\* What a daemon can know that was started while a client is replacing.
OrphanInv ==
    \A c \in Clients : client[c] \in Replacing /\ wire[c] = "hangup" =>
        /\ found = NoEpoch /\ preparedEpoch = NoEpoch /\ activeEpoch = NoEpoch /\ targetEpoch = NoEpoch
        /\ recovery.target = NoEpoch /\ recovery.seen = NoEpoch
        /\ Exists => /\ state = "blocked" /\ AllIdle /\ recovery.pc = "none"
                     /\ requests = 0 /\ builders = {} /\ InFlight = {}

\* What was read of the epoch on disk is still true of it.
EpochInv ==
    /\ EpochProven
    /\ \A c \in Clients : thread[c] \in {"recover_publish", "rebuild"} => found \in {NoEpoch, epoch}
    /\ recovery.pc = "proving" => recovery.seen \in {NoEpoch, epoch}

\* The files, while a client works its way through them.
StoreInv ==
    /\ Exists => wal \in {NoEpoch, epoch}
    /\ \A c \in Clients : client[c] = "rename" => wal = NoEpoch
    /\ Unreadable = {} => /\ Exists => whole \/ wal = epoch
                          /\ \A c \in Clients : client[c] \in {"unlink", "rename"} => whole

SeamInv == SeamTypes /\ LockInv /\ ThreadInv /\ QuietInv /\ ConnectionInv /\ HeldInv
           /\ OrphanInv /\ EpochInv /\ StoreInv

-----------------------------------------------------------------------------
\* The steps of the daemon, and those of the clients.
DaemonStep ==
    \/ BeginRequest \/ CompleteRequest \/ RegisterBuilder \/ UnregisterBuilder
    \/ \E r \in Readers : ReaderStep(r)
    \/ \E c \in Clients : PrepareStep(c) \/ RecoverStep(c)
    \/ CompleteRead \/ CompletePublish
    \/ DaemonStart \/ CloseBegin \/ CloseEnd \/ DaemonCrash
ClientSide == \E c \in Clients : ClientStep(c) \/ ClientDies(c) \/ FlockReleased(c)

\* The daemon never touches the files of the fact store, the exclusive flock or
\* the client's end of a connection.
LEMMA DaemonFrame == DaemonStep => UNCHANGED <<epoch, wal, whole, minted, exclusive, client, linked>>
<1> USE DEF store, gate, threads, clients, PrepareUnchanged, RecoverUnchanged, CompleteUnchanged
<1> DEFINE Same == UNCHANGED <<epoch, wal, whole, minted, exclusive, client, linked>>
<1>1. ASSUME NEW r \in Readers, ReaderStep(r) PROVE Same
  BY <1>1 DEF ReaderStep, OpenBegin, OpenFactory, OpenRegister, OpenReject, ReaderCloses
<1>2. ASSUME NEW c \in Clients, PrepareStep(c) PROVE Same
  BY <1>2 DEF PrepareStep, Prepare, DrainRequests, StopBuilder, CloseFactHandle, DrainAgain, Drain,
     ReadIdentity,
              PublishPrepared, AssertPrepared
<1>3. ASSUME NEW c \in Clients, RecoverStep(c) PROVE Same
  BY <1>3 DEF RecoverStep, Reopen, LeaseLost, Recover, RecoverAbsent, RecoverOpen, RecoverPublish, Rebuild
<1>4. BeginRequest \/ CompleteRequest \/ RegisterBuilder \/ UnregisterBuilder \/ CompleteRead \/ CompletePublish => Same
  BY DEF BeginRequest, CompleteRequest, RegisterBuilder, UnregisterBuilder, CompleteRead, CompletePublish
<1>5. DaemonStart \/ CloseBegin \/ CloseEnd \/ DaemonCrash => Same
  BY DEF DaemonStart, CloseBegin, CloseEnd, DaemonCrash
<1> QED BY <1>1, <1>2, <1>3, <1>4, <1>5 DEF DaemonStep

\* A maintenance client touches nothing of the daemon's memory, and no shared
\* flock.
LEMMA ClientFrame == ClientSide => UNCHANGED <<shared, gate, threads>>
<1>1. ASSUME NEW c \in Clients, ClientStep(c) PROVE UNCHANGED <<shared, gate, threads>>
  BY <1>1 DEF ClientStep, CallPrepare, PrepareReturns, AssertReturns, AcquireExclusive, Checkpoint,
     UnlinkSidecars,
              Rename, ReleaseExclusive, CallReopen, ReopenReturns, ClientUnchanged
<1>2. ASSUME NEW c \in Clients, ClientDies(c) \/ FlockReleased(c) PROVE UNCHANGED <<shared, gate, threads>>
  BY <1>2 DEF ClientDies, FlockReleased, store
<1> QED BY <1>1, <1>2 DEF ClientSide

\* The recorder writes facts and nothing else.
LEMMA RecorderFrame == RecorderWrites => UNCHANGED <<exclusive, shared, gate, threads, clients>>
  BY DEF RecorderWrites

\* The control points at which a control thread, a client, a connection and a
\* reader can be.
LEMMA PointsKnown ==
    /\ {"idle", "drain", "builders", "handles", "drain_again", "identity", "prepared", "recover",
         "recover_absent", "recover_open", "recover_publish", "rebuild"} \subseteq ThreadControl
    /\ {"start", "preparing", "assert", "acquire", "assert_again", "checkpoint", "unlink", "rename", "assert_after",
         "release", "reopen", "reopening", "done", "dead"} \subseteq ClientControl
    /\ {"prepare", "lease", "reopen", "quiet", "busy", "ok", "fail", "hangup"} \subseteq Wires
    /\ {"idle", "opening", "opened", "rejected", "holding"} \subseteq ReaderControl
  BY DEF ThreadControl, PrepareControl, RecoverControl, ClientControl, UnderLease, Replacing, Wires,
     Requests, ReaderControl

\* The states of the coordinator.
LEMMA StatesKnown == {"serving", "preparing", "prepared", "catching_up", "blocked"} \subseteq CoordinatorStates
  BY DEF CoordinatorStates

\* What starts and what ends a rebuild is a recovery record.
LEMMA RecoveryTypes ==
    /\ NoRecovery \in Recoveries
    /\ \A e \in Nat : [pc |-> "building", target |-> e, seen |-> NoEpoch] \in Recoveries
    /\ NoRecovery.target = NoEpoch /\ NoRecovery.seen = NoEpoch
  BY DEF Recoveries, NoRecovery, NoEpoch

\* What complete_recovery makes of the record when it has read the disk epoch.
LEMMA ProvingTypes == ASSUME NEW x \in Recoveries, NEW e \in Nat PROVE
    /\ [x EXCEPT !.pc = "proving", !.seen = e] \in Recoveries
    /\ [x EXCEPT !.pc = "proving", !.seen = e].target = x.target
    /\ [x EXCEPT !.pc = "proving", !.seen = e].seen = e
  BY DEF Recoveries

\* _opening_handles counts the threads in open_fact_handle and the reopening
\* control thread: it is zero exactly when there are none, and never falls
\* below.
LEMMA OpeningCounted == ASSUME SeamTypes, QuietInv PROVE
    /\ IsFiniteSet(InFlight) /\ Cardinality(InFlight) \in Nat
    /\ opening = 0 <=> InFlight = {} /\ ~ Reopening
    /\ InFlight # {} \/ Reopening => opening - 1 \in Nat
<1>1. IsFiniteSet(InFlight)
  BY SeamAssumption, FS_Subset DEF SeamAssumption, InFlight
<1>2. Cardinality(InFlight) \in Nat /\ (Cardinality(InFlight) = 0 <=> InFlight = {})
  BY <1>1, FS_CardinalityType, FS_EmptySet
<1>3. opening = Cardinality(InFlight) + (IF Reopening THEN 1 ELSE 0)
  BY DEF QuietInv
<1> QED BY <1>1, <1>2, <1>3

\* complete_recovery sees the epoch on disk or none, and keeps its target.
LEMMA CompleteReadSees == ASSUME SeamTypes, CompleteRead PROVE
    /\ recovery' \in Recoveries
    /\ recovery'.target \in {NoEpoch, recovery.target} /\ recovery'.seen \in {NoEpoch, epoch}
<1>1. PICK e \in {NoEpoch, epoch} : recovery' = NoRecovery \/ recovery' = [recovery EXCEPT !.pc = "proving", !.seen = e]
  BY DEF CompleteRead
<1>2. recovery \in Recoveries /\ e \in Nat
  BY <1>1 DEF SeamTypes, NoEpoch
<1>3. CASE recovery' = NoRecovery
  BY <1>3, RecoveryTypes
<1>4. CASE recovery' = [recovery EXCEPT !.pc = "proving", !.seen = e]
  <2>1. /\ [recovery EXCEPT !.pc = "proving", !.seen = e] \in Recoveries
        /\ [recovery EXCEPT !.pc = "proving", !.seen = e].target = recovery.target
        /\ [recovery EXCEPT !.pc = "proving", !.seen = e].seen = e
    BY <1>2, ProvingTypes
  <2> QED BY <1>1, <1>4, <2>1
<1> QED BY <1>1, <1>3, <1>4

\* Every step keeps the types.
LEMMA StepTypes == ASSUME SeamTypes, QuietInv, SeamNext
    PROVE SeamTypes'
<1>1. ASSUME BeginRequest PROVE SeamTypes'
  <2>1. requests' \in Nat
    BY <1>1 DEF SeamTypes, BeginRequest
  <2> QED BY <1>1, <2>1 DEF SeamTypes, BeginRequest, store, threads, clients
<1>2. ASSUME CompleteRequest PROVE SeamTypes'
  <2>1. requests' \in Nat
    BY <1>2 DEF SeamTypes, CompleteRequest
  <2> QED BY <1>2, <2>1 DEF SeamTypes, CompleteRequest, store, threads, clients
<1>3. ASSUME RegisterBuilder PROVE SeamTypes'
  <2>1. builders' \subseteq {Machine}
    BY <1>3 DEF SeamTypes, RegisterBuilder
  <2> QED BY <1>3, <2>1 DEF SeamTypes, RegisterBuilder, store, threads, clients
<1>4. ASSUME UnregisterBuilder PROVE SeamTypes'
  <2>1. builders' \subseteq {Machine}
    BY <1>4 DEF SeamTypes, UnregisterBuilder
  <2> QED BY <1>4, <2>1 DEF SeamTypes, UnregisterBuilder, store, threads, clients
<1>5. ASSUME NEW r \in Readers, OpenBegin(r) PROVE SeamTypes'
  <2>1. opening' \in Nat
    BY <1>5 DEF SeamTypes, OpenBegin
  <2>2. opener' \in [Readers -> ReaderControl]
    BY <1>5, PointsKnown DEF SeamTypes, OpenBegin
  <2> QED BY <1>5, <2>1, <2>2 DEF SeamTypes, OpenBegin, store, clients
<1>6. ASSUME NEW r \in Readers, OpenFactory(r) PROVE SeamTypes'
  <2>1. shared' \subseteq Handles
    BY <1>6 DEF SeamTypes, OpenFactory, Handles
  <2>2. opener' \in [Readers -> ReaderControl]
    BY <1>6, PointsKnown DEF SeamTypes, OpenFactory
  <2>3. opening' \in Nat
    <3>1. r \in InFlight
      BY <1>6 DEF SeamTypes, OpenFactory, InFlight
    <3> QED BY <1>6, <3>1, OpeningCounted DEF SeamTypes, OpenFactory
  <2> QED BY <1>6, <2>1, <2>2, <2>3 DEF SeamTypes, OpenFactory, clients
<1>7. ASSUME NEW r \in Readers, OpenRegister(r) PROVE SeamTypes'
  <2>1. handles' \subseteq Handles
    BY <1>7 DEF SeamTypes, OpenRegister, Handles
  <2>2. opening' \in Nat
    <3>1. r \in InFlight
      BY <1>7 DEF SeamTypes, OpenRegister, InFlight
    <3> QED BY <1>7, <3>1, OpeningCounted DEF SeamTypes, OpenRegister
  <2>3. opener' \in [Readers -> ReaderControl]
    BY <1>7, PointsKnown DEF SeamTypes, OpenRegister
  <2> QED BY <1>7, <2>1, <2>2, <2>3 DEF SeamTypes, OpenRegister, store, clients
<1>8. ASSUME NEW r \in Readers, OpenReject(r) PROVE SeamTypes'
  <2>1. handles' \subseteq Handles /\ shared' \subseteq Handles
    BY <1>8 DEF SeamTypes, OpenReject, CloseHandles, Handles
  <2>2. opening' \in Nat
    <3>1. r \in InFlight
      BY <1>8 DEF SeamTypes, OpenReject, InFlight
    <3> QED BY <1>8, <3>1, OpeningCounted DEF SeamTypes, OpenReject
  <2>3. opener' \in [Readers -> ReaderControl]
    BY <1>8, PointsKnown DEF SeamTypes, OpenReject
  <2>4. state' \in CoordinatorStates
    BY <1>8, StatesKnown DEF SeamTypes, OpenReject
  <2> QED BY <1>8, <2>1, <2>2, <2>3, <2>4 DEF SeamTypes, OpenReject, clients
<1>9. ASSUME NEW r \in Readers, ReaderCloses(r) PROVE SeamTypes'
  <2>1. handles' \subseteq Handles /\ shared' \subseteq Handles
    BY <1>9 DEF SeamTypes, ReaderCloses, CloseHandles, Handles
  <2>2. opener' \in [Readers -> ReaderControl]
    BY <1>9, PointsKnown DEF SeamTypes, ReaderCloses
  <2> QED BY <1>9, <2>1, <2>2 DEF SeamTypes, ReaderCloses, clients
<1>10. ASSUME NEW c \in Clients, Prepare(c) PROVE SeamTypes'
  <2>1. thread' \in [Clients -> ThreadControl]
    BY <1>10, PointsKnown DEF SeamTypes, Prepare, Answer, ThreadGoto
  <2>2. wire' \in [Clients -> Wires]
    BY <1>10, PointsKnown DEF SeamTypes, Prepare, Answer
  <2>3. state' \in CoordinatorStates
    BY <1>10, StatesKnown DEF SeamTypes, Prepare
  <2>4. owner' \in Clients \cup {NoClient}
    BY <1>10 DEF SeamTypes, Prepare
  <2> QED BY <1>10, <2>1, <2>2, <2>3, <2>4 DEF SeamTypes, Prepare, PrepareUnchanged
<1>11. ASSUME NEW c \in Clients, DrainRequests(c) PROVE SeamTypes'
  <2>1. thread' \in [Clients -> ThreadControl]
    BY <1>11, PointsKnown DEF SeamTypes, DrainRequests, Drain, ThreadGoto, Answer, PrepareFailure
  <2>2. state' \in CoordinatorStates
    BY <1>11, StatesKnown DEF SeamTypes, DrainRequests, Drain, PrepareFailure
  <2>3. shared' \subseteq Handles /\ handles' \subseteq Handles
    BY <1>11 DEF SeamTypes, DrainRequests, Drain, PrepareFailure, CloseHandles, Handles
  <2>4. builders' \subseteq {Machine}
    BY <1>11 DEF SeamTypes, DrainRequests, Drain, PrepareFailure
  <2>5. wire' \in [Clients -> Wires]
    BY <1>11, PointsKnown DEF SeamTypes, DrainRequests, Drain, Answer, PrepareFailure
  <2> QED BY <1>11, <2>1, <2>2, <2>3, <2>4, <2>5 DEF SeamTypes, DrainRequests, Drain, PrepareUnchanged
<1>12. ASSUME NEW c \in Clients, StopBuilder(c) PROVE SeamTypes'
  <2>1. thread' \in [Clients -> ThreadControl]
    BY <1>12, PointsKnown DEF SeamTypes, StopBuilder, ThreadGoto, PrepareFailure, Answer
  <2>2. state' \in CoordinatorStates
    BY <1>12, StatesKnown DEF SeamTypes, StopBuilder, PrepareFailure
  <2>3. shared' \subseteq Handles /\ handles' \subseteq Handles
    BY <1>12 DEF SeamTypes, StopBuilder, PrepareFailure, CloseHandles, Handles
  <2>4. builders' \subseteq {Machine}
    BY <1>12 DEF SeamTypes, StopBuilder, PrepareFailure
  <2>5. wire' \in [Clients -> Wires]
    BY <1>12, PointsKnown DEF SeamTypes, StopBuilder, PrepareFailure, Answer
  <2> QED BY <1>12, <2>1, <2>2, <2>3, <2>4, <2>5 DEF SeamTypes, StopBuilder, PrepareUnchanged
<1>13. ASSUME NEW c \in Clients, CloseFactHandle(c) PROVE SeamTypes'
  <2>1. thread' \in [Clients -> ThreadControl]
    BY <1>13, PointsKnown DEF SeamTypes, CloseFactHandle, ThreadGoto, PrepareFailure, Answer
  <2>2. state' \in CoordinatorStates
    BY <1>13, StatesKnown DEF SeamTypes, CloseFactHandle, PrepareFailure
  <2>3. shared' \subseteq Handles /\ handles' \subseteq Handles
    BY <1>13 DEF SeamTypes, CloseFactHandle, CloseHandles, PrepareFailure, Handles
  <2>4. builders' \subseteq {Machine}
    BY <1>13 DEF SeamTypes, CloseFactHandle, PrepareFailure
  <2>5. wire' \in [Clients -> Wires]
    BY <1>13, PointsKnown DEF SeamTypes, CloseFactHandle, PrepareFailure, Answer
  <2> QED BY <1>13, <2>1, <2>2, <2>3, <2>4, <2>5 DEF SeamTypes, CloseFactHandle, PrepareUnchanged
<1>14. ASSUME NEW c \in Clients, DrainAgain(c) PROVE SeamTypes'
  <2>1. thread' \in [Clients -> ThreadControl]
    BY <1>14, PointsKnown DEF SeamTypes, DrainAgain, Drain, ThreadGoto, Answer, PrepareFailure
  <2>2. state' \in CoordinatorStates
    BY <1>14, StatesKnown DEF SeamTypes, DrainAgain, Drain, PrepareFailure
  <2>3. shared' \subseteq Handles /\ handles' \subseteq Handles
    BY <1>14 DEF SeamTypes, DrainAgain, Drain, PrepareFailure, CloseHandles, Handles
  <2>4. builders' \subseteq {Machine}
    BY <1>14 DEF SeamTypes, DrainAgain, Drain, PrepareFailure
  <2>5. wire' \in [Clients -> Wires]
    BY <1>14, PointsKnown DEF SeamTypes, DrainAgain, Drain, Answer, PrepareFailure
  <2> QED BY <1>14, <2>1, <2>2, <2>3, <2>4, <2>5 DEF SeamTypes, DrainAgain, Drain, PrepareUnchanged
<1>15. ASSUME NEW c \in Clients, ReadIdentity(c) PROVE SeamTypes'
  <2>1. found' \in Nat
    BY <1>15 DEF SeamTypes, ReadIdentity, NoEpoch
  <2>2. thread' \in [Clients -> ThreadControl]
    BY <1>15, PointsKnown DEF SeamTypes, ReadIdentity, PrepareFailure, ThreadGoto, Answer
  <2>3. state' \in CoordinatorStates
    BY <1>15, StatesKnown DEF SeamTypes, ReadIdentity, PrepareFailure
  <2>4. shared' \subseteq Handles /\ handles' \subseteq Handles
    BY <1>15 DEF SeamTypes, ReadIdentity, PrepareFailure, CloseHandles, Handles
  <2>5. builders' \subseteq {Machine}
    BY <1>15 DEF SeamTypes, ReadIdentity, PrepareFailure
  <2>6. wire' \in [Clients -> Wires]
    BY <1>15, PointsKnown DEF SeamTypes, ReadIdentity, PrepareFailure, Answer
  <2> QED BY <1>15, <2>1, <2>2, <2>3, <2>4, <2>5, <2>6 DEF SeamTypes, ReadIdentity, PrepareUnchanged
<1>16. ASSUME NEW c \in Clients, PublishPrepared(c) PROVE SeamTypes'
  <2>1. thread' \in [Clients -> ThreadControl]
    BY <1>16, PointsKnown DEF SeamTypes, PublishPrepared, Answer, ThreadGoto
  <2>2. wire' \in [Clients -> Wires]
    BY <1>16, PointsKnown DEF SeamTypes, PublishPrepared, Answer
  <2>3. state' \in CoordinatorStates
    BY <1>16, StatesKnown DEF SeamTypes, PublishPrepared
  <2>4. preparedEpoch' \in Nat
    BY <1>16 DEF SeamTypes, PublishPrepared, NoEpoch
  <2>5. owns' \in [Clients -> BOOLEAN]
    BY <1>16 DEF SeamTypes, PublishPrepared
  <2> QED BY <1>16, <2>1, <2>2, <2>3, <2>4, <2>5 DEF SeamTypes, PublishPrepared, PrepareUnchanged
<1>17. ASSUME NEW c \in Clients, AssertPrepared(c) PROVE SeamTypes'
  <2>1. thread' \in [Clients -> ThreadControl]
    BY <1>17, PointsKnown DEF SeamTypes, AssertPrepared, Answer, ThreadGoto
  <2>2. wire' \in [Clients -> Wires]
    BY <1>17, PointsKnown DEF SeamTypes, AssertPrepared, Answer
  <2> QED BY <1>17, <2>1, <2>2 DEF SeamTypes, AssertPrepared, store, gate
<1>18. ASSUME NEW c \in Clients, Reopen(c) PROVE SeamTypes'
  <2>1. thread' \in [Clients -> ThreadControl]
    BY <1>18, PointsKnown DEF SeamTypes, Reopen, ThreadGoto, Answer
  <2>2. wire' \in [Clients -> Wires]
    BY <1>18, PointsKnown DEF SeamTypes, Reopen, Answer
  <2> QED BY <1>18, <2>1, <2>2 DEF SeamTypes, Reopen, store, gate
<1>19. ASSUME NEW c \in Clients, LeaseLost(c) PROVE SeamTypes'
  <2>1. owns' \in [Clients -> BOOLEAN]
    BY <1>19 DEF SeamTypes, LeaseLost
  <2>2. thread' \in [Clients -> ThreadControl]
    BY <1>19, PointsKnown DEF SeamTypes, LeaseLost, ThreadGoto
  <2> QED BY <1>19, <2>1, <2>2 DEF SeamTypes, LeaseLost, store, gate, clients
<1>20. ASSUME NEW c \in Clients, Recover(c) PROVE SeamTypes'
  <2>1. state' \in CoordinatorStates
    BY <1>20, StatesKnown DEF SeamTypes, Recover, Block
  <2>2. thread' \in [Clients -> ThreadControl]
    BY <1>20, PointsKnown DEF SeamTypes, Recover, Block, ThreadGoto, AnswerRecover, Answer
  <2>3. wire' \in [Clients -> Wires]
    BY <1>20, PointsKnown DEF SeamTypes, Recover, Block, AnswerRecover, Answer
  <2>4. owns' \in [Clients -> BOOLEAN]
    BY <1>20 DEF SeamTypes, Recover, Block, AnswerRecover
  <2>5. opening' \in Nat
    BY <1>20 DEF SeamTypes, Recover
  <2>6. owner' \in Clients \cup {NoClient}
    BY <1>20 DEF SeamTypes, Recover, Block
  <2>7. activeEpoch' \in Nat /\ targetEpoch' \in Nat
    BY <1>20 DEF SeamTypes, Recover, Block, NoEpoch
  <2> QED BY <1>20, <2>1, <2>2, <2>3, <2>4, <2>5, <2>6, <2>7 DEF SeamTypes, Recover, RecoverUnchanged
<1>21. ASSUME NEW c \in Clients, RecoverAbsent(c) PROVE SeamTypes'
  <2>1. found' \in Nat
    BY <1>21 DEF SeamTypes, RecoverAbsent, NoEpoch
  <2>2. thread' \in [Clients -> ThreadControl]
    BY <1>21, PointsKnown DEF SeamTypes, RecoverAbsent, ThreadGoto, Serve, Block, AnswerRecover, Answer
  <2>3. wire' \in [Clients -> Wires]
    BY <1>21, PointsKnown DEF SeamTypes, RecoverAbsent, Serve, Block, AnswerRecover, Answer
  <2>4. owns' \in [Clients -> BOOLEAN]
    BY <1>21 DEF SeamTypes, RecoverAbsent, Serve, Block, AnswerRecover
  <2>5. state' \in CoordinatorStates
    BY <1>21, StatesKnown DEF SeamTypes, RecoverAbsent, Serve, Block
  <2>6. owner' \in Clients \cup {NoClient}
    BY <1>21 DEF SeamTypes, RecoverAbsent, Serve, Block
  <2>7. activeEpoch' \in Nat /\ targetEpoch' \in Nat
    BY <1>21 DEF SeamTypes, RecoverAbsent, Serve, Block, NoEpoch
  <2> QED BY <1>21, <2>1, <2>2, <2>3, <2>4, <2>5, <2>6, <2>7 DEF SeamTypes, RecoverAbsent, RecoverUnchanged
<1>22. ASSUME NEW c \in Clients, RecoverOpen(c) PROVE SeamTypes'
  <2>1. opening' \in Nat
    <3>1. Reopening
      BY <1>22 DEF SeamTypes, RecoverOpen, Reopening
    <3> QED BY <1>22, <3>1, OpeningCounted DEF SeamTypes, RecoverOpen
  <2>2. shared' \subseteq Handles
    BY <1>22 DEF SeamTypes, RecoverOpen, Handles
  <2>3. found' \in Nat
    BY <1>22 DEF SeamTypes, RecoverOpen, NoEpoch
  <2>4. thread' \in [Clients -> ThreadControl]
    BY <1>22, PointsKnown DEF SeamTypes, RecoverOpen, ThreadGoto, Block, AnswerRecover, Answer
  <2>5. wire' \in [Clients -> Wires]
    BY <1>22, PointsKnown DEF SeamTypes, RecoverOpen, Block, AnswerRecover, Answer
  <2>6. owns' \in [Clients -> BOOLEAN]
    BY <1>22 DEF SeamTypes, RecoverOpen, Block, AnswerRecover
  <2>7. state' \in CoordinatorStates
    BY <1>22, StatesKnown DEF SeamTypes, RecoverOpen, Block
  <2>8. owner' \in Clients \cup {NoClient}
    BY <1>22 DEF SeamTypes, RecoverOpen, Block
  <2>9. activeEpoch' \in Nat /\ targetEpoch' \in Nat
    BY <1>22 DEF SeamTypes, RecoverOpen, Block, NoEpoch
  <2> QED BY <1>22, <2>1, <2>2, <2>3, <2>4, <2>5, <2>6, <2>7, <2>8, <2>9 DEF SeamTypes, RecoverOpen,
     RecoverUnchanged
<1>23. ASSUME NEW c \in Clients, RecoverPublish(c) PROVE SeamTypes'
  <2>1. handles' \subseteq Handles /\ shared' \subseteq Handles
    BY <1>23 DEF SeamTypes, RecoverPublish, CloseHandles, OwnHandle, Handles
  <2>2. thread' \in [Clients -> ThreadControl]
    BY <1>23, PointsKnown DEF SeamTypes, RecoverPublish, Block, Serve, ThreadGoto, AnswerRecover, Answer
  <2>3. wire' \in [Clients -> Wires]
    BY <1>23, PointsKnown DEF SeamTypes, RecoverPublish, Block, Serve, AnswerRecover, Answer
  <2>4. owns' \in [Clients -> BOOLEAN]
    BY <1>23 DEF SeamTypes, RecoverPublish, Block, Serve, AnswerRecover
  <2>5. state' \in CoordinatorStates
    BY <1>23, StatesKnown DEF SeamTypes, RecoverPublish, Block, Serve
  <2>6. owner' \in Clients \cup {NoClient}
    BY <1>23 DEF SeamTypes, RecoverPublish, Block, Serve
  <2>7. activeEpoch' \in Nat
    <3>1. activeEpoch' \in {activeEpoch, found, NoEpoch}
      BY <1>23 DEF RecoverPublish, Serve, Block
    <3> QED BY <3>1 DEF SeamTypes, NoEpoch
  <2>8. targetEpoch' \in Nat
    <3>1. targetEpoch' \in {targetEpoch, found, NoEpoch}
      BY <1>23 DEF RecoverPublish, Serve, Block
    <3> QED BY <3>1 DEF SeamTypes, NoEpoch
  <2> QED BY <1>23, <2>1, <2>2, <2>3, <2>4, <2>5, <2>6, <2>7, <2>8 DEF SeamTypes, RecoverPublish,
     RecoverUnchanged
<1>24. ASSUME NEW c \in Clients, Rebuild(c) PROVE SeamTypes'
  <2>1. recovery' \in Recoveries
    BY <1>24, RecoveryTypes DEF SeamTypes, Rebuild, NoEpoch
  <2>2. thread' \in [Clients -> ThreadControl]
    BY <1>24, PointsKnown DEF SeamTypes, Rebuild, AnswerRecover, Block, Answer, ThreadGoto
  <2>3. wire' \in [Clients -> Wires]
    BY <1>24, PointsKnown DEF SeamTypes, Rebuild, AnswerRecover, Block, Answer
  <2>4. owns' \in [Clients -> BOOLEAN]
    BY <1>24 DEF SeamTypes, Rebuild, AnswerRecover, Block
  <2>5. state' \in CoordinatorStates
    BY <1>24, StatesKnown DEF SeamTypes, Rebuild, Block
  <2>6. shared' \subseteq Handles /\ handles' \subseteq Handles
    BY <1>24 DEF SeamTypes, Rebuild, CloseHandles, Handles
  <2>7. owner' \in Clients \cup {NoClient}
    BY <1>24 DEF SeamTypes, Rebuild, Block
  <2>8. activeEpoch' \in Nat /\ targetEpoch' \in Nat
    BY <1>24 DEF SeamTypes, Rebuild, Block, NoEpoch
  <2> QED BY <1>24, <2>1, <2>2, <2>3, <2>4, <2>5, <2>6, <2>7, <2>8 DEF SeamTypes, Rebuild, RecoverUnchanged
<1>25. ASSUME NEW c \in Clients, CallPrepare(c) PROVE SeamTypes'
  <2>1. client' \in [Clients -> ClientControl]
    BY <1>25, PointsKnown DEF SeamTypes, CallPrepare, ClientGoto
  <2>2. wire' \in [Clients -> Wires]
    BY <1>25, PointsKnown DEF SeamTypes, CallPrepare, Send
  <2>3. linked' \in [Clients -> BOOLEAN]
    BY <1>25 DEF SeamTypes, CallPrepare
  <2> QED BY <1>25, <2>1, <2>2, <2>3 DEF SeamTypes, CallPrepare, ClientUnchanged, gate, threads
<1>26. ASSUME NEW c \in Clients, PrepareReturns(c) PROVE SeamTypes'
  <2>1. client' \in [Clients -> ClientControl]
    BY <1>26, PointsKnown DEF SeamTypes, PrepareReturns, ClientGoto, Leave
  <2>2. wire' \in [Clients -> Wires]
    BY <1>26, PointsKnown DEF SeamTypes, PrepareReturns, Send
  <2>3. linked' \in [Clients -> BOOLEAN]
    BY <1>26 DEF SeamTypes, PrepareReturns, Leave
  <2> QED BY <1>26, <2>1, <2>2, <2>3 DEF SeamTypes, PrepareReturns, ClientUnchanged, gate, threads
<1>27. ASSUME NEW c \in Clients, AssertReturns(c, "assert", "acquire", "reopen") PROVE SeamTypes'
  <2>1. client' \in [Clients -> ClientControl]
    BY <1>27, PointsKnown DEF SeamTypes, AssertReturns, ClientGoto
  <2> QED BY <1>27, <2>1 DEF SeamTypes, AssertReturns, ClientUnchanged, gate, threads
<1>28. ASSUME NEW c \in Clients, AcquireExclusive(c) PROVE SeamTypes'
  <2>1. exclusive' \in Clients \cup {NoClient}
    BY <1>28 DEF SeamTypes, AcquireExclusive
  <2>2. client' \in [Clients -> ClientControl]
    BY <1>28, PointsKnown DEF SeamTypes, AcquireExclusive, ClientGoto
  <2>3. wire' \in [Clients -> Wires]
    BY <1>28, PointsKnown DEF SeamTypes, AcquireExclusive, Send
  <2> QED BY <1>28, <2>1, <2>2, <2>3 DEF SeamTypes, AcquireExclusive, ClientUnchanged, gate, threads
<1>29. ASSUME NEW c \in Clients, AssertReturns(c, "assert_again", "checkpoint", "release") PROVE SeamTypes'
  <2>1. client' \in [Clients -> ClientControl]
    BY <1>29, PointsKnown DEF SeamTypes, AssertReturns, ClientGoto
  <2> QED BY <1>29, <2>1 DEF SeamTypes, AssertReturns, ClientUnchanged, gate, threads
<1>30. ASSUME NEW c \in Clients, Checkpoint(c) PROVE SeamTypes'
  <2>1. whole' \in BOOLEAN
    BY <1>30 DEF SeamTypes, Checkpoint
  <2>2. client' \in [Clients -> ClientControl]
    BY <1>30, PointsKnown DEF SeamTypes, Checkpoint, ClientGoto
  <2> QED BY <1>30, <2>1, <2>2 DEF SeamTypes, Checkpoint, ClientUnchanged, gate, threads
<1>31. ASSUME NEW c \in Clients, UnlinkSidecars(c) PROVE SeamTypes'
  <2>1. wal' \in Nat
    BY <1>31 DEF SeamTypes, UnlinkSidecars, NoEpoch
  <2>2. client' \in [Clients -> ClientControl]
    BY <1>31, PointsKnown DEF SeamTypes, UnlinkSidecars, ClientGoto
  <2> QED BY <1>31, <2>1, <2>2 DEF SeamTypes, UnlinkSidecars, ClientUnchanged, gate, threads
<1>32. ASSUME NEW c \in Clients, Rename(c) PROVE SeamTypes'
  <2>1. minted' \in Nat
    BY <1>32 DEF SeamTypes, Rename
  <2>2. epoch' \in Nat
    BY <1>32 DEF SeamTypes, Rename
  <2>3. whole' \in BOOLEAN
    BY <1>32 DEF SeamTypes, Rename
  <2>4. client' \in [Clients -> ClientControl]
    BY <1>32, PointsKnown DEF SeamTypes, Rename, ClientGoto
  <2>5. wire' \in [Clients -> Wires]
    BY <1>32, PointsKnown DEF SeamTypes, Rename, Send
  <2> QED BY <1>32, <2>1, <2>2, <2>3, <2>4, <2>5 DEF SeamTypes, Rename, ClientUnchanged, gate, threads
<1>33. ASSUME NEW c \in Clients, AssertReturns(c, "assert_after", "release", "release") PROVE SeamTypes'
  <2>1. client' \in [Clients -> ClientControl]
    BY <1>33, PointsKnown DEF SeamTypes, AssertReturns, ClientGoto
  <2> QED BY <1>33, <2>1 DEF SeamTypes, AssertReturns, ClientUnchanged, gate, threads
<1>34. ASSUME NEW c \in Clients, ReleaseExclusive(c) PROVE SeamTypes'
  <2>1. exclusive' \in Clients \cup {NoClient}
    BY <1>34 DEF SeamTypes, ReleaseExclusive
  <2>2. client' \in [Clients -> ClientControl]
    BY <1>34, PointsKnown DEF SeamTypes, ReleaseExclusive, ClientGoto
  <2> QED BY <1>34, <2>1, <2>2 DEF SeamTypes, ReleaseExclusive, ClientUnchanged, gate, threads
<1>35. ASSUME NEW c \in Clients, CallReopen(c) PROVE SeamTypes'
  <2>1. client' \in [Clients -> ClientControl]
    BY <1>35, PointsKnown DEF SeamTypes, CallReopen, Leave, ClientGoto
  <2>2. linked' \in [Clients -> BOOLEAN]
    BY <1>35 DEF SeamTypes, CallReopen, Leave
  <2>3. wire' \in [Clients -> Wires]
    BY <1>35, PointsKnown DEF SeamTypes, CallReopen, Send
  <2> QED BY <1>35, <2>1, <2>2, <2>3 DEF SeamTypes, CallReopen, ClientUnchanged, gate, threads
<1>36. ASSUME NEW c \in Clients, ReopenReturns(c) PROVE SeamTypes'
  <2>1. client' \in [Clients -> ClientControl]
    BY <1>36, PointsKnown DEF SeamTypes, ReopenReturns, Leave, ClientGoto
  <2>2. linked' \in [Clients -> BOOLEAN]
    BY <1>36 DEF SeamTypes, ReopenReturns, Leave
  <2> QED BY <1>36, <2>1, <2>2 DEF SeamTypes, ReopenReturns, ClientUnchanged, gate, threads
<1>37. ASSUME NEW c \in Clients, ClientDies(c) PROVE SeamTypes'
  <2>1. client' \in [Clients -> ClientControl]
    BY <1>37, PointsKnown DEF SeamTypes, ClientDies, ClientGoto
  <2>2. linked' \in [Clients -> BOOLEAN]
    BY <1>37 DEF SeamTypes, ClientDies
  <2> QED BY <1>37, <2>1, <2>2 DEF SeamTypes, ClientDies, store, gate, threads
<1>38. ASSUME NEW c \in Clients, FlockReleased(c) PROVE SeamTypes'
  <2>1. exclusive' \in Clients \cup {NoClient}
    BY <1>38 DEF SeamTypes, FlockReleased
  <2> QED BY <1>38, <2>1 DEF SeamTypes, FlockReleased, gate, threads, clients
<1>39. ASSUME CompleteRead PROVE SeamTypes'
  <2>1. handles' \subseteq Handles /\ shared' \subseteq Handles
    BY <1>39 DEF SeamTypes, CompleteRead, CloseHandles, Handles
  <2>2. recovery' \in Recoveries
    BY <1>39, CompleteReadSees
  <2>3. state' \in CoordinatorStates
    BY <1>39, StatesKnown DEF SeamTypes, CompleteRead
  <2> QED BY <1>39, <2>1, <2>2, <2>3 DEF SeamTypes, CompleteRead, CompleteUnchanged, clients
<1>40. ASSUME CompletePublish PROVE SeamTypes'
  <2>1. recovery' \in Recoveries
    BY <1>40, RecoveryTypes DEF SeamTypes, CompletePublish, NoEpoch
  <2>2. state' \in CoordinatorStates
    BY <1>40, StatesKnown DEF SeamTypes, CompletePublish
  <2>3. shared' \subseteq Handles /\ handles' \subseteq Handles
    BY <1>40 DEF SeamTypes, CompletePublish, CloseHandles, Handles
  <2>4. activeEpoch' \in Nat /\ targetEpoch' \in Nat
    BY <1>40 DEF SeamTypes, CompletePublish, NoEpoch
  <2> QED BY <1>40, <2>1, <2>2, <2>3, <2>4 DEF SeamTypes, CompletePublish, CompleteUnchanged, clients
<1>41. ASSUME DaemonStart PROVE SeamTypes'
  <2>1. up' \in BOOLEAN
    BY <1>41 DEF SeamTypes, DaemonStart
  <2>2. state' \in CoordinatorStates
    BY <1>41, StatesKnown DEF SeamTypes, DaemonStart
  <2>3. activeEpoch' \in Nat
    BY <1>41 DEF SeamTypes, DaemonStart, NoEpoch
  <2>4. handles' \subseteq Handles /\ shared' \subseteq Handles
    BY <1>41 DEF SeamTypes, DaemonStart, Handles
  <2> QED BY <1>41, <2>1, <2>2, <2>3, <2>4 DEF SeamTypes, DaemonStart, threads, clients
<1>42. ASSUME CloseBegin PROVE SeamTypes'
  <2>1. closed' \in BOOLEAN
    BY <1>42 DEF SeamTypes, CloseBegin
  <2>2. state' \in CoordinatorStates
    BY <1>42, StatesKnown DEF SeamTypes, CloseBegin
  <2>3. owner' \in Clients \cup {NoClient}
    BY <1>42 DEF SeamTypes, CloseBegin
  <2> QED BY <1>42, <2>1, <2>2, <2>3 DEF SeamTypes, CloseBegin, store, threads, clients
<1>43. ASSUME CloseEnd PROVE SeamTypes'
  <2>1. handles' \subseteq Handles /\ shared' \subseteq Handles
    BY <1>43 DEF SeamTypes, CloseEnd, CloseHandles, Handles
  <2> QED BY <1>43, <2>1 DEF SeamTypes, CloseEnd, threads, clients
<1>44. ASSUME DaemonCrash PROVE SeamTypes'
  <2>1. thread' \in [Clients -> ThreadControl]
    BY <1>44, PointsKnown DEF SeamTypes, DaemonCrash
  <2>2. owns' \in [Clients -> BOOLEAN]
    BY <1>44 DEF SeamTypes, DaemonCrash
  <2>3. opener' \in [Readers -> ReaderControl] /\ wire' \in [Clients -> Wires]
    BY <1>44, PointsKnown DEF SeamTypes, DaemonCrash
  <2>4. recovery' \in Recoveries
    BY <1>44, RecoveryTypes DEF SeamTypes, DaemonCrash, NoEpoch
  <2>5. up' \in BOOLEAN
    BY <1>44 DEF SeamTypes, DaemonCrash
  <2>6. state' \in CoordinatorStates
    BY <1>44, StatesKnown DEF SeamTypes, DaemonCrash
  <2>7. closed' \in BOOLEAN /\ owner' \in Clients \cup {NoClient} /\ requests' \in Nat /\ opening' \in Nat
    BY <1>44 DEF SeamTypes, DaemonCrash
  <2>8. handles' \subseteq Handles
    BY <1>44 DEF SeamTypes, DaemonCrash, Handles
  <2>9. builders' \subseteq {Machine}
    BY <1>44 DEF SeamTypes, DaemonCrash
  <2>10. shared' \subseteq Handles
    BY <1>44 DEF SeamTypes, DaemonCrash, Handles
  <2>11. preparedEpoch' \in Nat /\ activeEpoch' \in Nat /\ targetEpoch' \in Nat /\ found' \in Nat
    BY <1>44 DEF SeamTypes, DaemonCrash, NoEpoch
  <2> QED BY <1>44, <2>1, <2>2, <2>3, <2>4, <2>5, <2>6, <2>7, <2>8, <2>9, <2>10, <2>11 DEF SeamTypes,
     DaemonCrash
<1>45. ASSUME RecorderWrites PROVE SeamTypes'
  <2>1. epoch' \in Nat /\ minted' \in Nat
    BY <1>45 DEF SeamTypes, RecorderWrites
  <2>2. wal' \in Nat
    BY <1>45 DEF SeamTypes, RecorderWrites, NoEpoch
  <2> QED BY <1>45, <2>1, <2>2 DEF SeamTypes, RecorderWrites, gate, threads, clients
<1> QED
  BY <1>1, <1>2, <1>3, <1>4, <1>5, <1>6, <1>7, <1>8, <1>9, <1>10, <1>11, <1>12, <1>13, <1>14, <1>15, <1>16,
     <1>17, <1>18, <1>19, <1>20, <1>21, <1>22, <1>23, <1>24, <1>25, <1>26, <1>27, <1>28, <1>29, <1>30,
     <1>31, <1>32, <1>33, <1>34, <1>35, <1>36, <1>37, <1>38, <1>39, <1>40, <1>41, <1>42, <1>43, <1>44, <1>45
     DEF SeamNext, ReaderStep, PrepareStep, RecoverStep, ClientStep


\* Every step keeps the discipline of the flock: shared is granted only while
\* nobody holds it exclusively, and exclusive only while nobody shares it.
LEMMA StepLock == ASSUME SeamTypes, LockInv, ThreadInv, SeamNext
    PROVE LockInv'
<1>0. /\ client \in [Clients -> ClientControl] /\ opener \in [Readers -> ReaderControl]
      /\ exclusive \in Clients \cup {NoClient} /\ NoClient \notin Clients /\ Own \notin Readers
  BY NamesAssumption DEF SeamTypes, NamesAssumption
<1> USE DEF LockInv, UnderLease, Replacing, store, gate, threads, clients
<1>1. ASSUME BeginRequest PROVE LockInv'
  BY <1>0, <1>1 DEF BeginRequest
<1>2. ASSUME CompleteRequest PROVE LockInv'
  BY <1>0, <1>2 DEF CompleteRequest
<1>3. ASSUME RegisterBuilder PROVE LockInv'
  BY <1>0, <1>3 DEF RegisterBuilder
<1>4. ASSUME UnregisterBuilder PROVE LockInv'
  BY <1>0, <1>4 DEF UnregisterBuilder
<1>5. ASSUME NEW r \in Readers, OpenBegin(r) PROVE LockInv'
  BY <1>0, <1>5 DEF OpenBegin
<1>6. ASSUME NEW r \in Readers, OpenFactory(r) PROVE LockInv'
  BY <1>0, <1>6 DEF OpenFactory, SharedGranted
<1>7. ASSUME NEW r \in Readers, OpenRegister(r) PROVE LockInv'
  BY <1>0, <1>7 DEF OpenRegister
<1>8. ASSUME NEW r \in Readers, OpenReject(r) PROVE LockInv'
  BY <1>0, <1>8 DEF OpenReject, CloseHandles, NoSeamFault, SeamFault
<1>9. ASSUME NEW r \in Readers, ReaderCloses(r) PROVE LockInv'
  BY <1>0, <1>9 DEF ReaderCloses, CloseHandles
<1>10. ASSUME NEW c \in Clients, Prepare(c) PROVE LockInv'
  BY <1>0, <1>10 DEF Prepare, Answer, ThreadGoto, PrepareUnchanged
<1>11. ASSUME NEW c \in Clients, DrainRequests(c) PROVE LockInv'
  BY <1>0, <1>11 DEF DrainRequests, Drain, ThreadGoto, Answer, PrepareFailure, PrepareUnchanged, CloseHandles
<1>12. ASSUME NEW c \in Clients, StopBuilder(c) PROVE LockInv'
  BY <1>0, <1>12 DEF StopBuilder, NoSeamFault, ThreadGoto, PrepareFailure, SeamFault, PrepareUnchanged,
     CloseHandles, Answer
<1>13. ASSUME NEW c \in Clients, CloseFactHandle(c) PROVE LockInv'
  BY <1>0, <1>13 DEF CloseFactHandle, NoSeamFault, ThreadGoto, CloseHandles, SeamFault, PrepareFailure,
     PrepareUnchanged, Answer
<1>14. ASSUME NEW c \in Clients, DrainAgain(c) PROVE LockInv'
  BY <1>0, <1>14 DEF DrainAgain, Drain, ThreadGoto, Answer, PrepareFailure, PrepareUnchanged, CloseHandles
<1>15. ASSUME NEW c \in Clients, ReadIdentity(c) PROVE LockInv'
  BY <1>0, <1>15 DEF ReadIdentity, SharedGranted, NoSeamFault, PrepareFailure, SeamFault, ThreadGoto,
     PrepareUnchanged, CloseHandles, Answer
<1>16. ASSUME NEW c \in Clients, PublishPrepared(c) PROVE LockInv'
  BY <1>0, <1>16 DEF PublishPrepared, Answer, PrepareUnchanged, ThreadGoto
<1>17. ASSUME NEW c \in Clients, AssertPrepared(c) PROVE LockInv'
  BY <1>0, <1>17 DEF AssertPrepared, Answer, ThreadGoto
<1>18. ASSUME NEW c \in Clients, Reopen(c) PROVE LockInv'
  BY <1>0, <1>18 DEF Reopen, ThreadGoto, Answer
<1>19. ASSUME NEW c \in Clients, LeaseLost(c) PROVE LockInv'
  BY <1>0, <1>19 DEF LeaseLost, ThreadGoto
<1>20. ASSUME NEW c \in Clients, Recover(c) PROVE LockInv'
  BY <1>0, <1>20 DEF Recover, Block, ThreadGoto, RecoverUnchanged, AnswerRecover, Answer
<1>21. ASSUME NEW c \in Clients, RecoverAbsent(c) PROVE LockInv'
  BY <1>0, <1>21 DEF RecoverAbsent, SharedGranted, NoSeamFault, ThreadGoto, SeamFault, Serve, Block,
     RecoverUnchanged, AnswerRecover, Answer
<1>22. ASSUME NEW c \in Clients, RecoverOpen(c) PROVE LockInv'
  BY <1>0, <1>22 DEF RecoverOpen, SharedGranted, NoSeamFault, ThreadGoto, SeamFault, Block,
     RecoverUnchanged, AnswerRecover, Answer
<1>23. ASSUME NEW c \in Clients, RecoverPublish(c) PROVE LockInv'
  BY <1>0, <1>23 DEF RecoverPublish, CloseHandles, OwnHandle, Block, Serve, ThreadGoto, RecoverUnchanged,
     AnswerRecover, Answer
<1>24. ASSUME NEW c \in Clients, Rebuild(c) PROVE LockInv'
  BY <1>0, <1>24 DEF Rebuild, NoSeamFault, AnswerRecover, SeamFault, CloseHandles, Block, RecoverUnchanged,
     Answer, ThreadGoto
<1>25. ASSUME NEW c \in Clients, CallPrepare(c) PROVE LockInv'
  BY <1>0, <1>25 DEF CallPrepare, ClientGoto, Send, ClientUnchanged
<1>26. ASSUME NEW c \in Clients, PrepareReturns(c) PROVE LockInv'
  BY <1>0, <1>26 DEF PrepareReturns, ClientGoto, Send, Failed, Leave, ClientUnchanged
<1>27. ASSUME NEW c \in Clients, AssertReturns(c, "assert", "acquire", "reopen") PROVE LockInv'
  BY <1>0, <1>27 DEF AssertReturns, ClientGoto, Failed, ClientUnchanged
<1>28. ASSUME NEW c \in Clients, AcquireExclusive(c) PROVE LockInv'
  BY <1>0, <1>28 DEF AcquireExclusive, ClientGoto, Send, ClientUnchanged
<1>29. ASSUME NEW c \in Clients, AssertReturns(c, "assert_again", "checkpoint", "release") PROVE LockInv'
  BY <1>0, <1>29 DEF AssertReturns, ClientGoto, Failed, ClientUnchanged
<1>30. ASSUME NEW c \in Clients, Checkpoint(c) PROVE LockInv'
  BY <1>0, <1>30 DEF Checkpoint, NoSeamFault, ClientGoto, SeamFault, ClientUnchanged
<1>31. ASSUME NEW c \in Clients, UnlinkSidecars(c) PROVE LockInv'
  BY <1>0, <1>31 DEF UnlinkSidecars, NoSeamFault, ClientGoto, SeamFault, ClientUnchanged
<1>32. ASSUME NEW c \in Clients, Rename(c) PROVE LockInv'
  BY <1>0, <1>32 DEF Rename, NoSeamFault, ClientGoto, Send, SeamFault, ClientUnchanged
<1>33. ASSUME NEW c \in Clients, AssertReturns(c, "assert_after", "release", "release") PROVE LockInv'
  BY <1>0, <1>33 DEF AssertReturns, ClientGoto, Failed, ClientUnchanged
<1>34. ASSUME NEW c \in Clients, ReleaseExclusive(c) PROVE LockInv'
  BY <1>0, <1>34 DEF ReleaseExclusive, ClientGoto, ClientUnchanged
<1>35. ASSUME NEW c \in Clients, CallReopen(c) PROVE LockInv'
  BY <1>0, <1>35 DEF CallReopen, Leave, ClientGoto, Send, ClientUnchanged
<1>36. ASSUME NEW c \in Clients, ReopenReturns(c) PROVE LockInv'
  BY <1>0, <1>36 DEF ReopenReturns, Leave, ClientUnchanged, ClientGoto
<1>37. ASSUME NEW c \in Clients, ClientDies(c) PROVE LockInv'
  BY <1>0, <1>37 DEF ClientDies, ClientGoto
<1>38. ASSUME NEW c \in Clients, FlockReleased(c) PROVE LockInv'
  BY <1>0, <1>38 DEF FlockReleased
<1>39. ASSUME CompleteRead PROVE LockInv'
  BY <1>0, <1>39 DEF CompleteRead, NoSeamFault, CloseHandles, NoRecovery, SharedGranted, SeamFault,
     CompleteUnchanged
<1>40. ASSUME CompletePublish PROVE LockInv'
  BY <1>0, <1>40 DEF CompletePublish, NoRecovery, CloseHandles, CompleteUnchanged
<1>41. ASSUME DaemonStart PROVE LockInv'
  BY <1>0, <1>41 DEF DaemonStart, NoSeamFault, SharedGranted, SeamFault, ThreadInv, InFlight
<1>42. ASSUME CloseBegin PROVE LockInv'
  BY <1>0, <1>42 DEF CloseBegin
<1>43. ASSUME CloseEnd PROVE LockInv'
  BY <1>0, <1>43 DEF CloseEnd, CloseHandles
<1>44. ASSUME DaemonCrash PROVE LockInv'
  BY <1>0, <1>44 DEF DaemonCrash, NoRecovery
<1>45. ASSUME RecorderWrites PROVE LockInv'
  BY <1>0, <1>45 DEF RecorderWrites, SharedGranted
<1> QED
  BY <1>1, <1>2, <1>3, <1>4, <1>5, <1>6, <1>7, <1>8, <1>9, <1>10, <1>11, <1>12, <1>13, <1>14, <1>15, <1>16,
     <1>17, <1>18, <1>19, <1>20, <1>21, <1>22, <1>23, <1>24, <1>25, <1>26, <1>27, <1>28, <1>29, <1>30,
     <1>31, <1>32, <1>33, <1>34, <1>35, <1>36, <1>37, <1>38, <1>39, <1>40, <1>41, <1>42, <1>43, <1>44, <1>45
     DEF SeamNext, ReaderStep, PrepareStep, RecoverStep, ClientStep


\* Every step keeps the control threads apart: prepare is accepted only in
\* serving, reopen only from the owner of a lease.
LEMMA StepThread == ASSUME SeamTypes, ThreadInv, SeamNext
    PROVE ThreadInv'
<1>0. /\ thread \in [Clients -> ThreadControl] /\ recovery \in Recoveries /\ NoClient \notin Clients
      /\ opener \in [Readers -> ReaderControl]
  BY NamesAssumption DEF SeamTypes, NamesAssumption
<1> USE DEF ThreadInv, AllIdle, InFlight, PrepareControl, RecoverControl, store, gate, threads, clients
<1>1. ASSUME BeginRequest PROVE ThreadInv'
  BY <1>0, <1>1 DEF BeginRequest
<1>2. ASSUME CompleteRequest PROVE ThreadInv'
  BY <1>0, <1>2 DEF CompleteRequest
<1>3. ASSUME RegisterBuilder PROVE ThreadInv'
  BY <1>0, <1>3 DEF RegisterBuilder
<1>4. ASSUME UnregisterBuilder PROVE ThreadInv'
  BY <1>0, <1>4 DEF UnregisterBuilder
<1>5. ASSUME NEW r \in Readers, OpenBegin(r) PROVE ThreadInv'
  BY <1>0, <1>5 DEF OpenBegin
<1>6. ASSUME NEW r \in Readers, OpenFactory(r) PROVE ThreadInv'
  BY <1>0, <1>6 DEF OpenFactory, SharedGranted
<1>7. ASSUME NEW r \in Readers, OpenRegister(r) PROVE ThreadInv'
  BY <1>0, <1>7 DEF OpenRegister
<1>8. ASSUME NEW r \in Readers, OpenReject(r) PROVE ThreadInv'
  BY <1>0, <1>8 DEF OpenReject, CloseHandles, NoSeamFault, SeamFault
<1>9. ASSUME NEW r \in Readers, ReaderCloses(r) PROVE ThreadInv'
  BY <1>0, <1>9 DEF ReaderCloses, CloseHandles
<1>10. ASSUME NEW c \in Clients, Prepare(c) PROVE ThreadInv'
  BY <1>0, <1>10 DEF Prepare, Answer, ThreadGoto, PrepareUnchanged
<1>11. ASSUME NEW c \in Clients, DrainRequests(c) PROVE ThreadInv'
  BY <1>0, <1>11 DEF DrainRequests, Drain, ThreadGoto, Answer, PrepareFailure, PrepareUnchanged, CloseHandles
<1>12. ASSUME NEW c \in Clients, StopBuilder(c) PROVE ThreadInv'
  BY <1>0, <1>12 DEF StopBuilder, NoSeamFault, ThreadGoto, PrepareFailure, SeamFault, PrepareUnchanged,
     CloseHandles, Answer
<1>13. ASSUME NEW c \in Clients, CloseFactHandle(c) PROVE ThreadInv'
  BY <1>0, <1>13 DEF CloseFactHandle, NoSeamFault, ThreadGoto, CloseHandles, SeamFault, PrepareFailure,
     PrepareUnchanged, Answer
<1>14. ASSUME NEW c \in Clients, DrainAgain(c) PROVE ThreadInv'
  BY <1>0, <1>14 DEF DrainAgain, Drain, ThreadGoto, Answer, PrepareFailure, PrepareUnchanged, CloseHandles
<1>15. ASSUME NEW c \in Clients, ReadIdentity(c) PROVE ThreadInv'
  BY <1>0, <1>15 DEF ReadIdentity, SharedGranted, NoSeamFault, PrepareFailure, SeamFault, ThreadGoto,
     PrepareUnchanged, CloseHandles, Answer
<1>16. ASSUME NEW c \in Clients, PublishPrepared(c) PROVE ThreadInv'
  BY <1>0, <1>16 DEF PublishPrepared, Answer, PrepareUnchanged, ThreadGoto
<1>17. ASSUME NEW c \in Clients, AssertPrepared(c) PROVE ThreadInv'
  BY <1>0, <1>17 DEF AssertPrepared, Answer, ThreadGoto
<1>18. ASSUME NEW c \in Clients, Reopen(c) PROVE ThreadInv'
  BY <1>0, <1>18 DEF Reopen, ThreadGoto, Answer
<1>19. ASSUME NEW c \in Clients, LeaseLost(c) PROVE ThreadInv'
  BY <1>0, <1>19 DEF LeaseLost, ThreadGoto
<1>20. ASSUME NEW c \in Clients, Recover(c) PROVE ThreadInv'
  BY <1>0, <1>20 DEF Recover, Block, ThreadGoto, RecoverUnchanged, AnswerRecover, Answer
<1>21. ASSUME NEW c \in Clients, RecoverAbsent(c) PROVE ThreadInv'
  BY <1>0, <1>21 DEF RecoverAbsent, SharedGranted, NoSeamFault, ThreadGoto, SeamFault, Serve, Block,
     RecoverUnchanged, AnswerRecover, Answer
<1>22. ASSUME NEW c \in Clients, RecoverOpen(c) PROVE ThreadInv'
  BY <1>0, <1>22 DEF RecoverOpen, SharedGranted, NoSeamFault, ThreadGoto, SeamFault, Block,
     RecoverUnchanged, AnswerRecover, Answer
<1>23. ASSUME NEW c \in Clients, RecoverPublish(c) PROVE ThreadInv'
  BY <1>0, <1>23 DEF RecoverPublish, CloseHandles, OwnHandle, Block, Serve, ThreadGoto, RecoverUnchanged,
     AnswerRecover, Answer
<1>24. ASSUME NEW c \in Clients, Rebuild(c) PROVE ThreadInv'
  BY <1>0, <1>24 DEF Rebuild, NoSeamFault, AnswerRecover, SeamFault, CloseHandles, Block, RecoverUnchanged,
     Answer, ThreadGoto
<1>25. ASSUME CompleteRead PROVE ThreadInv'
  BY <1>0, <1>25 DEF CompleteRead, NoSeamFault, CloseHandles, NoRecovery, SharedGranted, SeamFault,
     CompleteUnchanged
<1>26. ASSUME CompletePublish PROVE ThreadInv'
  BY <1>0, <1>26 DEF CompletePublish, NoRecovery, CloseHandles, CompleteUnchanged
<1>27. ASSUME DaemonStart PROVE ThreadInv'
  BY <1>0, <1>27 DEF DaemonStart, NoSeamFault, SharedGranted, SeamFault
<1>28. ASSUME CloseBegin PROVE ThreadInv'
  BY <1>0, <1>28 DEF CloseBegin
<1>29. ASSUME CloseEnd PROVE ThreadInv'
  BY <1>0, <1>29 DEF CloseEnd, CloseHandles
<1>30. ASSUME DaemonCrash PROVE ThreadInv'
  BY <1>0, <1>30 DEF DaemonCrash, NoRecovery
<1>31. CASE ClientSide \/ RecorderWrites
  BY <1>31, ClientFrame, RecorderFrame
<1> QED
  BY <1>1, <1>2, <1>3, <1>4, <1>5, <1>6, <1>7, <1>8, <1>9, <1>10, <1>11, <1>12, <1>13, <1>14, <1>15, <1>16,
     <1>17, <1>18, <1>19, <1>20, <1>21, <1>22, <1>23, <1>24, <1>25, <1>26, <1>27, <1>28, <1>29, <1>30, <1>31
     DEF SeamNext, ReaderStep, PrepareStep, RecoverStep, ClientSide


\* Every step keeps the count of openings, and nothing begins once prepare has
\* drained.
LEMMA StepQuiet == ASSUME SeamTypes, ThreadInv, QuietInv, SeamNext
    PROVE QuietInv'
<1>0. /\ thread \in [Clients -> ThreadControl] /\ opener \in [Readers -> ReaderControl]
      /\ opening \in Nat /\ requests \in Nat /\ Cardinality(InFlight) \in Nat
      /\ opening = 0 <=> InFlight = {} /\ ~ Reopening
  BY OpeningCounted DEF SeamTypes
<1> USE DEF QuietInv, ThreadInv, AllIdle, PrepareControl, RecoverControl, store, gate, threads, clients
<1>1. ASSUME BeginRequest PROVE QuietInv'
  <2>1. InFlight' = InFlight /\ Reopening' = Reopening
    BY <1>0, <1>1 DEF BeginRequest, InFlight, Reopening
  <2> QED BY <1>0, <1>1, <2>1 DEF BeginRequest
<1>2. ASSUME CompleteRequest PROVE QuietInv'
  <2>1. InFlight' = InFlight /\ Reopening' = Reopening
    BY <1>0, <1>2 DEF CompleteRequest, InFlight, Reopening
  <2> QED BY <1>0, <1>2, <2>1 DEF CompleteRequest
<1>3. ASSUME RegisterBuilder PROVE QuietInv'
  <2>1. InFlight' = InFlight /\ Reopening' = Reopening
    BY <1>0, <1>3 DEF RegisterBuilder, InFlight, Reopening
  <2> QED BY <1>0, <1>3, <2>1 DEF RegisterBuilder
<1>4. ASSUME UnregisterBuilder PROVE QuietInv'
  <2>1. InFlight' = InFlight /\ Reopening' = Reopening
    BY <1>0, <1>4 DEF UnregisterBuilder, InFlight, Reopening
  <2> QED BY <1>0, <1>4, <2>1 DEF UnregisterBuilder
<1>5. ASSUME NEW r \in Readers, OpenBegin(r) PROVE QuietInv'
  <2>1. InFlight' = InFlight \cup {r} /\ r \notin InFlight
    BY <1>0, <1>5 DEF OpenBegin, InFlight
  <2>2. Cardinality(InFlight') = Cardinality(InFlight) + 1
    BY <2>1, OpeningCounted, FS_AddElement
  <2>3. UNCHANGED Reopening
    BY <1>5 DEF OpenBegin, Reopening
  <2>4. state # "prepared" /\ \A c \in Clients : thread[c] \notin {"identity", "prepared"}
    BY <1>5 DEF OpenBegin, ThreadInv, AllIdle
  <2> QED BY <1>0, <1>5, <2>2, <2>3, <2>4 DEF OpenBegin, QuietInv
<1>6. ASSUME NEW r \in Readers, OpenFactory(r) PROVE QuietInv'
  <2>1. UNCHANGED <<Reopening, thread, state, requests, builders>> /\ r \in InFlight
    BY <1>0, <1>6 DEF OpenFactory, SharedGranted, Reopening, InFlight
  <2>2. CASE Exists /\ SharedGranted
    <3>1. InFlight' = InFlight
      BY <1>0, <1>6, <2>2 DEF OpenFactory, SharedGranted, InFlight
    <3> QED BY <1>6, <2>1, <2>2, <3>1 DEF OpenFactory, SharedGranted, QuietInv
  <2>3. CASE ~ (Exists /\ SharedGranted)
    <3>1. InFlight' = InFlight \ {r}
      BY <1>0, <1>6, <2>3 DEF OpenFactory, SharedGranted, InFlight
    <3>2. Cardinality(InFlight') = Cardinality(InFlight) - 1
      BY <2>1, <3>1, OpeningCounted, FS_RemoveElement
    <3> QED BY <1>0, <1>6, <2>1, <2>3, <3>1, <3>2 DEF OpenFactory, SharedGranted, QuietInv
  <2> QED BY <2>2, <2>3
<1>7. ASSUME NEW r \in Readers, OpenRegister(r) PROVE QuietInv'
  <2>1. UNCHANGED <<Reopening, thread, state, requests, builders>> /\ r \in InFlight
    BY <1>0, <1>7 DEF OpenRegister, Reopening, InFlight, store, clients
  <2>2. CASE state # "serving"
    <3>1. InFlight' = InFlight
      BY <1>0, <1>7, <2>2 DEF OpenRegister, InFlight
    <3> QED BY <1>7, <2>1, <2>2, <3>1 DEF OpenRegister, QuietInv
  <2>3. CASE state = "serving"
    <3>1. InFlight' = InFlight \ {r}
      BY <1>0, <1>7, <2>3 DEF OpenRegister, InFlight
    <3>2. Cardinality(InFlight') = Cardinality(InFlight) - 1
      BY <2>1, <3>1, OpeningCounted, FS_RemoveElement
    <3> QED BY <1>0, <1>7, <2>1, <2>3, <3>1, <3>2 DEF OpenRegister, QuietInv
  <2> QED BY <2>2, <2>3
<1>8. ASSUME NEW r \in Readers, OpenReject(r) PROVE QuietInv'
  <2>1. UNCHANGED <<Reopening, thread, requests, builders>> /\ r \in InFlight
    BY <1>0, <1>8 DEF OpenReject, CloseHandles, NoSeamFault, SeamFault, Reopening, InFlight
  <2>3. InFlight' = InFlight \ {r}
    BY <1>0, <1>8 DEF OpenReject, CloseHandles, NoSeamFault, SeamFault, InFlight
  <2>4. Cardinality(InFlight') = Cardinality(InFlight) - 1
    BY <2>1, <2>3, OpeningCounted, FS_RemoveElement
  <2>5. state' = state \/ state' = "blocked"
    BY <1>8 DEF OpenReject, CloseHandles, NoSeamFault, SeamFault
  <2> QED BY <1>0, <1>8, <2>1, <2>3, <2>4, <2>5 DEF OpenReject, CloseHandles, NoSeamFault, SeamFault, QuietInv
<1>9. ASSUME NEW r \in Readers, ReaderCloses(r) PROVE QuietInv'
  <2>1. InFlight' = InFlight /\ Reopening' = Reopening
    BY <1>0, <1>9 DEF ReaderCloses, CloseHandles, InFlight, Reopening
  <2> QED BY <1>0, <1>9, <2>1 DEF ReaderCloses, CloseHandles
<1>10. ASSUME NEW c \in Clients, Prepare(c) PROVE QuietInv'
  <2>1. InFlight' = InFlight /\ Reopening' = Reopening
    BY <1>0, <1>10 DEF Prepare, Answer, ThreadGoto, PrepareUnchanged, InFlight, Reopening
  <2> QED BY <1>0, <1>10, <2>1 DEF Prepare, Answer, ThreadGoto, PrepareUnchanged
<1>11. ASSUME NEW c \in Clients, DrainRequests(c) PROVE QuietInv'
  <2>1. InFlight' = InFlight /\ Reopening' = Reopening
    BY <1>0, <1>11 DEF DrainRequests, Drain, ThreadGoto, Answer, PrepareFailure, PrepareUnchanged,
       CloseHandles, InFlight, Reopening
  <2> QED BY <1>0, <1>11, <2>1 DEF DrainRequests, Drain, ThreadGoto, Answer, PrepareFailure,
     PrepareUnchanged, CloseHandles
<1>12. ASSUME NEW c \in Clients, StopBuilder(c) PROVE QuietInv'
  <2>1. InFlight' = InFlight /\ Reopening' = Reopening
    BY <1>0, <1>12 DEF StopBuilder, NoSeamFault, ThreadGoto, PrepareFailure, SeamFault, PrepareUnchanged,
       CloseHandles, Answer, InFlight, Reopening
  <2> QED BY <1>0, <1>12, <2>1 DEF StopBuilder, NoSeamFault, ThreadGoto, PrepareFailure, SeamFault,
     PrepareUnchanged, CloseHandles, Answer
<1>13. ASSUME NEW c \in Clients, CloseFactHandle(c) PROVE QuietInv'
  <2>1. InFlight' = InFlight /\ Reopening' = Reopening
    BY <1>0, <1>13 DEF CloseFactHandle, NoSeamFault, ThreadGoto, CloseHandles, SeamFault, PrepareFailure,
       PrepareUnchanged, Answer, InFlight, Reopening
  <2> QED BY <1>0, <1>13, <2>1 DEF CloseFactHandle, NoSeamFault, ThreadGoto, CloseHandles, SeamFault,
     PrepareFailure, PrepareUnchanged, Answer
<1>14. ASSUME NEW c \in Clients, DrainAgain(c) PROVE QuietInv'
  <2>1. InFlight' = InFlight /\ Reopening' = Reopening
    BY <1>0, <1>14 DEF DrainAgain, Drain, ThreadGoto, Answer, PrepareFailure, PrepareUnchanged,
       CloseHandles, InFlight, Reopening
  <2> QED BY <1>0, <1>14, <2>1 DEF DrainAgain, Drain, ThreadGoto, Answer, PrepareFailure, PrepareUnchanged,
     CloseHandles
<1>15. ASSUME NEW c \in Clients, ReadIdentity(c) PROVE QuietInv'
  <2>1. InFlight' = InFlight /\ Reopening' = Reopening
    BY <1>0, <1>15 DEF ReadIdentity, SharedGranted, NoSeamFault, PrepareFailure, SeamFault, ThreadGoto,
       PrepareUnchanged, CloseHandles, Answer, InFlight, Reopening
  <2> QED BY <1>0, <1>15, <2>1 DEF ReadIdentity, SharedGranted, NoSeamFault, PrepareFailure, SeamFault,
     ThreadGoto, PrepareUnchanged, CloseHandles, Answer
<1>16. ASSUME NEW c \in Clients, PublishPrepared(c) PROVE QuietInv'
  <2>1. InFlight' = InFlight /\ Reopening' = Reopening
    BY <1>0, <1>16 DEF PublishPrepared, Answer, PrepareUnchanged, ThreadGoto, InFlight, Reopening
  <2> QED BY <1>0, <1>16, <2>1 DEF PublishPrepared, Answer, PrepareUnchanged, ThreadGoto
<1>17. ASSUME NEW c \in Clients, AssertPrepared(c) PROVE QuietInv'
  <2>1. InFlight' = InFlight /\ Reopening' = Reopening
    BY <1>0, <1>17 DEF AssertPrepared, Answer, ThreadGoto, InFlight, Reopening
  <2> QED BY <1>0, <1>17, <2>1 DEF AssertPrepared, Answer, ThreadGoto
<1>18. ASSUME NEW c \in Clients, Reopen(c) PROVE QuietInv'
  <2>1. InFlight' = InFlight /\ Reopening' = Reopening
    BY <1>0, <1>18 DEF Reopen, ThreadGoto, Answer, InFlight, Reopening
  <2> QED BY <1>0, <1>18, <2>1 DEF Reopen, ThreadGoto, Answer
<1>19. ASSUME NEW c \in Clients, LeaseLost(c) PROVE QuietInv'
  <2>1. InFlight' = InFlight /\ Reopening' = Reopening
    BY <1>0, <1>19 DEF LeaseLost, ThreadGoto, InFlight, Reopening
  <2> QED BY <1>0, <1>19, <2>1 DEF LeaseLost, ThreadGoto
<1>20. ASSUME NEW c \in Clients, Recover(c) PROVE QuietInv'
  <2>1. InFlight' = InFlight /\ ~ Reopening
    BY <1>20 DEF Recover, Block, ThreadGoto, RecoverUnchanged, AnswerRecover, Answer, InFlight, Reopening,
       ThreadInv
  <2>2. opening' = opening + (IF Reopening' THEN 1 ELSE 0)
    BY <1>0, <1>20, <2>1 DEF Recover, Block, ThreadGoto, RecoverUnchanged, AnswerRecover, Answer, Reopening
  <2>3. /\ state' = "prepared" => state = "prepared"
        /\ \A d \in Clients : thread'[d] \in {"identity", "prepared"} => thread[d] \in {"identity", "prepared"}
    BY <1>0, <1>20 DEF Recover, Block, ThreadGoto, RecoverUnchanged, AnswerRecover, Answer
  <2> QED BY <1>0, <1>20, <2>1, <2>2, <2>3 DEF Recover, Block, ThreadGoto, RecoverUnchanged, AnswerRecover,
     Answer, QuietInv
<1>21. ASSUME NEW c \in Clients, RecoverAbsent(c) PROVE QuietInv'
  <2>1. InFlight' = InFlight /\ Reopening' = Reopening
    BY <1>0, <1>21 DEF RecoverAbsent, SharedGranted, NoSeamFault, ThreadGoto, SeamFault, Serve, Block,
       RecoverUnchanged, AnswerRecover, Answer, InFlight, Reopening
  <2> QED BY <1>0, <1>21, <2>1 DEF RecoverAbsent, SharedGranted, NoSeamFault, ThreadGoto, SeamFault, Serve,
     Block, RecoverUnchanged, AnswerRecover, Answer
<1>22. ASSUME NEW c \in Clients, RecoverOpen(c) PROVE QuietInv'
  <2>1. InFlight' = InFlight /\ Reopening
    BY <1>22 DEF RecoverOpen, SharedGranted, NoSeamFault, ThreadGoto, SeamFault, Block, RecoverUnchanged,
       AnswerRecover, Answer, InFlight, Reopening
  <2>2. ~ Reopening'
    BY <1>0, <1>22 DEF RecoverOpen, SharedGranted, NoSeamFault, ThreadGoto, SeamFault, Block,
       RecoverUnchanged, AnswerRecover, Answer, Reopening, ThreadInv
  <2>3. /\ state' = "prepared" => state = "prepared"
        /\ \A d \in Clients : thread'[d] \in {"identity", "prepared"} => thread[d] \in {"identity", "prepared"}
    BY <1>0, <1>22 DEF RecoverOpen, SharedGranted, NoSeamFault, ThreadGoto, SeamFault, Block,
       RecoverUnchanged, AnswerRecover, Answer
  <2> QED BY <1>0, <1>22, <2>1, <2>2, <2>3 DEF RecoverOpen, SharedGranted, NoSeamFault, ThreadGoto,
     SeamFault, Block, RecoverUnchanged, AnswerRecover, Answer, QuietInv
<1>23. ASSUME NEW c \in Clients, RecoverPublish(c) PROVE QuietInv'
  <2>1. InFlight' = InFlight /\ Reopening' = Reopening
    BY <1>0, <1>23 DEF RecoverPublish, CloseHandles, OwnHandle, Block, Serve, ThreadGoto, RecoverUnchanged,
       AnswerRecover, Answer, InFlight, Reopening
  <2> QED BY <1>0, <1>23, <2>1 DEF RecoverPublish, CloseHandles, OwnHandle, Block, Serve, ThreadGoto,
     RecoverUnchanged, AnswerRecover, Answer
<1>24. ASSUME NEW c \in Clients, Rebuild(c) PROVE QuietInv'
  <2>1. InFlight' = InFlight /\ Reopening' = Reopening
    BY <1>0, <1>24 DEF Rebuild, NoSeamFault, AnswerRecover, SeamFault, CloseHandles, Block,
       RecoverUnchanged, Answer, ThreadGoto, InFlight, Reopening
  <2> QED BY <1>0, <1>24, <2>1 DEF Rebuild, NoSeamFault, AnswerRecover, SeamFault, CloseHandles, Block,
     RecoverUnchanged, Answer, ThreadGoto
<1>25. ASSUME CompleteRead PROVE QuietInv'
  <2>1. InFlight' = InFlight /\ Reopening' = Reopening
    BY <1>0, <1>25 DEF CompleteRead, NoSeamFault, CloseHandles, NoRecovery, SharedGranted, SeamFault,
       CompleteUnchanged, InFlight, Reopening
  <2> QED BY <1>0, <1>25, <2>1 DEF CompleteRead, NoSeamFault, CloseHandles, NoRecovery, SharedGranted,
     SeamFault, CompleteUnchanged
<1>26. ASSUME CompletePublish PROVE QuietInv'
  <2>1. InFlight' = InFlight /\ Reopening' = Reopening
    BY <1>0, <1>26 DEF CompletePublish, NoRecovery, CloseHandles, CompleteUnchanged, InFlight, Reopening
  <2> QED BY <1>0, <1>26, <2>1 DEF CompletePublish, NoRecovery, CloseHandles, CompleteUnchanged
<1>27. ASSUME DaemonStart PROVE QuietInv'
  <2>1. InFlight' = InFlight /\ Reopening' = Reopening
    BY <1>0, <1>27 DEF DaemonStart, NoSeamFault, SharedGranted, SeamFault, InFlight, Reopening
  <2> QED BY <1>0, <1>27, <2>1 DEF DaemonStart, NoSeamFault, SharedGranted, SeamFault
<1>28. ASSUME CloseBegin PROVE QuietInv'
  <2>1. InFlight' = InFlight /\ Reopening' = Reopening
    BY <1>0, <1>28 DEF CloseBegin, InFlight, Reopening
  <2> QED BY <1>0, <1>28, <2>1 DEF CloseBegin
<1>29. ASSUME CloseEnd PROVE QuietInv'
  <2>1. InFlight' = InFlight /\ Reopening' = Reopening
    BY <1>0, <1>29 DEF CloseEnd, CloseHandles, InFlight, Reopening
  <2> QED BY <1>0, <1>29, <2>1 DEF CloseEnd, CloseHandles
<1>30. ASSUME DaemonCrash PROVE QuietInv'
  <2>1. InFlight' = {} /\ ~ Reopening' /\ \A c \in Clients : thread'[c] = "idle"
    BY <1>30 DEF DaemonCrash, NoRecovery, InFlight, Reopening
  <2>2. Cardinality(InFlight') = 0
    BY <2>1, FS_EmptySet
  <2> QED BY <1>30, <2>1, <2>2 DEF DaemonCrash, NoRecovery, QuietInv
<1>31. CASE ClientSide \/ RecorderWrites
  <2>1. UNCHANGED <<shared, gate, threads>>
    BY <1>31, ClientFrame, RecorderFrame
  <2>2. InFlight' = InFlight /\ Reopening' = Reopening
    BY <2>1 DEF InFlight, Reopening
  <2> QED BY <2>1, <2>2
<1> QED
  BY <1>1, <1>2, <1>3, <1>4, <1>5, <1>6, <1>7, <1>8, <1>9, <1>10, <1>11, <1>12, <1>13, <1>14, <1>15, <1>16,
     <1>17, <1>18, <1>19, <1>20, <1>21, <1>22, <1>23, <1>24, <1>25, <1>26, <1>27, <1>28, <1>29, <1>30, <1>31
     DEF SeamNext, ReaderStep, PrepareStep, RecoverStep, ClientSide


\* Every step keeps the request-response discipline of a control connection.
LEMMA StepConnection == ASSUME SeamTypes, ThreadInv, ConnectionInv, SeamNext
    PROVE ConnectionInv'
<1>0. /\ thread \in [Clients -> ThreadControl] /\ client \in [Clients -> ClientControl] /\ NoClient \notin Clients
      /\ linked \in [Clients -> BOOLEAN] /\ wire \in [Clients -> Wires] /\ owns \in [Clients -> BOOLEAN]
  BY NamesAssumption DEF SeamTypes, NamesAssumption
<1> USE DEF ConnectionInv, Requests, store, gate, threads, clients
<1>1. ASSUME BeginRequest PROVE ConnectionInv'
  BY <1>0, <1>1 DEF BeginRequest
<1>2. ASSUME CompleteRequest PROVE ConnectionInv'
  BY <1>0, <1>2 DEF CompleteRequest
<1>3. ASSUME RegisterBuilder PROVE ConnectionInv'
  BY <1>0, <1>3 DEF RegisterBuilder
<1>4. ASSUME UnregisterBuilder PROVE ConnectionInv'
  BY <1>0, <1>4 DEF UnregisterBuilder
<1>5. ASSUME NEW r \in Readers, OpenBegin(r) PROVE ConnectionInv'
  BY <1>0, <1>5 DEF OpenBegin
<1>6. ASSUME NEW r \in Readers, OpenFactory(r) PROVE ConnectionInv'
  BY <1>0, <1>6 DEF OpenFactory, SharedGranted
<1>7. ASSUME NEW r \in Readers, OpenRegister(r) PROVE ConnectionInv'
  BY <1>0, <1>7 DEF OpenRegister
<1>8. ASSUME NEW r \in Readers, OpenReject(r) PROVE ConnectionInv'
  BY <1>0, <1>8 DEF OpenReject, CloseHandles, NoSeamFault, SeamFault
<1>9. ASSUME NEW r \in Readers, ReaderCloses(r) PROVE ConnectionInv'
  BY <1>0, <1>9 DEF ReaderCloses, CloseHandles
<1>10. ASSUME NEW c \in Clients, Prepare(c) PROVE ConnectionInv'
  BY <1>0, <1>10 DEF Prepare, Answer, ThreadGoto, PrepareUnchanged
<1>11. ASSUME NEW c \in Clients, DrainRequests(c) PROVE ConnectionInv'
  BY <1>0, <1>11 DEF DrainRequests, Drain, ThreadGoto, Answer, PrepareFailure, PrepareUnchanged, CloseHandles
<1>12. ASSUME NEW c \in Clients, StopBuilder(c) PROVE ConnectionInv'
  BY <1>0, <1>12 DEF StopBuilder, NoSeamFault, ThreadGoto, PrepareFailure, SeamFault, PrepareUnchanged,
     CloseHandles, Answer
<1>13. ASSUME NEW c \in Clients, CloseFactHandle(c) PROVE ConnectionInv'
  BY <1>0, <1>13 DEF CloseFactHandle, NoSeamFault, ThreadGoto, CloseHandles, SeamFault, PrepareFailure,
     PrepareUnchanged, Answer
<1>14. ASSUME NEW c \in Clients, DrainAgain(c) PROVE ConnectionInv'
  BY <1>0, <1>14 DEF DrainAgain, Drain, ThreadGoto, Answer, PrepareFailure, PrepareUnchanged, CloseHandles
<1>15. ASSUME NEW c \in Clients, ReadIdentity(c) PROVE ConnectionInv'
  BY <1>0, <1>15 DEF ReadIdentity, SharedGranted, NoSeamFault, PrepareFailure, SeamFault, ThreadGoto,
     PrepareUnchanged, CloseHandles, Answer
<1>16. ASSUME NEW c \in Clients, PublishPrepared(c) PROVE ConnectionInv'
  BY <1>0, <1>16 DEF PublishPrepared, Answer, PrepareUnchanged, ThreadGoto
<1>17. ASSUME NEW c \in Clients, AssertPrepared(c) PROVE ConnectionInv'
  BY <1>0, <1>17 DEF AssertPrepared, Answer, ThreadGoto
<1>18. ASSUME NEW c \in Clients, Reopen(c) PROVE ConnectionInv'
  BY <1>0, <1>18 DEF Reopen, ThreadGoto, Answer
<1>19. ASSUME NEW c \in Clients, LeaseLost(c) PROVE ConnectionInv'
  BY <1>0, <1>19 DEF LeaseLost, ThreadGoto
<1>20. ASSUME NEW c \in Clients, Recover(c) PROVE ConnectionInv'
  BY <1>0, <1>20 DEF Recover, Block, ThreadGoto, RecoverUnchanged, AnswerRecover, Answer
<1>21. ASSUME NEW c \in Clients, RecoverAbsent(c) PROVE ConnectionInv'
  BY <1>0, <1>21 DEF RecoverAbsent, SharedGranted, NoSeamFault, ThreadGoto, SeamFault, Serve, Block,
     RecoverUnchanged, AnswerRecover, Answer
<1>22. ASSUME NEW c \in Clients, RecoverOpen(c) PROVE ConnectionInv'
  BY <1>0, <1>22 DEF RecoverOpen, SharedGranted, NoSeamFault, ThreadGoto, SeamFault, Block,
     RecoverUnchanged, AnswerRecover, Answer
<1>23. ASSUME NEW c \in Clients, RecoverPublish(c) PROVE ConnectionInv'
  BY <1>0, <1>23 DEF RecoverPublish, CloseHandles, OwnHandle, Block, Serve, ThreadGoto, RecoverUnchanged,
     AnswerRecover, Answer
<1>24. ASSUME NEW c \in Clients, Rebuild(c) PROVE ConnectionInv'
  BY <1>0, <1>24 DEF Rebuild, NoSeamFault, AnswerRecover, SeamFault, CloseHandles, Block, RecoverUnchanged,
     Answer, ThreadGoto
<1>25. ASSUME NEW c \in Clients, CallPrepare(c) PROVE ConnectionInv'
  BY <1>0, <1>25 DEF CallPrepare, ClientGoto, Send, ClientUnchanged
<1>26. ASSUME NEW c \in Clients, PrepareReturns(c) PROVE ConnectionInv'
  BY <1>0, <1>26 DEF PrepareReturns, ClientGoto, Send, Failed, Leave, ClientUnchanged
<1>27. ASSUME NEW c \in Clients, AssertReturns(c, "assert", "acquire", "reopen") PROVE ConnectionInv'
  BY <1>0, <1>27 DEF AssertReturns, ClientGoto, Failed, ClientUnchanged
<1>28. ASSUME NEW c \in Clients, AcquireExclusive(c) PROVE ConnectionInv'
  BY <1>0, <1>28 DEF AcquireExclusive, ClientGoto, Send, ClientUnchanged
<1>29. ASSUME NEW c \in Clients, AssertReturns(c, "assert_again", "checkpoint", "release") PROVE ConnectionInv'
  BY <1>0, <1>29 DEF AssertReturns, ClientGoto, Failed, ClientUnchanged
<1>30. ASSUME NEW c \in Clients, Checkpoint(c) PROVE ConnectionInv'
  BY <1>0, <1>30 DEF Checkpoint, NoSeamFault, ClientGoto, SeamFault, ClientUnchanged
<1>31. ASSUME NEW c \in Clients, UnlinkSidecars(c) PROVE ConnectionInv'
  BY <1>0, <1>31 DEF UnlinkSidecars, NoSeamFault, ClientGoto, SeamFault, ClientUnchanged
<1>32. ASSUME NEW c \in Clients, Rename(c) PROVE ConnectionInv'
  BY <1>0, <1>32 DEF Rename, NoSeamFault, ClientGoto, Send, SeamFault, ClientUnchanged
<1>33. ASSUME NEW c \in Clients, AssertReturns(c, "assert_after", "release", "release") PROVE ConnectionInv'
  BY <1>0, <1>33 DEF AssertReturns, ClientGoto, Failed, ClientUnchanged
<1>34. ASSUME NEW c \in Clients, ReleaseExclusive(c) PROVE ConnectionInv'
  BY <1>0, <1>34 DEF ReleaseExclusive, ClientGoto, ClientUnchanged
<1>35. ASSUME NEW c \in Clients, CallReopen(c) PROVE ConnectionInv'
  BY <1>0, <1>35 DEF CallReopen, Leave, ClientGoto, Send, ClientUnchanged
<1>36. ASSUME NEW c \in Clients, ReopenReturns(c) PROVE ConnectionInv'
  BY <1>0, <1>36 DEF ReopenReturns, Leave, ClientUnchanged, ClientGoto
<1>37. ASSUME NEW c \in Clients, ClientDies(c) PROVE ConnectionInv'
  BY <1>0, <1>37 DEF ClientDies, ClientGoto
<1>38. ASSUME NEW c \in Clients, FlockReleased(c) PROVE ConnectionInv'
  BY <1>0, <1>38 DEF FlockReleased
<1>39. ASSUME CompleteRead PROVE ConnectionInv'
  BY <1>0, <1>39 DEF CompleteRead, NoSeamFault, CloseHandles, NoRecovery, SharedGranted, SeamFault,
     CompleteUnchanged
<1>40. ASSUME CompletePublish PROVE ConnectionInv'
  BY <1>0, <1>40 DEF CompletePublish, NoRecovery, CloseHandles, CompleteUnchanged
<1>41. ASSUME DaemonStart PROVE ConnectionInv'
  BY <1>0, <1>41 DEF DaemonStart, NoSeamFault, SharedGranted, SeamFault
<1>42. ASSUME CloseBegin PROVE ConnectionInv'
  BY <1>0, <1>42 DEF CloseBegin
<1>43. ASSUME CloseEnd PROVE ConnectionInv'
  BY <1>0, <1>43 DEF CloseEnd, CloseHandles
<1>44. ASSUME DaemonCrash PROVE ConnectionInv'
  BY <1>0, <1>44 DEF DaemonCrash, NoRecovery
<1>45. ASSUME RecorderWrites PROVE ConnectionInv'
  BY <1>0, <1>45 DEF RecorderWrites, SharedGranted
<1> QED
  BY <1>1, <1>2, <1>3, <1>4, <1>5, <1>6, <1>7, <1>8, <1>9, <1>10, <1>11, <1>12, <1>13, <1>14, <1>15, <1>16,
     <1>17, <1>18, <1>19, <1>20, <1>21, <1>22, <1>23, <1>24, <1>25, <1>26, <1>27, <1>28, <1>29, <1>30,
     <1>31, <1>32, <1>33, <1>34, <1>35, <1>36, <1>37, <1>38, <1>39, <1>40, <1>41, <1>42, <1>43, <1>44, <1>45
     DEF SeamNext, ReaderStep, PrepareStep, RecoverStep, ClientStep


\* Every step keeps what assert_prepared told a client, until that client
\* reopens or the daemon dies.
LEMMA StepHeld == ASSUME SeamTypes, LockInv, ThreadInv, QuietInv, ConnectionInv, HeldInv, SeamNext
    PROVE HeldInv'
<1>0. /\ thread \in [Clients -> ThreadControl] /\ client \in [Clients -> ClientControl] /\ NoClient \notin Clients
      /\ linked \in [Clients -> BOOLEAN] /\ wire \in [Clients -> Wires] /\ requests \in Nat
      /\ opener \in [Readers -> ReaderControl]
      /\ \A c, d \in Clients : client[c] \in UnderLease /\ client[d] \in UnderLease => c = d
  BY NamesAssumption DEF SeamTypes, NamesAssumption, LockInv
<1> USE DEF HeldInv, Held, ConnectionInv, ThreadInv, AllIdle, InFlight, QuietInv, PrepareControl,
   RecoverControl, UnderLease, Replacing, Requests, store, gate, threads, clients
<1>1. ASSUME BeginRequest PROVE HeldInv'
  BY <1>0, <1>1 DEF BeginRequest
<1>2. ASSUME CompleteRequest PROVE HeldInv'
  BY <1>0, <1>2 DEF CompleteRequest
<1>3. ASSUME RegisterBuilder PROVE HeldInv'
  BY <1>0, <1>3 DEF RegisterBuilder
<1>4. ASSUME UnregisterBuilder PROVE HeldInv'
  BY <1>0, <1>4 DEF UnregisterBuilder
<1>5. ASSUME NEW r \in Readers, OpenBegin(r) PROVE HeldInv'
  BY <1>0, <1>5 DEF OpenBegin
<1>6. ASSUME NEW r \in Readers, OpenFactory(r) PROVE HeldInv'
  BY <1>0, <1>6 DEF OpenFactory, SharedGranted
<1>7. ASSUME NEW r \in Readers, OpenRegister(r) PROVE HeldInv'
  BY <1>0, <1>7 DEF OpenRegister
<1>8. ASSUME NEW r \in Readers, OpenReject(r) PROVE HeldInv'
  BY <1>0, <1>8 DEF OpenReject, CloseHandles, NoSeamFault, SeamFault
<1>9. ASSUME NEW r \in Readers, ReaderCloses(r) PROVE HeldInv'
  BY <1>0, <1>9 DEF ReaderCloses, CloseHandles
<1>10. ASSUME NEW c \in Clients, Prepare(c) PROVE HeldInv'
  BY <1>0, <1>10 DEF Prepare, Answer, ThreadGoto, PrepareUnchanged
<1>11. ASSUME NEW c \in Clients, DrainRequests(c) PROVE HeldInv'
  BY <1>0, <1>11 DEF DrainRequests, Drain, ThreadGoto, Answer, PrepareFailure, PrepareUnchanged, CloseHandles
<1>12. ASSUME NEW c \in Clients, StopBuilder(c) PROVE HeldInv'
  BY <1>0, <1>12 DEF StopBuilder, NoSeamFault, ThreadGoto, PrepareFailure, SeamFault, PrepareUnchanged,
     CloseHandles, Answer
<1>13. ASSUME NEW c \in Clients, CloseFactHandle(c) PROVE HeldInv'
  BY <1>0, <1>13 DEF CloseFactHandle, NoSeamFault, ThreadGoto, CloseHandles, SeamFault, PrepareFailure,
     PrepareUnchanged, Answer
<1>14. ASSUME NEW c \in Clients, DrainAgain(c) PROVE HeldInv'
  BY <1>0, <1>14 DEF DrainAgain, Drain, ThreadGoto, Answer, PrepareFailure, PrepareUnchanged, CloseHandles
<1>15. ASSUME NEW c \in Clients, ReadIdentity(c) PROVE HeldInv'
  BY <1>0, <1>15 DEF ReadIdentity, SharedGranted, NoSeamFault, PrepareFailure, SeamFault, ThreadGoto,
     PrepareUnchanged, CloseHandles, Answer
<1>16. ASSUME NEW c \in Clients, PublishPrepared(c) PROVE HeldInv'
  BY <1>0, <1>16 DEF PublishPrepared, Answer, PrepareUnchanged, ThreadGoto
<1>17. ASSUME NEW c \in Clients, AssertPrepared(c) PROVE HeldInv'
  BY <1>0, <1>17 DEF AssertPrepared, Answer, ThreadGoto
<1>18. ASSUME NEW c \in Clients, Reopen(c) PROVE HeldInv'
  BY <1>0, <1>18 DEF Reopen, ThreadGoto, Answer
<1>19. ASSUME NEW c \in Clients, LeaseLost(c) PROVE HeldInv'
  BY <1>0, <1>19 DEF LeaseLost, ThreadGoto
<1>20. ASSUME NEW c \in Clients, Recover(c) PROVE HeldInv'
  BY <1>0, <1>20 DEF Recover, Block, ThreadGoto, RecoverUnchanged, AnswerRecover, Answer
<1>21. ASSUME NEW c \in Clients, RecoverAbsent(c) PROVE HeldInv'
  BY <1>0, <1>21 DEF RecoverAbsent, SharedGranted, NoSeamFault, ThreadGoto, SeamFault, Serve, Block,
     RecoverUnchanged, AnswerRecover, Answer
<1>22. ASSUME NEW c \in Clients, RecoverOpen(c) PROVE HeldInv'
  BY <1>0, <1>22 DEF RecoverOpen, SharedGranted, NoSeamFault, ThreadGoto, SeamFault, Block,
     RecoverUnchanged, AnswerRecover, Answer
<1>23. ASSUME NEW c \in Clients, RecoverPublish(c) PROVE HeldInv'
  BY <1>0, <1>23 DEF RecoverPublish, CloseHandles, OwnHandle, Block, Serve, ThreadGoto, RecoverUnchanged,
     AnswerRecover, Answer
<1>24. ASSUME NEW c \in Clients, Rebuild(c) PROVE HeldInv'
  BY <1>0, <1>24 DEF Rebuild, NoSeamFault, AnswerRecover, SeamFault, CloseHandles, Block, RecoverUnchanged,
     Answer, ThreadGoto
<1>25. ASSUME NEW c \in Clients, CallPrepare(c) PROVE HeldInv'
  BY <1>0, <1>25 DEF CallPrepare, ClientGoto, Send, ClientUnchanged
<1>26. ASSUME NEW c \in Clients, PrepareReturns(c) PROVE HeldInv'
  BY <1>0, <1>26 DEF PrepareReturns, ClientGoto, Send, Failed, Leave, ClientUnchanged
<1>27. ASSUME NEW c \in Clients, AssertReturns(c, "assert", "acquire", "reopen") PROVE HeldInv'
  BY <1>0, <1>27 DEF AssertReturns, ClientGoto, Failed, ClientUnchanged
<1>28. ASSUME NEW c \in Clients, AcquireExclusive(c) PROVE HeldInv'
  BY <1>0, <1>28 DEF AcquireExclusive, ClientGoto, Send, ClientUnchanged
<1>29. ASSUME NEW c \in Clients, AssertReturns(c, "assert_again", "checkpoint", "release") PROVE HeldInv'
  BY <1>0, <1>29 DEF AssertReturns, ClientGoto, Failed, ClientUnchanged
<1>30. ASSUME NEW c \in Clients, Checkpoint(c) PROVE HeldInv'
  <2>1. UNCHANGED <<up, thread, recovery, state, owner, closed, requests, builders, opener, wire>>
    BY <1>30 DEF Checkpoint, NoSeamFault, ClientGoto, SeamFault, ClientUnchanged
  <2>2. \A d \in Clients : Held(d) => Held(d)'
    BY <2>1
  <2>3. \A d \in Clients : client'[d] \in Replacing => client[d] \in Replacing
    BY <1>0, <1>30 DEF Checkpoint, NoSeamFault, ClientGoto, SeamFault, ClientUnchanged
  <2>4. \A d \in Clients : client'[d] \in Replacing \cup {"assert_again"} => client[d] \in Replacing \cup {"assert_again"}
    BY <1>0, <1>30 DEF Checkpoint, NoSeamFault, ClientGoto, SeamFault, ClientUnchanged
  <2> HIDE DEF Held, Replacing
  <2> QED BY <2>1, <2>2, <2>3, <2>4
<1>31. ASSUME NEW c \in Clients, UnlinkSidecars(c) PROVE HeldInv'
  BY <1>0, <1>31 DEF UnlinkSidecars, NoSeamFault, ClientGoto, SeamFault, ClientUnchanged
<1>32. ASSUME NEW c \in Clients, Rename(c) PROVE HeldInv'
  BY <1>0, <1>32 DEF Rename, NoSeamFault, ClientGoto, Send, SeamFault, ClientUnchanged
<1>33. ASSUME NEW c \in Clients, AssertReturns(c, "assert_after", "release", "release") PROVE HeldInv'
  BY <1>0, <1>33 DEF AssertReturns, ClientGoto, Failed, ClientUnchanged
<1>34. ASSUME NEW c \in Clients, ReleaseExclusive(c) PROVE HeldInv'
  BY <1>0, <1>34 DEF ReleaseExclusive, ClientGoto, ClientUnchanged
<1>35. ASSUME NEW c \in Clients, CallReopen(c) PROVE HeldInv'
  BY <1>0, <1>35 DEF CallReopen, Leave, ClientGoto, Send, ClientUnchanged
<1>36. ASSUME NEW c \in Clients, ReopenReturns(c) PROVE HeldInv'
  BY <1>0, <1>36 DEF ReopenReturns, Leave, ClientUnchanged, ClientGoto
<1>37. ASSUME NEW c \in Clients, ClientDies(c) PROVE HeldInv'
  BY <1>0, <1>37 DEF ClientDies, ClientGoto
<1>38. ASSUME NEW c \in Clients, FlockReleased(c) PROVE HeldInv'
  BY <1>0, <1>38 DEF FlockReleased
<1>39. ASSUME CompleteRead PROVE HeldInv'
  BY <1>0, <1>39 DEF CompleteRead, NoSeamFault, CloseHandles, NoRecovery, SharedGranted, SeamFault,
     CompleteUnchanged
<1>40. ASSUME CompletePublish PROVE HeldInv'
  BY <1>0, <1>40 DEF CompletePublish, NoRecovery, CloseHandles, CompleteUnchanged
<1>41. ASSUME DaemonStart PROVE HeldInv'
  BY <1>0, <1>41 DEF DaemonStart, NoSeamFault, SharedGranted, SeamFault
<1>42. ASSUME CloseBegin PROVE HeldInv'
  BY <1>0, <1>42 DEF CloseBegin
<1>43. ASSUME CloseEnd PROVE HeldInv'
  BY <1>0, <1>43 DEF CloseEnd, CloseHandles
<1>44. ASSUME DaemonCrash PROVE HeldInv'
  BY <1>0, <1>44 DEF DaemonCrash, NoRecovery
<1>45. ASSUME RecorderWrites PROVE HeldInv'
  BY <1>0, <1>45 DEF RecorderWrites, SharedGranted
<1> QED
  BY <1>1, <1>2, <1>3, <1>4, <1>5, <1>6, <1>7, <1>8, <1>9, <1>10, <1>11, <1>12, <1>13, <1>14, <1>15, <1>16,
     <1>17, <1>18, <1>19, <1>20, <1>21, <1>22, <1>23, <1>24, <1>25, <1>26, <1>27, <1>28, <1>29, <1>30,
     <1>31, <1>32, <1>33, <1>34, <1>35, <1>36, <1>37, <1>38, <1>39, <1>40, <1>41, <1>42, <1>43, <1>44, <1>45
     DEF SeamNext, ReaderStep, PrepareStep, RecoverStep, ClientStep


\* Every step keeps a restarted daemon ignorant of the epoch while the client
\* of its predecessor replaces the store: the flock is still held.
LEMMA StepOrphan == ASSUME SeamTypes, LockInv, ThreadInv, ConnectionInv, HeldInv, OrphanInv, SeamNext
    PROVE OrphanInv'
<1>0. /\ thread \in [Clients -> ThreadControl] /\ client \in [Clients -> ClientControl] /\ NoClient \notin Clients
      /\ wire \in [Clients -> Wires] /\ requests \in Nat /\ opener \in [Readers -> ReaderControl]
      /\ recovery \in Recoveries
      /\ \A c \in Clients : client[c] \in UnderLease => exclusive = c
  BY NamesAssumption DEF SeamTypes, NamesAssumption, LockInv
<1> USE DEF OrphanInv, ThreadInv, AllIdle, InFlight, ConnectionInv, HeldInv, UnderLease, Replacing,
   Requests, Exists, NoEpoch, store, gate, threads, clients
<1>1. ASSUME BeginRequest PROVE OrphanInv'
  BY <1>0, <1>1 DEF BeginRequest
<1>2. ASSUME CompleteRequest PROVE OrphanInv'
  BY <1>0, <1>2 DEF CompleteRequest
<1>3. ASSUME RegisterBuilder PROVE OrphanInv'
  BY <1>0, <1>3 DEF RegisterBuilder
<1>4. ASSUME UnregisterBuilder PROVE OrphanInv'
  BY <1>0, <1>4 DEF UnregisterBuilder
<1>5. ASSUME NEW r \in Readers, OpenBegin(r) PROVE OrphanInv'
  BY <1>0, <1>5 DEF OpenBegin
<1>6. ASSUME NEW r \in Readers, OpenFactory(r) PROVE OrphanInv'
  BY <1>0, <1>6 DEF OpenFactory, SharedGranted
<1>7. ASSUME NEW r \in Readers, OpenRegister(r) PROVE OrphanInv'
  BY <1>0, <1>7 DEF OpenRegister
<1>8. ASSUME NEW r \in Readers, OpenReject(r) PROVE OrphanInv'
  BY <1>0, <1>8 DEF OpenReject, CloseHandles, NoSeamFault, SeamFault
<1>9. ASSUME NEW r \in Readers, ReaderCloses(r) PROVE OrphanInv'
  BY <1>0, <1>9 DEF ReaderCloses, CloseHandles
<1>10. ASSUME NEW c \in Clients, Prepare(c) PROVE OrphanInv'
  BY <1>0, <1>10 DEF Prepare, Answer, ThreadGoto, PrepareUnchanged
<1>11. ASSUME NEW c \in Clients, DrainRequests(c) PROVE OrphanInv'
  BY <1>0, <1>11 DEF DrainRequests, Drain, ThreadGoto, Answer, PrepareFailure, PrepareUnchanged, CloseHandles
<1>12. ASSUME NEW c \in Clients, StopBuilder(c) PROVE OrphanInv'
  BY <1>0, <1>12 DEF StopBuilder, NoSeamFault, ThreadGoto, PrepareFailure, SeamFault, PrepareUnchanged,
     CloseHandles, Answer
<1>13. ASSUME NEW c \in Clients, CloseFactHandle(c) PROVE OrphanInv'
  BY <1>0, <1>13 DEF CloseFactHandle, NoSeamFault, ThreadGoto, CloseHandles, SeamFault, PrepareFailure,
     PrepareUnchanged, Answer
<1>14. ASSUME NEW c \in Clients, DrainAgain(c) PROVE OrphanInv'
  BY <1>0, <1>14 DEF DrainAgain, Drain, ThreadGoto, Answer, PrepareFailure, PrepareUnchanged, CloseHandles
<1>15. ASSUME NEW c \in Clients, ReadIdentity(c) PROVE OrphanInv'
  BY <1>0, <1>15 DEF ReadIdentity, SharedGranted, NoSeamFault, PrepareFailure, SeamFault, ThreadGoto,
     PrepareUnchanged, CloseHandles, Answer
<1>16. ASSUME NEW c \in Clients, PublishPrepared(c) PROVE OrphanInv'
  BY <1>0, <1>16 DEF PublishPrepared, Answer, PrepareUnchanged, ThreadGoto
<1>17. ASSUME NEW c \in Clients, AssertPrepared(c) PROVE OrphanInv'
  BY <1>0, <1>17 DEF AssertPrepared, Answer, ThreadGoto
<1>18. ASSUME NEW c \in Clients, Reopen(c) PROVE OrphanInv'
  BY <1>0, <1>18 DEF Reopen, ThreadGoto, Answer
<1>19. ASSUME NEW c \in Clients, LeaseLost(c) PROVE OrphanInv'
  BY <1>0, <1>19 DEF LeaseLost, ThreadGoto
<1>20. ASSUME NEW c \in Clients, Recover(c) PROVE OrphanInv'
  BY <1>0, <1>20 DEF Recover, Block, ThreadGoto, RecoverUnchanged, AnswerRecover, Answer
<1>21. ASSUME NEW c \in Clients, RecoverAbsent(c) PROVE OrphanInv'
  BY <1>0, <1>21 DEF RecoverAbsent, SharedGranted, NoSeamFault, ThreadGoto, SeamFault, Serve, Block,
     RecoverUnchanged, AnswerRecover, Answer
<1>22. ASSUME NEW c \in Clients, RecoverOpen(c) PROVE OrphanInv'
  BY <1>0, <1>22 DEF RecoverOpen, SharedGranted, NoSeamFault, ThreadGoto, SeamFault, Block,
     RecoverUnchanged, AnswerRecover, Answer
<1>23. ASSUME NEW c \in Clients, RecoverPublish(c) PROVE OrphanInv'
  BY <1>0, <1>23 DEF RecoverPublish, CloseHandles, OwnHandle, Block, Serve, ThreadGoto, RecoverUnchanged,
     AnswerRecover, Answer
<1>24. ASSUME NEW c \in Clients, Rebuild(c) PROVE OrphanInv'
  BY <1>0, <1>24 DEF Rebuild, NoSeamFault, AnswerRecover, SeamFault, CloseHandles, Block, RecoverUnchanged,
     Answer, ThreadGoto
<1>25. ASSUME NEW c \in Clients, CallPrepare(c) PROVE OrphanInv'
  BY <1>0, <1>25 DEF CallPrepare, ClientGoto, Send, ClientUnchanged
<1>26. ASSUME NEW c \in Clients, PrepareReturns(c) PROVE OrphanInv'
  BY <1>0, <1>26 DEF PrepareReturns, ClientGoto, Send, Failed, Leave, ClientUnchanged
<1>27. ASSUME NEW c \in Clients, AssertReturns(c, "assert", "acquire", "reopen") PROVE OrphanInv'
  BY <1>0, <1>27 DEF AssertReturns, ClientGoto, Failed, ClientUnchanged
<1>28. ASSUME NEW c \in Clients, AcquireExclusive(c) PROVE OrphanInv'
  BY <1>0, <1>28 DEF AcquireExclusive, ClientGoto, Send, ClientUnchanged
<1>29. ASSUME NEW c \in Clients, AssertReturns(c, "assert_again", "checkpoint", "release") PROVE OrphanInv'
  BY <1>0, <1>29 DEF AssertReturns, ClientGoto, Failed, ClientUnchanged
<1>30. ASSUME NEW c \in Clients, Checkpoint(c) PROVE OrphanInv'
  <2>1. UNCHANGED <<gate, threads, epoch, wire>>
    BY <1>30 DEF Checkpoint, NoSeamFault, ClientGoto, SeamFault, ClientUnchanged
  <2>2. \A d \in Clients : client'[d] \in Replacing => client[d] \in Replacing
    BY <1>0, <1>30 DEF Checkpoint, NoSeamFault, ClientGoto, SeamFault, ClientUnchanged
  <2> HIDE DEF Replacing
  <2> QED BY <2>1, <2>2
<1>31. ASSUME NEW c \in Clients, UnlinkSidecars(c) PROVE OrphanInv'
  BY <1>0, <1>31 DEF UnlinkSidecars, NoSeamFault, ClientGoto, SeamFault, ClientUnchanged
<1>32. ASSUME NEW c \in Clients, Rename(c) PROVE OrphanInv'
  BY <1>0, <1>32 DEF Rename, NoSeamFault, ClientGoto, Send, SeamFault, ClientUnchanged
<1>33. ASSUME NEW c \in Clients, AssertReturns(c, "assert_after", "release", "release") PROVE OrphanInv'
  BY <1>0, <1>33 DEF AssertReturns, ClientGoto, Failed, ClientUnchanged
<1>34. ASSUME NEW c \in Clients, ReleaseExclusive(c) PROVE OrphanInv'
  BY <1>0, <1>34 DEF ReleaseExclusive, ClientGoto, ClientUnchanged
<1>35. ASSUME NEW c \in Clients, CallReopen(c) PROVE OrphanInv'
  BY <1>0, <1>35 DEF CallReopen, Leave, ClientGoto, Send, ClientUnchanged
<1>36. ASSUME NEW c \in Clients, ReopenReturns(c) PROVE OrphanInv'
  BY <1>0, <1>36 DEF ReopenReturns, Leave, ClientUnchanged, ClientGoto
<1>37. ASSUME NEW c \in Clients, ClientDies(c) PROVE OrphanInv'
  BY <1>0, <1>37 DEF ClientDies, ClientGoto
<1>38. ASSUME NEW c \in Clients, FlockReleased(c) PROVE OrphanInv'
  BY <1>0, <1>38 DEF FlockReleased
<1>39. ASSUME CompleteRead PROVE OrphanInv'
  <2>1. recovery'.target \in {NoEpoch, recovery.target} /\ recovery'.seen \in {NoEpoch, epoch}
    BY <1>39, CompleteReadSees
  <2>2. recovery.pc # "none" /\ UNCHANGED <<epoch, client, wire, found, preparedEpoch, activeEpoch, targetEpoch, thread>>
    BY <1>39 DEF CompleteRead, NoSeamFault, CloseHandles, NoRecovery, SharedGranted, SeamFault,
       CompleteUnchanged
  <2>3. state' \in {state, "blocked"}
    BY <1>39 DEF CompleteRead, NoSeamFault, CloseHandles, NoRecovery, SharedGranted, SeamFault,
       CompleteUnchanged
  <2> QED BY <1>0, <2>1, <2>2, <2>3
<1>40. ASSUME CompletePublish PROVE OrphanInv'
  BY <1>0, <1>40 DEF CompletePublish, NoRecovery, CloseHandles, CompleteUnchanged
<1>41. ASSUME DaemonStart PROVE OrphanInv'
  BY <1>0, <1>41 DEF DaemonStart, NoSeamFault, SharedGranted, SeamFault
<1>42. ASSUME CloseBegin PROVE OrphanInv'
  BY <1>0, <1>42 DEF CloseBegin
<1>43. ASSUME CloseEnd PROVE OrphanInv'
  BY <1>0, <1>43 DEF CloseEnd, CloseHandles
<1>44. ASSUME DaemonCrash PROVE OrphanInv'
  BY <1>0, <1>44 DEF DaemonCrash, NoRecovery
<1>45. ASSUME RecorderWrites PROVE OrphanInv'
  BY <1>0, <1>45 DEF RecorderWrites, SharedGranted
<1> QED
  BY <1>1, <1>2, <1>3, <1>4, <1>5, <1>6, <1>7, <1>8, <1>9, <1>10, <1>11, <1>12, <1>13, <1>14, <1>15, <1>16,
     <1>17, <1>18, <1>19, <1>20, <1>21, <1>22, <1>23, <1>24, <1>25, <1>26, <1>27, <1>28, <1>29, <1>30,
     <1>31, <1>32, <1>33, <1>34, <1>35, <1>36, <1>37, <1>38, <1>39, <1>40, <1>41, <1>42, <1>43, <1>44, <1>45
     DEF SeamNext, ReaderStep, PrepareStep, RecoverStep, ClientStep


\* Every step keeps what was read of the epoch on disk true of it.
LEMMA StepEpoch == ASSUME SeamTypes, LockInv, ThreadInv, HeldInv, OrphanInv, EpochInv, SeamNext
    PROVE EpochInv'
<1>0. /\ thread \in [Clients -> ThreadControl] /\ client \in [Clients -> ClientControl] /\ NoClient \notin Clients
      /\ wire \in [Clients -> Wires] /\ requests \in Nat /\ opener \in [Readers -> ReaderControl]
      /\ recovery \in Recoveries
      /\ \A c \in Clients : client[c] \in UnderLease => exclusive = c
  BY NamesAssumption DEF SeamTypes, NamesAssumption, LockInv
<1> USE DEF EpochInv, EpochProven, ThreadInv, AllIdle, HeldInv, Held, OrphanInv, UnderLease, Replacing,
   Exists, NoEpoch, store, gate, threads, clients
<1>1. ASSUME BeginRequest PROVE EpochInv'
  BY <1>0, <1>1 DEF BeginRequest
<1>2. ASSUME CompleteRequest PROVE EpochInv'
  BY <1>0, <1>2 DEF CompleteRequest
<1>3. ASSUME RegisterBuilder PROVE EpochInv'
  BY <1>0, <1>3 DEF RegisterBuilder
<1>4. ASSUME UnregisterBuilder PROVE EpochInv'
  BY <1>0, <1>4 DEF UnregisterBuilder
<1>5. ASSUME NEW r \in Readers, OpenBegin(r) PROVE EpochInv'
  BY <1>0, <1>5 DEF OpenBegin
<1>6. ASSUME NEW r \in Readers, OpenFactory(r) PROVE EpochInv'
  BY <1>0, <1>6 DEF OpenFactory, SharedGranted
<1>7. ASSUME NEW r \in Readers, OpenRegister(r) PROVE EpochInv'
  BY <1>0, <1>7 DEF OpenRegister
<1>8. ASSUME NEW r \in Readers, OpenReject(r) PROVE EpochInv'
  BY <1>0, <1>8 DEF OpenReject, CloseHandles, NoSeamFault, SeamFault
<1>9. ASSUME NEW r \in Readers, ReaderCloses(r) PROVE EpochInv'
  BY <1>0, <1>9 DEF ReaderCloses, CloseHandles
<1>10. ASSUME NEW c \in Clients, Prepare(c) PROVE EpochInv'
  BY <1>0, <1>10 DEF Prepare, Answer, ThreadGoto, PrepareUnchanged
<1>11. ASSUME NEW c \in Clients, DrainRequests(c) PROVE EpochInv'
  BY <1>0, <1>11 DEF DrainRequests, Drain, ThreadGoto, Answer, PrepareFailure, PrepareUnchanged, CloseHandles
<1>12. ASSUME NEW c \in Clients, StopBuilder(c) PROVE EpochInv'
  BY <1>0, <1>12 DEF StopBuilder, NoSeamFault, ThreadGoto, PrepareFailure, SeamFault, PrepareUnchanged,
     CloseHandles, Answer
<1>13. ASSUME NEW c \in Clients, CloseFactHandle(c) PROVE EpochInv'
  BY <1>0, <1>13 DEF CloseFactHandle, NoSeamFault, ThreadGoto, CloseHandles, SeamFault, PrepareFailure,
     PrepareUnchanged, Answer
<1>14. ASSUME NEW c \in Clients, DrainAgain(c) PROVE EpochInv'
  BY <1>0, <1>14 DEF DrainAgain, Drain, ThreadGoto, Answer, PrepareFailure, PrepareUnchanged, CloseHandles
<1>15. ASSUME NEW c \in Clients, ReadIdentity(c) PROVE EpochInv'
  BY <1>0, <1>15 DEF ReadIdentity, SharedGranted, NoSeamFault, PrepareFailure, SeamFault, ThreadGoto,
     PrepareUnchanged, CloseHandles, Answer
<1>16. ASSUME NEW c \in Clients, PublishPrepared(c) PROVE EpochInv'
  BY <1>0, <1>16 DEF PublishPrepared, Answer, PrepareUnchanged, ThreadGoto
<1>17. ASSUME NEW c \in Clients, AssertPrepared(c) PROVE EpochInv'
  BY <1>0, <1>17 DEF AssertPrepared, Answer, ThreadGoto
<1>18. ASSUME NEW c \in Clients, Reopen(c) PROVE EpochInv'
  BY <1>0, <1>18 DEF Reopen, ThreadGoto, Answer
<1>19. ASSUME NEW c \in Clients, LeaseLost(c) PROVE EpochInv'
  BY <1>0, <1>19 DEF LeaseLost, ThreadGoto
<1>20. ASSUME NEW c \in Clients, Recover(c) PROVE EpochInv'
  BY <1>0, <1>20 DEF Recover, Block, ThreadGoto, RecoverUnchanged, AnswerRecover, Answer
<1>21. ASSUME NEW c \in Clients, RecoverAbsent(c) PROVE EpochInv'
  BY <1>0, <1>21 DEF RecoverAbsent, SharedGranted, NoSeamFault, ThreadGoto, SeamFault, Serve, Block,
     RecoverUnchanged, AnswerRecover, Answer
<1>22. ASSUME NEW c \in Clients, RecoverOpen(c) PROVE EpochInv'
  BY <1>0, <1>22 DEF RecoverOpen, SharedGranted, NoSeamFault, ThreadGoto, SeamFault, Block,
     RecoverUnchanged, AnswerRecover, Answer
<1>23. ASSUME NEW c \in Clients, RecoverPublish(c) PROVE EpochInv'
  BY <1>0, <1>23 DEF RecoverPublish, CloseHandles, OwnHandle, Block, Serve, ThreadGoto, RecoverUnchanged,
     AnswerRecover, Answer
<1>24. ASSUME NEW c \in Clients, Rebuild(c) PROVE EpochInv'
  BY <1>0, <1>24 DEF Rebuild, NoSeamFault, AnswerRecover, SeamFault, CloseHandles, Block, RecoverUnchanged,
     Answer, ThreadGoto
<1>25. ASSUME NEW c \in Clients, CallPrepare(c) PROVE EpochInv'
  BY <1>0, <1>25 DEF CallPrepare, ClientGoto, Send, ClientUnchanged
<1>26. ASSUME NEW c \in Clients, PrepareReturns(c) PROVE EpochInv'
  BY <1>0, <1>26 DEF PrepareReturns, ClientGoto, Send, Failed, Leave, ClientUnchanged
<1>27. ASSUME NEW c \in Clients, AssertReturns(c, "assert", "acquire", "reopen") PROVE EpochInv'
  BY <1>0, <1>27 DEF AssertReturns, ClientGoto, Failed, ClientUnchanged
<1>28. ASSUME NEW c \in Clients, AcquireExclusive(c) PROVE EpochInv'
  BY <1>0, <1>28 DEF AcquireExclusive, ClientGoto, Send, ClientUnchanged
<1>29. ASSUME NEW c \in Clients, AssertReturns(c, "assert_again", "checkpoint", "release") PROVE EpochInv'
  BY <1>0, <1>29 DEF AssertReturns, ClientGoto, Failed, ClientUnchanged
<1>30. ASSUME NEW c \in Clients, Checkpoint(c) PROVE EpochInv'
  BY <1>0, <1>30 DEF Checkpoint, NoSeamFault, ClientGoto, SeamFault, ClientUnchanged
<1>31. ASSUME NEW c \in Clients, UnlinkSidecars(c) PROVE EpochInv'
  BY <1>0, <1>31 DEF UnlinkSidecars, NoSeamFault, ClientGoto, SeamFault, ClientUnchanged
<1>32. ASSUME NEW c \in Clients, Rename(c) PROVE EpochInv'
  BY <1>0, <1>32 DEF Rename, NoSeamFault, ClientGoto, Send, SeamFault, ClientUnchanged
<1>33. ASSUME NEW c \in Clients, AssertReturns(c, "assert_after", "release", "release") PROVE EpochInv'
  BY <1>0, <1>33 DEF AssertReturns, ClientGoto, Failed, ClientUnchanged
<1>34. ASSUME NEW c \in Clients, ReleaseExclusive(c) PROVE EpochInv'
  BY <1>0, <1>34 DEF ReleaseExclusive, ClientGoto, ClientUnchanged
<1>35. ASSUME NEW c \in Clients, CallReopen(c) PROVE EpochInv'
  BY <1>0, <1>35 DEF CallReopen, Leave, ClientGoto, Send, ClientUnchanged
<1>36. ASSUME NEW c \in Clients, ReopenReturns(c) PROVE EpochInv'
  BY <1>0, <1>36 DEF ReopenReturns, Leave, ClientUnchanged, ClientGoto
<1>37. ASSUME NEW c \in Clients, ClientDies(c) PROVE EpochInv'
  BY <1>0, <1>37 DEF ClientDies, ClientGoto
<1>38. ASSUME NEW c \in Clients, FlockReleased(c) PROVE EpochInv'
  BY <1>0, <1>38 DEF FlockReleased
<1>39. ASSUME CompleteRead PROVE EpochInv'
  <2>1. recovery'.target \in {NoEpoch, recovery.target} /\ recovery'.seen \in {NoEpoch, epoch}
    BY <1>39, CompleteReadSees
  <2>2. recovery.pc # "none" /\ UNCHANGED <<epoch, client, wire, found, preparedEpoch, activeEpoch, targetEpoch, thread>>
    BY <1>39 DEF CompleteRead, NoSeamFault, CloseHandles, NoRecovery, SharedGranted, SeamFault,
       CompleteUnchanged
  <2>3. state' \in {state, "blocked"}
    BY <1>39 DEF CompleteRead, NoSeamFault, CloseHandles, NoRecovery, SharedGranted, SeamFault,
       CompleteUnchanged
  <2> QED BY <1>0, <2>1, <2>2, <2>3
<1>40. ASSUME CompletePublish PROVE EpochInv'
  BY <1>0, <1>40 DEF CompletePublish, NoRecovery, CloseHandles, CompleteUnchanged
<1>41. ASSUME DaemonStart PROVE EpochInv'
  BY <1>0, <1>41 DEF DaemonStart, NoSeamFault, SharedGranted, SeamFault
<1>42. ASSUME CloseBegin PROVE EpochInv'
  BY <1>0, <1>42 DEF CloseBegin
<1>43. ASSUME CloseEnd PROVE EpochInv'
  BY <1>0, <1>43 DEF CloseEnd, CloseHandles
<1>44. ASSUME DaemonCrash PROVE EpochInv'
  BY <1>0, <1>44 DEF DaemonCrash, NoRecovery
<1>45. ASSUME RecorderWrites PROVE EpochInv'
  BY <1>0, <1>45 DEF RecorderWrites, SharedGranted
<1> QED
  BY <1>1, <1>2, <1>3, <1>4, <1>5, <1>6, <1>7, <1>8, <1>9, <1>10, <1>11, <1>12, <1>13, <1>14, <1>15, <1>16,
     <1>17, <1>18, <1>19, <1>20, <1>21, <1>22, <1>23, <1>24, <1>25, <1>26, <1>27, <1>28, <1>29, <1>30,
     <1>31, <1>32, <1>33, <1>34, <1>35, <1>36, <1>37, <1>38, <1>39, <1>40, <1>41, <1>42, <1>43, <1>44, <1>45
     DEF SeamNext, ReaderStep, PrepareStep, RecoverStep, ClientStep


\* Every step keeps the files one store.
LEMMA StepStore == ASSUME SeamTypes, LockInv, StoreInv, SeamNext
    PROVE StoreInv'
<1>0. /\ thread \in [Clients -> ThreadControl] /\ client \in [Clients -> ClientControl] /\ NoClient \notin Clients
      /\ wire \in [Clients -> Wires] /\ requests \in Nat /\ opener \in [Readers -> ReaderControl]
      /\ recovery \in Recoveries
      /\ \A c \in Clients : client[c] \in UnderLease => exclusive = c
  BY NamesAssumption DEF SeamTypes, NamesAssumption, LockInv
<1> USE DEF StoreInv, UnderLease, Replacing, Exists, NoEpoch, store, gate, threads, clients
<1>1. ASSUME NEW c \in Clients, CallPrepare(c) PROVE StoreInv'
  BY <1>0, <1>1 DEF CallPrepare, ClientGoto, Send, ClientUnchanged
<1>2. ASSUME NEW c \in Clients, PrepareReturns(c) PROVE StoreInv'
  BY <1>0, <1>2 DEF PrepareReturns, ClientGoto, Send, Failed, Leave, ClientUnchanged
<1>3. ASSUME NEW c \in Clients, AssertReturns(c, "assert", "acquire", "reopen") PROVE StoreInv'
  BY <1>0, <1>3 DEF AssertReturns, ClientGoto, Failed, ClientUnchanged
<1>4. ASSUME NEW c \in Clients, AcquireExclusive(c) PROVE StoreInv'
  BY <1>0, <1>4 DEF AcquireExclusive, ClientGoto, Send, ClientUnchanged
<1>5. ASSUME NEW c \in Clients, AssertReturns(c, "assert_again", "checkpoint", "release") PROVE StoreInv'
  BY <1>0, <1>5 DEF AssertReturns, ClientGoto, Failed, ClientUnchanged
<1>6. ASSUME NEW c \in Clients, Checkpoint(c) PROVE StoreInv'
  BY <1>0, <1>6 DEF Checkpoint, NoSeamFault, ClientGoto, SeamFault, ClientUnchanged
<1>7. ASSUME NEW c \in Clients, UnlinkSidecars(c) PROVE StoreInv'
  BY <1>0, <1>7 DEF UnlinkSidecars, NoSeamFault, ClientGoto, SeamFault, ClientUnchanged
<1>8. ASSUME NEW c \in Clients, Rename(c) PROVE StoreInv'
  BY <1>0, <1>8 DEF Rename, NoSeamFault, ClientGoto, Send, SeamFault, ClientUnchanged
<1>9. ASSUME NEW c \in Clients, AssertReturns(c, "assert_after", "release", "release") PROVE StoreInv'
  BY <1>0, <1>9 DEF AssertReturns, ClientGoto, Failed, ClientUnchanged
<1>10. ASSUME NEW c \in Clients, ReleaseExclusive(c) PROVE StoreInv'
  BY <1>0, <1>10 DEF ReleaseExclusive, ClientGoto, ClientUnchanged
<1>11. ASSUME NEW c \in Clients, CallReopen(c) PROVE StoreInv'
  BY <1>0, <1>11 DEF CallReopen, Leave, ClientGoto, Send, ClientUnchanged
<1>12. ASSUME NEW c \in Clients, ReopenReturns(c) PROVE StoreInv'
  BY <1>0, <1>12 DEF ReopenReturns, Leave, ClientUnchanged, ClientGoto
<1>13. ASSUME NEW c \in Clients, ClientDies(c) PROVE StoreInv'
  BY <1>0, <1>13 DEF ClientDies, ClientGoto
<1>14. ASSUME NEW c \in Clients, FlockReleased(c) PROVE StoreInv'
  BY <1>0, <1>14 DEF FlockReleased
<1>15. ASSUME RecorderWrites PROVE StoreInv'
  BY <1>0, <1>15 DEF RecorderWrites, SharedGranted
<1>16. CASE DaemonStep
  BY <1>16, DaemonFrame
<1> QED
  BY <1>1, <1>2, <1>3, <1>4, <1>5, <1>6, <1>7, <1>8, <1>9, <1>10, <1>11, <1>12, <1>13, <1>14, <1>15, <1>16
     DEF SeamNext, ReaderStep, PrepareStep, RecoverStep, DaemonStep, ClientStep


\* The initial state satisfies the invariant.
LEMMA InitSeam == SeamInit => SeamInv
<1> SUFFICES ASSUME SeamInit PROVE SeamInv
  OBVIOUS
<1> USE DEF SeamInit
<1>1. recovery \in Recoveries /\ recovery.pc = "none" /\ recovery.target = NoEpoch /\ recovery.seen = NoEpoch
  BY RecoveryTypes DEF NoRecovery
<1>2. InFlight = {} /\ ~ Reopening /\ AllIdle
  BY DEF InFlight, Reopening, AllIdle
<1>3. Cardinality(InFlight) = 0
  BY <1>2, FS_EmptySet
<1>4. SeamTypes
  <2>1. thread \in [Clients -> ThreadControl] /\ client \in [Clients -> ClientControl]
    BY PointsKnown
  <2>2. wire \in [Clients -> Wires] /\ opener \in [Readers -> ReaderControl]
    BY PointsKnown
  <2>3. state \in CoordinatorStates
    BY StatesKnown
  <2>4. owns \in [Clients -> BOOLEAN] /\ linked \in [Clients -> BOOLEAN]
    OBVIOUS
  <2>5. minted \in Nat /\ NoEpoch \in Nat
    BY DEF NoEpoch
  <2> QED BY <1>1, <2>1, <2>2, <2>3, <2>4, <2>5 DEF SeamTypes
<1>5. LockInv
  BY DEF LockInv, UnderLease, Replacing
<1>6. ThreadInv
  BY <1>1, <1>2 DEF ThreadInv, AllIdle, PrepareControl, RecoverControl
<1>7. QuietInv
  BY <1>2, <1>3 DEF QuietInv, AllIdle
<1>8. ConnectionInv /\ HeldInv /\ OrphanInv
  BY DEF ConnectionInv, HeldInv, OrphanInv, Replacing
<1>9. EpochInv
  BY <1>1 DEF EpochInv, EpochProven
<1>10. StoreInv
  BY DEF StoreInv, Exists, NoEpoch
<1> QED BY <1>4, <1>5, <1>6, <1>7, <1>8, <1>9, <1>10 DEF SeamInv

\* The invariant reads nothing but the variables of the specification.
LEMMA StutterSeam == SeamInv /\ UNCHANGED seamVars => SeamInv'
<1> SUFFICES ASSUME SeamInv, UNCHANGED seamVars PROVE SeamInv'
  OBVIOUS
<1> USE DEF SeamInv, seamVars, store, gate, threads, clients
<1>1. InFlight' = InFlight /\ Reopening' = Reopening /\ AllIdle' = AllIdle /\ Exists' = Exists
  BY DEF InFlight, Reopening, AllIdle, Exists
<1>2. SeamTypes' /\ LockInv'
  BY DEF SeamTypes, LockInv
<1>3. ThreadInv'
  BY <1>1 DEF ThreadInv
<1>4. QuietInv'
  BY <1>1 DEF QuietInv
<1>5. ConnectionInv'
  BY DEF ConnectionInv
<1>6. HeldInv'
  BY <1>1 DEF HeldInv, Held
<1>7. OrphanInv'
  BY <1>1 DEF OrphanInv
<1>8. EpochInv' /\ StoreInv'
  BY <1>1 DEF EpochInv, EpochProven, StoreInv
<1> QED BY <1>2, <1>3, <1>4, <1>5, <1>6, <1>7, <1>8

\* The invariant is inductive.
LEMMA NextSeam == SeamInv /\ [SeamNext]_seamVars => SeamInv'
<1>1. SeamInv /\ SeamNext => SeamInv'
  BY StepTypes, StepLock, StepThread, StepQuiet, StepConnection, StepHeld, StepOrphan, StepEpoch,
     StepStore DEF SeamInv
<1> QED BY <1>1, StutterSeam

\* The strengthening holds in every reachable state, for any clients, readers,
\* crashes and faults.
THEOREM SeamInvHolds == SeamSpec => []SeamInv
  BY InitSeam, NextSeam, PTL DEF SeamSpec

\* The coordinator never serves with a derived epoch that is not the epoch of
\* the database on disk (coordinator.py _recover, complete_recovery,
\* _initialize_fact_epoch), whatever dies in between.
THEOREM EpochProvenHolds == SeamSpec => []EpochProven
<1>1. SeamInv => EpochProven
  BY DEF SeamInv, EpochInv
<1> QED BY <1>1, SeamInvHolds, PTL

\* A client about to rename the new database over the old one has the daemon
\* quiet and every handle closed.
LEMMA RenamedInQuiet == ASSUME SeamInv, NEW c \in Clients, client[c] = "rename", Exists
    PROVE requests = 0 /\ opening = 0 /\ handles = {} /\ builders = {} /\ shared = {}
<1> USE DEF SeamInv
<1>1. client[c] \in Replacing /\ client[c] \in UnderLease
  BY DEF Replacing, UnderLease
<1>2. shared = {} /\ handles = {}
  BY <1>1, NamesAssumption DEF NamesAssumption, LockInv
<1>3. AllIdle /\ requests = 0 /\ builders = {} /\ InFlight = {}
  BY <1>1 DEF HeldInv, Held, OrphanInv
<1>4. opening = 0
  BY <1>3, OpeningCounted DEF Reopening, AllIdle
<1> QED BY <1>2, <1>3, <1>4

\* An existing database changes its epoch only by the rename of
\* replace_fact_database.
LEMMA OnlyRenameReplaces == ASSUME [SeamNext]_seamVars, epoch' # epoch, Exists
    PROVE \E c \in Clients : client[c] = "rename"
<1>1. CASE UNCHANGED seamVars
  BY <1>1 DEF seamVars, store
<1>2. CASE DaemonStep
  BY <1>2, DaemonFrame
<1>3. ASSUME NEW c \in Clients, ClientStep(c) PROVE client[c] = "rename"
  BY <1>3 DEF ClientStep, CallPrepare, PrepareReturns, AssertReturns, AcquireExclusive, Checkpoint,
     UnlinkSidecars,
              Rename, ReleaseExclusive, CallReopen, ReopenReturns
<1>4. ASSUME NEW c \in Clients, ClientDies(c) \/ FlockReleased(c) PROVE FALSE
  BY <1>4 DEF ClientDies, FlockReleased, store
<1>5. CASE RecorderWrites
  BY <1>5 DEF RecorderWrites
<1> QED BY <1>1, <1>2, <1>3, <1>4, <1>5 DEF SeamNext, DaemonStep

\* The fact database is replaced only while no request, handle, opening or
\* builder is at work on it (maintenance.py replace_fact_database under the
\* coordinator's lease), even when the lease was lost or the daemon restarted.
THEOREM ReplacedInQuietHolds == SeamSpec => ReplacedInQuiet
<1>1. SeamInv /\ [SeamNext]_seamVars =>
        [epoch' # epoch /\ Exists =>
           /\ requests = 0 /\ opening = 0 /\ handles = {} /\ builders = {}
           /\ shared = {}]_seamVars
  BY RenamedInQuiet, OnlyRenameReplaces
<1> QED BY <1>1, SeamInvHolds, PTL DEF SeamSpec, ReplacedInQuiet

\* A WAL of another database never lies beside facts.sqlite3, unreadable stores
\* included (replace_fact_database unlinks before it renames).
THEOREM NoForeignSidecars == SeamSpec => [](Exists => wal \in {NoEpoch, epoch})
<1>1. SeamInv => (Exists => wal \in {NoEpoch, epoch})
  BY DEF SeamInv, StoreInv
<1> QED BY <1>1, SeamInvHolds, PTL

\* When every store to be replaced can be read, the files are one complete
\* store at every instant: the checkpoint comes before the unlink, the unlink
\* before the rename.
THEOREM StoreCompleteHolds == ASSUME Unreadable = {} PROVE SeamSpec => []StoreComplete
<1>1. SeamInv => StoreComplete
  BY DEF SeamInv, StoreInv, StoreComplete
<1> QED BY <1>1, SeamInvHolds, PTL

=============================================================================
