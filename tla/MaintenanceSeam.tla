--------------------------- MODULE MaintenanceSeam ---------------------------
(***************************************************************************)
(* The maintenance seam: a client that replaces the fact database          *)
(* (daemon/maintenance.py run_maintenance, replace_fact_database), the     *)
(* control connection it holds (daemon/control.py) and the daemon's        *)
(* MaintenanceCoordinator (daemon/coordinator.py), which must be quiet     *)
(* while the database changes and must not serve an epoch it has not       *)
(* proven afterwards.                                                      *)
(*                                                                         *)
(* Every critical section of the coordinator's condition is one step; what *)
(* happens outside it (opening a handle, reading the identity, stopping a  *)
(* builder) is a step of its own. Clients and the daemon may die between   *)
(* any two steps. When a client dies its socket and its flock are released *)
(* one after the other.                                                    *)
(*                                                                         *)
(* A client stands for one connection, with its operation id and lease id. *)
(***************************************************************************)
EXTENDS Naturals, FiniteSets

CONSTANTS
    Clients,      \* maintenance runs
    Unreadable,   \* those that expect an unreadable current store
    Readers,      \* threads that open a fact handle
    MaxRequests,  \* bound: scoring requests in flight
    MaxSeamCrashes,   \* bound: deaths of a client or of the daemon
    MaxSeamFaults,    \* bound: failing operations
    Closing       \* whether the daemon may be shut down

ASSUME SeamAssumption ==
    /\ Unreadable \subseteq Clients
    /\ IsFiniteSet(Clients) /\ IsFiniteSet(Readers) /\ MaxRequests \in Nat
    /\ MaxSeamCrashes \in Nat /\ MaxSeamFaults \in Nat
    /\ Closing \in BOOLEAN

NoClient == "nobody"           \* no connection
Own == "own"                   \* the handle opened by the coordinator itself
Machine == "machine"           \* the builder registered by the server
NoEpoch == 0                   \* there is no store, or no epoch is known
Epochs == 0 .. (Cardinality(Clients) + 1)
Handles == Readers \cup {Own}

\* Connections and threads have names of their own.
ASSUME NamesAssumption == NoClient \notin Clients /\ Own \notin Readers

VARIABLES
    epoch,      \* epoch of facts.sqlite3; NoEpoch when there is no file
    wal,        \* epoch of the database that wrote the sidecars; NoEpoch if none
    whole,      \* facts.sqlite3 holds every committed page
    minted,     \* epochs used so far
    exclusive,  \* client holding the exclusive flock
    shared      \* handles holding the shared flock

store == <<epoch, wal, whole, minted, exclusive, shared>>

VARIABLES
    up,             \* the daemon runs
    state,          \* _state
    closed,         \* _closed
    shutdown,       \* close(): "no", "waiting" or "done"
    owner,          \* _operation_id and _lease_id
    requests,       \* _requests
    opening,        \* _opening_handles
    handles,        \* _handles
    builders,       \* _builders
    preparedEpoch,  \* _prepared_epoch
    activeEpoch,    \* _active_derived_epoch
    targetEpoch     \* _target_epoch

gate == <<up, state, closed, shutdown, owner, requests, opening, handles,
          builders, preparedEpoch, activeEpoch, targetEpoch>>

VARIABLES
    thread,     \* control thread of a connection: its control point
    owns,       \* its local operation_id is set
    found,      \* identity read by _recover
    recovery,   \* the rebuild in flight and the completion it will call
    opener      \* control point of a thread in open_fact_handle

threads == <<thread, owns, found, recovery, opener>>

VARIABLES
    client,     \* control point of run_maintenance
    linked,     \* the client's end of the control connection is open
    wire,       \* request or response on the connection
    seamCrashes, seamFaults

clients == <<client, linked, wire>>
seamVars == <<store, gate, threads, clients, seamCrashes, seamFaults>>

CoordinatorStates == {"serving", "preparing", "prepared", "catching_up", "blocked"}
PrepareControl == {"drain", "builders", "handles", "drain_again", "identity",
                   "prepared"}
RecoverControl == {"recover", "recover_absent", "recover_open",
                   "recover_publish", "rebuild"}
ReaderControl == {"idle", "opening", "opened", "rejected", "holding"}
Replacing == {"checkpoint", "unlink", "rename"}
UnderLease == Replacing \cup {"assert_again", "assert_after", "release"}
ClientControl == UnderLease \cup
    {"start", "preparing", "assert", "acquire", "reopen", "reopening", "done",
     "dead"}

Requests == {"prepare", "lease", "reopen"}
Wires == Requests \cup {"quiet", "busy", "ok", "fail", "hangup"}

Exists == epoch # NoEpoch
PrepareActive == \E c \in Clients : thread[c] \in PrepareControl

SeamFault == seamFaults < MaxSeamFaults /\ seamFaults' = seamFaults + 1
NoSeamFault == seamFaults' = seamFaults

\* MaintenanceLock.acquire, shared and without waiting.
SharedGranted == exclusive = NoClient

\* FactHandle.close: SQLite, then the flock, then the registry.
CloseHandles(set) ==
    /\ handles' = handles \ set
    /\ shared' = shared \ set

-----------------------------------------------------------------------------
(***************************************************************************)
(* Scoring requests, fact handles and the builder.                         *)
(***************************************************************************)
BeginRequest ==
    /\ up /\ ~ closed /\ state = "serving"
    /\ requests < MaxRequests
    /\ requests' = requests + 1
    /\ UNCHANGED <<store, up, state, closed, shutdown, owner, opening, handles,
                   builders, preparedEpoch, activeEpoch, targetEpoch, threads,
                   clients, seamCrashes, seamFaults>>

CompleteRequest ==
    /\ up /\ requests > 0
    /\ requests' = requests - 1
    /\ UNCHANGED <<store, up, state, closed, shutdown, owner, opening, handles,
                   builders, preparedEpoch, activeEpoch, targetEpoch, threads,
                   clients, seamCrashes, seamFaults>>

\* open_fact_handle: counted before any filesystem work.
OpenBegin(r) ==
    /\ up /\ ~ closed /\ state = "serving"
    /\ opener[r] = "idle"
    /\ opening' = opening + 1
    /\ opener' = [opener EXCEPT ![r] = "opening"]
    /\ UNCHANGED <<store, up, state, closed, shutdown, owner, requests, handles,
                   builders, preparedEpoch, activeEpoch, targetEpoch, thread,
                   owns, found, recovery, clients, seamCrashes, seamFaults>>

\* Mutant: a failed open stays counted.
OpenFactoryMiscounts(r) ==
    /\ opener[r] = "opening"
    /\ IF Exists /\ SharedGranted
       THEN /\ shared' = shared \cup {r}
            /\ opener' = [opener EXCEPT ![r] = "opened"]
       ELSE /\ opener' = [opener EXCEPT ![r] = "idle"]
            /\ shared' = shared
    /\ UNCHANGED <<epoch, wal, whole, minted, exclusive, gate, thread, owns,
                   found, recovery, clients, seamCrashes, seamFaults>>

OpenFactory(r) ==
    /\ opener[r] = "opening"
    /\ IF Exists /\ SharedGranted
       THEN /\ shared' = shared \cup {r}
            /\ opener' = [opener EXCEPT ![r] = "opened"]
            /\ opening' = opening
       ELSE /\ opener' = [opener EXCEPT ![r] = "idle"]
            /\ opening' = opening - 1
            /\ shared' = shared
    /\ UNCHANGED <<epoch, wal, whole, minted, exclusive, up, state, closed,
                   shutdown, owner, requests, handles, builders, preparedEpoch,
                   activeEpoch, targetEpoch, thread, owns, found, recovery,
                   clients, seamCrashes, seamFaults>>

OpenRegister(r) ==
    /\ opener[r] = "opened"
    /\ IF state = "serving"
       THEN /\ handles' = handles \cup {r}
            /\ opening' = opening - 1
            /\ opener' = [opener EXCEPT ![r] = "holding"]
       ELSE /\ opener' = [opener EXCEPT ![r] = "rejected"]
            /\ UNCHANGED <<handles, opening>>
    /\ UNCHANGED <<store, up, state, closed, shutdown, owner, requests,
                   builders, preparedEpoch, activeEpoch, targetEpoch, thread,
                   owns, found, recovery, clients, seamCrashes, seamFaults>>

\* The rejected handle is closed before the opening count drops.
OpenReject(r) ==
    /\ opener[r] = "rejected"
    /\ CloseHandles({r})
    /\ opening' = opening - 1
    /\ opener' = [opener EXCEPT ![r] = "idle"]
    /\ \/ NoSeamFault /\ state' = state
       \/ SeamFault /\ state' = "blocked"
    /\ UNCHANGED <<epoch, wal, whole, minted, exclusive, up, closed, shutdown,
                   owner, requests, builders, preparedEpoch, activeEpoch,
                   targetEpoch, thread, owns, found, recovery, clients,
                   seamCrashes>>

\* The owner closes its handle; the coordinator may have closed it before.
ReaderCloses(r) ==
    /\ opener[r] = "holding"
    /\ CloseHandles({r})
    /\ opener' = [opener EXCEPT ![r] = "idle"]
    /\ UNCHANGED <<epoch, wal, whole, minted, exclusive, up, state, closed,
                   shutdown, owner, requests, opening, builders, preparedEpoch,
                   activeEpoch, targetEpoch, thread, owns, found, recovery,
                   clients, seamCrashes, seamFaults>>

RegisterBuilder ==
    /\ up /\ ~ closed /\ state = "serving" /\ builders = {}
    /\ builders' = {Machine}
    /\ UNCHANGED <<store, up, state, closed, shutdown, owner, requests, opening,
                   handles, preparedEpoch, activeEpoch, targetEpoch, threads,
                   clients, seamCrashes, seamFaults>>

UnregisterBuilder ==
    /\ up /\ builders # {}
    /\ builders' = {}
    /\ UNCHANGED <<store, up, state, closed, shutdown, owner, requests, opening,
                   handles, preparedEpoch, activeEpoch, targetEpoch, threads,
                   clients, seamCrashes, seamFaults>>

-----------------------------------------------------------------------------
(***************************************************************************)
(* prepare, in the control thread of connection c.                         *)
(***************************************************************************)
ThreadGoto(c, point) == thread' = [thread EXCEPT ![c] = point]

Answer(c, ok) ==
    /\ ThreadGoto(c, "idle")
    /\ wire' = [wire EXCEPT ![c] = IF ok THEN "ok" ELSE "fail"]

PrepareUnchanged ==
    UNCHANGED <<epoch, wal, whole, minted, exclusive, up, closed, shutdown,
                requests, opening, activeEpoch, targetEpoch, recovery, opener,
                client, linked, seamCrashes>>

Prepare(c) ==
    /\ up /\ thread[c] = "idle" /\ wire[c] = "prepare"
    /\ IF closed \/ state # "serving"
       THEN Answer(c, FALSE) /\ UNCHANGED <<state, owner>>
       ELSE /\ state' = "preparing" /\ owner' = c
            /\ ThreadGoto(c, "drain")
            /\ wire' = [wire EXCEPT ![c] = "busy"]
    /\ UNCHANGED <<shared, handles, builders, preparedEpoch, owns, found, seamFaults>>
    /\ PrepareUnchanged

\* _prepare_failure: no shared lease is left behind.
PrepareFailure(c) ==
    /\ CloseHandles(handles)
    /\ builders' = {}
    /\ state' = "blocked"
    /\ Answer(c, FALSE)

\* Mutant: prepare does not wait.
DrainAtOnce(c, from, busy, to) ==
    /\ thread[c] = from
    /\ ThreadGoto(c, to)
    /\ UNCHANGED <<state, shared, handles, builders, wire, owner, preparedEpoch,
                   owns, found, seamFaults>>
    /\ PrepareUnchanged

\* One of the two waits: nothing in the way, the prepare was cancelled, or
\* the connection was lost.
Drain(c, from, busy, to) ==
    /\ thread[c] = from
    /\ \/ /\ ~ busy
          /\ ThreadGoto(c, to)
          /\ UNCHANGED <<state, shared, handles, builders, wire>>
       \/ /\ busy /\ (state # "preparing" \/ closed)
          /\ Answer(c, FALSE)
          /\ UNCHANGED <<state, shared, handles, builders>>
       \/ /\ busy /\ state = "preparing" /\ ~ closed /\ ~ linked[c]
          /\ PrepareFailure(c)
    /\ UNCHANGED <<owner, preparedEpoch, owns, found, seamFaults>>
    /\ PrepareUnchanged

DrainRequests(c) ==
    Drain(c, "drain", requests > 0 \/ opening > 0, "builders")

StopBuilder(c) ==
    /\ thread[c] = "builders"
    /\ \/ /\ builders = {}
          /\ NoSeamFault
          /\ ThreadGoto(c, "handles")
          /\ UNCHANGED <<state, shared, handles, builders, wire>>
       \/ /\ builders # {} /\ (state # "preparing" \/ closed)
          /\ NoSeamFault
          /\ PrepareFailure(c)
       \/ /\ builders # {} /\ state = "preparing" /\ ~ closed
          /\ NoSeamFault
          /\ builders' = {}
          /\ UNCHANGED <<state, shared, handles, thread, wire>>
       \/ /\ builders # {} /\ state = "preparing" /\ ~ closed
          /\ SeamFault
          /\ PrepareFailure(c)
    /\ UNCHANGED <<owner, preparedEpoch, owns, found>>
    /\ PrepareUnchanged

\* A close that fails has released the lease all the same.
CloseFactHandle(c) ==
    /\ thread[c] = "handles"
    /\ \/ /\ handles = {}
          /\ NoSeamFault
          /\ ThreadGoto(c, "drain_again")
          /\ UNCHANGED <<state, shared, handles, builders, wire>>
       \/ /\ NoSeamFault
          /\ \E h \in handles : CloseHandles({h})
          /\ UNCHANGED <<state, builders, thread, wire>>
       \/ /\ handles # {}
          /\ SeamFault
          /\ PrepareFailure(c)
    /\ UNCHANGED <<owner, preparedEpoch, owns, found>>
    /\ PrepareUnchanged

DrainAgain(c) ==
    Drain(c, "drain_again",
          requests > 0 \/ opening > 0 \/ handles # {} \/ builders # {},
          "identity")

\* The identity is read through a handle of its own.
ReadIdentity(c) ==
    LET readable == Exists /\ SharedGranted /\ c \notin Unreadable
        verified == IF c \in Unreadable THEN Exists ELSE readable \/ ~ Exists
    IN
    /\ thread[c] = "identity"
    /\ \/ /\ ~ verified /\ NoSeamFault
          /\ PrepareFailure(c)
          /\ found' = found
       \/ /\ Exists /\ c \notin Unreadable /\ SeamFault
          /\ PrepareFailure(c)
          /\ found' = found
       \/ /\ verified /\ NoSeamFault
          /\ found' = IF readable THEN epoch ELSE NoEpoch
          /\ ThreadGoto(c, "prepared")
          /\ UNCHANGED <<state, shared, handles, builders, wire>>
    /\ UNCHANGED <<owner, preparedEpoch, owns>>
    /\ PrepareUnchanged

PublishPrepared(c) ==
    /\ thread[c] = "prepared"
    /\ IF closed \/ state # "preparing"
       THEN Answer(c, FALSE) /\ UNCHANGED <<state, preparedEpoch, owns>>
       ELSE /\ preparedEpoch' = found
            /\ state' = "prepared"
            /\ owns' = [owns EXCEPT ![c] = TRUE]
            /\ Answer(c, TRUE)
    /\ UNCHANGED <<shared, handles, builders, owner, found, seamFaults>>
    /\ PrepareUnchanged

\* assert_prepared.
AssertPrepared(c) ==
    /\ up /\ thread[c] = "idle" /\ wire[c] = "lease"
    /\ Answer(c, state = "prepared" /\ owner = c)
    /\ UNCHANGED <<store, gate, owns, found, recovery, opener, client, linked,
                   seamCrashes, seamFaults>>

PrepareStep(c) ==
    \/ Prepare(c) \/ DrainRequests(c) \/ StopBuilder(c) \/ CloseFactHandle(c)
    \/ DrainAgain(c) \/ ReadIdentity(c) \/ PublishPrepared(c)
    \/ AssertPrepared(c)

-----------------------------------------------------------------------------
(***************************************************************************)
(* reopen and lease_lost: _recover, in the control thread of connection c. *)
(***************************************************************************)
RecoverUnchanged ==
    UNCHANGED <<epoch, wal, whole, minted, exclusive, up, closed, shutdown,
                requests, builders, preparedEpoch, opener, client, linked,
                seamCrashes>>

\* The answer of reopen; a refused one leaves the connection its lease.
AnswerRecover(c, ok) ==
    /\ Answer(c, ok)
    /\ owns' = [owns EXCEPT ![c] = @ /\ ~ ok]

Block(c) ==
    /\ state' = "blocked"
    /\ AnswerRecover(c, FALSE)
    /\ UNCHANGED <<owner, activeEpoch, targetEpoch>>

Reopen(c) ==
    /\ up /\ thread[c] = "idle" /\ wire[c] = "reopen"
    /\ IF state = "prepared" /\ owner = c
       THEN ThreadGoto(c, "recover") /\ wire' = [wire EXCEPT ![c] = "busy"]
       ELSE Answer(c, FALSE)
    /\ UNCHANGED <<store, gate, owns, found, recovery, opener, client, linked,
                   seamCrashes, seamFaults>>

\* Mutant: only an explicit reopen ends a lease.
LeaseLostIgnored(c) ==
    /\ up /\ thread[c] = "idle" /\ wire[c] \notin Requests
    /\ ~ linked[c] /\ owns[c]
    /\ owns' = [owns EXCEPT ![c] = FALSE]
    /\ UNCHANGED <<store, gate, thread, found, recovery, opener, clients,
                   seamCrashes, seamFaults>>

\* EOF on the connection, after every request before it was served.
LeaseLost(c) ==
    /\ up /\ thread[c] = "idle" /\ wire[c] \notin Requests
    /\ ~ linked[c] /\ owns[c]
    /\ owns' = [owns EXCEPT ![c] = FALSE]
    /\ IF owner = c /\ state = "prepared"
       THEN ThreadGoto(c, "recover")
       ELSE thread' = thread
    /\ UNCHANGED <<store, gate, found, recovery, opener, clients, seamCrashes,
                   seamFaults>>

Recover(c) ==
    /\ thread[c] = "recover"
    /\ \/ /\ Exists /\ closed
          /\ Block(c) /\ opening' = opening
       \/ /\ Exists /\ ~ closed
          /\ opening' = opening + 1
          /\ ThreadGoto(c, "recover_open")
          /\ UNCHANGED <<state, owner, activeEpoch, targetEpoch, owns, wire>>
       \/ /\ ~ Exists
          /\ ThreadGoto(c, "recover_absent")
          /\ UNCHANGED <<opening, state, owner, activeEpoch, targetEpoch, owns,
                         wire>>
    /\ UNCHANGED <<shared, handles, found, recovery, seamFaults>>
    /\ RecoverUnchanged

\* The coordinator serves again: the lease is cleared.
Serve(c, proven) ==
    /\ activeEpoch' = proven
    /\ targetEpoch' = NoEpoch
    /\ state' = "serving"
    /\ owner' = NoClient
    /\ AnswerRecover(c, TRUE)

\* There was no database. One may have appeared since.
RecoverAbsent(c) ==
    /\ thread[c] = "recover_absent"
    /\ \/ /\ Exists /\ SharedGranted /\ NoSeamFault
          /\ found' = epoch
          /\ ThreadGoto(c, "recover_publish")
          /\ UNCHANGED <<state, owner, activeEpoch, targetEpoch, owns, wire>>
       \/ /\ \/ ~ (Exists /\ SharedGranted) /\ NoSeamFault
             \/ Exists /\ SeamFault
          /\ found' = found
          /\ IF preparedEpoch = NoEpoch /\ ~ closed
             THEN Serve(c, NoEpoch)
             ELSE Block(c)
    /\ UNCHANGED <<opening, shared, handles, recovery>>
    /\ RecoverUnchanged

RecoverOpen(c) ==
    /\ thread[c] = "recover_open"
    /\ opening' = opening - 1
    /\ \/ /\ Exists /\ SharedGranted /\ NoSeamFault
          /\ shared' = shared \cup {Own}
          /\ found' = epoch
          /\ ThreadGoto(c, "recover_publish")
          /\ UNCHANGED <<state, owner, activeEpoch, targetEpoch, owns, wire>>
       \/ /\ \/ ~ (Exists /\ SharedGranted) /\ NoSeamFault
             \/ Exists /\ SeamFault
          /\ Block(c)
          /\ UNCHANGED <<shared, found>>
    /\ UNCHANGED <<handles, recovery>>
    /\ RecoverUnchanged

\* The handle this thread opened, if it opened one.
OwnHandle == {Own} \cap shared

\* Mutant: the epoch found on disk is not compared with the prepared one.
RecoverPublishTrusts(c) ==
    /\ thread[c] = "recover_publish"
    /\ IF closed
       THEN CloseHandles(OwnHandle) /\ Block(c)
       ELSE /\ handles' = handles \cup OwnHandle /\ shared' = shared
            /\ Serve(c, preparedEpoch)
    /\ UNCHANGED <<opening, found, recovery, seamFaults>>
    /\ RecoverUnchanged

\* Mutant: a handle opened while the coordinator closes is forgotten.
RecoverPublishForgets(c) ==
    /\ thread[c] = "recover_publish"
    /\ IF closed
       THEN Block(c) /\ UNCHANGED <<handles, shared>>
       ELSE /\ found = preparedEpoch
            /\ handles' = handles \cup OwnHandle /\ shared' = shared
            /\ Serve(c, found)
    /\ UNCHANGED <<opening, found, recovery, seamFaults>>
    /\ RecoverUnchanged

RecoverPublish(c) ==
    /\ thread[c] = "recover_publish"
    /\ \/ /\ closed
          /\ CloseHandles(OwnHandle)
          /\ Block(c)
       \/ /\ ~ closed /\ found = preparedEpoch
          /\ handles' = handles \cup OwnHandle /\ shared' = shared
          /\ Serve(c, found)
       \/ /\ ~ closed /\ found # preparedEpoch
          /\ handles' = handles \cup OwnHandle /\ shared' = shared
          /\ activeEpoch' = NoEpoch /\ targetEpoch' = found
          /\ state' = "catching_up" /\ owner' = NoClient
          /\ ThreadGoto(c, "rebuild")
          /\ UNCHANGED <<owns, wire>>
    /\ UNCHANGED <<opening, found, recovery, seamFaults>>
    /\ RecoverUnchanged

\* invalidate and rebuild; the builder calls complete_recovery when it is done.
Rebuild(c) ==
    /\ thread[c] = "rebuild"
    /\ \/ /\ NoSeamFault
          /\ recovery' = [pc |-> "building", target |-> found, seen |-> NoEpoch]
          /\ AnswerRecover(c, TRUE)
          /\ UNCHANGED <<state, shared, handles, owner, activeEpoch, targetEpoch>>
       \/ /\ SeamFault
          /\ CloseHandles(handles)
          /\ Block(c)
          /\ recovery' = recovery
    /\ UNCHANGED <<opening, found>>
    /\ RecoverUnchanged

RecoverStep(c) ==
    \/ Reopen(c) \/ LeaseLost(c) \/ Recover(c) \/ RecoverAbsent(c)
    \/ RecoverOpen(c) \/ RecoverPublish(c) \/ Rebuild(c)

(***************************************************************************)
(* complete_recovery, called by the builder.                               *)
(***************************************************************************)
NoRecovery == [pc |-> "none", target |-> NoEpoch, seen |-> NoEpoch]

CompleteUnchanged ==
    UNCHANGED <<epoch, wal, whole, minted, exclusive, up, closed, shutdown,
                owner, requests, opening, builders, preparedEpoch, thread, owns,
                found, opener, clients, seamCrashes>>

\* The disk epoch is read again, through a registered handle if there is one.
CompleteRead ==
    /\ recovery.pc = "building"
    /\ \/ /\ closed /\ NoSeamFault
          /\ CloseHandles(handles)
          /\ recovery' = NoRecovery /\ state' = state
       \/ /\ ~ closed /\ NoSeamFault
          /\ recovery' = [recovery EXCEPT !.pc = "proving",
                 !.seen = IF handles # {} \/ SharedGranted THEN epoch ELSE NoEpoch]
          /\ UNCHANGED <<state, shared, handles>>
       \/ /\ ~ closed /\ handles # {} /\ SeamFault
          /\ CloseHandles(handles)
          /\ state' = "blocked"
          /\ recovery' = NoRecovery
    /\ UNCHANGED <<activeEpoch, targetEpoch>>
    /\ CompleteUnchanged

CompletePublish ==
    /\ recovery.pc = "proving"
    /\ recovery' = NoRecovery
    /\ \/ /\ closed \/ state # "catching_up" \/ recovery.target # targetEpoch
          /\ UNCHANGED <<state, shared, handles, activeEpoch, targetEpoch>>
       \/ /\ ~ closed /\ state = "catching_up" /\ recovery.target = targetEpoch
          /\ recovery.seen # recovery.target
          /\ state' = "blocked"
          /\ CloseHandles(handles)
          /\ UNCHANGED <<activeEpoch, targetEpoch>>
       \/ /\ ~ closed /\ state = "catching_up" /\ recovery.target = targetEpoch
          /\ recovery.seen = recovery.target
          /\ activeEpoch' = targetEpoch /\ targetEpoch' = NoEpoch
          /\ state' = "serving"
          /\ UNCHANGED <<shared, handles>>
    /\ seamFaults' = seamFaults
    /\ CompleteUnchanged

-----------------------------------------------------------------------------
(***************************************************************************)
(* The life of the daemon.                                                 *)
(***************************************************************************)

\* __init__ and _initialize_fact_epoch: serving only with a proven epoch.
DaemonStart ==
    /\ ~ up /\ up' = TRUE
    /\ \/ /\ ~ Exists /\ NoSeamFault
          /\ state' = "serving" /\ activeEpoch' = NoEpoch
          /\ UNCHANGED <<handles, shared>>
       \/ /\ Exists /\ SharedGranted /\ NoSeamFault
          /\ state' = "serving" /\ activeEpoch' = epoch
          /\ handles' = {Own} /\ shared' = {Own}
       \/ /\ \/ Exists /\ ~ SharedGranted /\ NoSeamFault
             \/ Exists /\ SeamFault
          /\ state' = "blocked" /\ activeEpoch' = NoEpoch
          /\ UNCHANGED <<handles, shared>>
    /\ UNCHANGED <<epoch, wal, whole, minted, exclusive, closed, shutdown, owner,
                   requests, opening, builders, preparedEpoch, targetEpoch,
                   threads, clients, seamCrashes>>

\* close(): first the state, then, once nobody opens or prepares, the handles.
CloseBegin ==
    /\ Closing /\ up /\ ~ closed
    /\ closed' = TRUE /\ state' = "blocked" /\ owner' = NoClient
    /\ shutdown' = "waiting"
    /\ UNCHANGED <<store, up, requests, opening, handles, builders,
                   preparedEpoch, activeEpoch, targetEpoch, threads, clients,
                   seamCrashes, seamFaults>>

CloseEnd ==
    /\ shutdown = "waiting" /\ ~ PrepareActive /\ opening = 0
    /\ shutdown' = "done"
    /\ CloseHandles(handles)
    /\ UNCHANGED <<epoch, wal, whole, minted, exclusive, up, state, closed,
                   owner, requests, opening, builders, preparedEpoch,
                   activeEpoch, targetEpoch, threads, clients, seamCrashes, seamFaults>>

\* The process dies: its memory, flocks and connections are gone.
DaemonCrash ==
    /\ up /\ seamCrashes < MaxSeamCrashes /\ seamCrashes' = seamCrashes + 1
    /\ up' = FALSE
    /\ state' = "blocked" /\ closed' = FALSE /\ shutdown' = "no"
    /\ owner' = NoClient /\ requests' = 0 /\ opening' = 0
    /\ handles' = {} /\ builders' = {} /\ shared' = {}
    /\ preparedEpoch' = NoEpoch /\ activeEpoch' = NoEpoch
    /\ targetEpoch' = NoEpoch
    /\ thread' = [c \in Clients |-> "idle"]
    /\ owns' = [c \in Clients |-> FALSE]
    /\ found' = NoEpoch /\ recovery' = NoRecovery
    /\ opener' = [r \in Readers |-> "idle"]
    /\ wire' = [c \in Clients |-> IF client[c] = "start" THEN wire[c]
                                   ELSE "hangup"]
    /\ UNCHANGED <<epoch, wal, whole, minted, exclusive, client, linked, seamFaults>>

-----------------------------------------------------------------------------
(***************************************************************************)
(* run_maintenance and replace_fact_database.                              *)
(***************************************************************************)
ClientGoto(c, point) == client' = [client EXCEPT ![c] = point]
Send(c, message) == wire' = [wire EXCEPT ![c] = message]
Failed(c) == wire[c] \in {"fail", "hangup"}

\* The end of the with block closes the connection.
Leave(c) ==
    /\ ClientGoto(c, "done")
    /\ linked' = [linked EXCEPT ![c] = FALSE]

ClientUnchanged ==
    UNCHANGED <<shared, gate, threads, seamCrashes>>

CallPrepare(c) ==
    /\ client[c] = "start"
    /\ IF up THEN /\ ClientGoto(c, "preparing") /\ Send(c, "prepare")
                  /\ linked' = [linked EXCEPT ![c] = TRUE]
       ELSE ClientGoto(c, "done") /\ UNCHANGED <<wire, linked>>
    /\ UNCHANGED <<epoch, wal, whole, minted, exclusive, seamFaults>>
    /\ ClientUnchanged

PrepareReturns(c) ==
    /\ client[c] = "preparing"
    /\ \/ /\ wire[c] = "ok"
          /\ ClientGoto(c, "assert") /\ Send(c, "lease") /\ linked' = linked
       \/ Failed(c) /\ Leave(c) /\ wire' = wire
    /\ UNCHANGED <<epoch, wal, whole, minted, exclusive, seamFaults>>
    /\ ClientUnchanged

\* The three assertions that the lease is live.
AssertReturns(c, from, granted, refused) ==
    /\ client[c] = from
    /\ \/ wire[c] = "ok" /\ ClientGoto(c, granted)
       \/ Failed(c) /\ ClientGoto(c, refused)
    /\ UNCHANGED <<epoch, wal, whole, minted, exclusive, wire, linked, seamFaults>>
    /\ ClientUnchanged

\* acquire_exclusive is granted, or times out.
AcquireExclusive(c) ==
    /\ client[c] = "acquire"
    /\ \/ /\ exclusive = NoClient /\ shared = {}
          /\ exclusive' = c
          /\ ClientGoto(c, "assert_again")
          /\ IF wire[c] = "hangup" THEN wire' = wire ELSE Send(c, "lease")
       \/ ClientGoto(c, "reopen") /\ UNCHANGED <<exclusive, wire>>
    /\ UNCHANGED <<epoch, wal, whole, minted, linked, seamFaults>>
    /\ ClientUnchanged

\* The WAL is merged into the main file, unless that cannot be read: its bytes
\* have been quarantined then, and checkpoint_old_store is off.
Checkpoint(c) ==
    /\ client[c] = "checkpoint"
    /\ \/ /\ NoSeamFault
          /\ whole' = (whole \/ c \notin Unreadable)
          /\ ClientGoto(c, "unlink")
       \/ /\ SeamFault /\ c \notin Unreadable
          /\ whole' \in {whole, TRUE}
          /\ ClientGoto(c, "release")
    /\ UNCHANGED <<epoch, wal, minted, exclusive, wire, linked>>
    /\ ClientUnchanged

\* Mutant: the sidecars of the old database stay.
UnlinkNothing(c) ==
    /\ client[c] = "unlink"
    /\ NoSeamFault /\ ClientGoto(c, "rename")
    /\ UNCHANGED <<epoch, wal, whole, minted, exclusive, wire, linked>>
    /\ ClientUnchanged

UnlinkSidecars(c) ==
    /\ client[c] = "unlink"
    /\ \/ NoSeamFault /\ wal' = NoEpoch /\ ClientGoto(c, "rename")
       \/ SeamFault /\ wal' \in {wal, NoEpoch} /\ ClientGoto(c, "release")
    /\ UNCHANGED <<epoch, whole, minted, exclusive, wire, linked>>
    /\ ClientUnchanged

Rename(c) ==
    /\ client[c] = "rename"
    /\ \/ /\ NoSeamFault
          /\ minted' = minted + 1 /\ epoch' = minted + 1 /\ whole' = TRUE
          /\ ClientGoto(c, "assert_after")
          /\ IF wire[c] = "hangup" THEN wire' = wire ELSE Send(c, "lease")
       \/ /\ SeamFault
          /\ minted' \in {minted, minted + 1}
          /\ epoch' = IF minted' = minted THEN epoch ELSE minted'
          /\ whole' = (whole \/ minted' # minted)
          /\ ClientGoto(c, "release") /\ wire' = wire
    /\ UNCHANGED <<wal, exclusive, linked>>
    /\ ClientUnchanged

ReleaseExclusive(c) ==
    /\ client[c] = "release"
    /\ exclusive' = NoClient
    /\ ClientGoto(c, "reopen")
    /\ UNCHANGED <<epoch, wal, whole, minted, wire, linked, seamFaults>>
    /\ ClientUnchanged

CallReopen(c) ==
    /\ client[c] = "reopen"
    /\ \/ wire[c] = "hangup" /\ Leave(c) /\ wire' = wire
       \/ /\ wire[c] # "hangup"
          /\ ClientGoto(c, "reopening") /\ Send(c, "reopen")
          /\ linked' = linked
    /\ UNCHANGED <<epoch, wal, whole, minted, exclusive, seamFaults>>
    /\ ClientUnchanged

ReopenReturns(c) ==
    /\ client[c] = "reopening"
    /\ wire[c] \in {"ok", "fail", "hangup"}
    /\ Leave(c)
    /\ UNCHANGED <<epoch, wal, whole, minted, exclusive, wire, seamFaults>>
    /\ ClientUnchanged

\* The kernel closes the socket and releases the flock, one after the other.
ClientDies(c) ==
    /\ client[c] \notin {"start", "done", "dead"}
    /\ seamCrashes < MaxSeamCrashes /\ seamCrashes' = seamCrashes + 1
    /\ ClientGoto(c, "dead")
    /\ linked' = [linked EXCEPT ![c] = FALSE]
    /\ UNCHANGED <<store, gate, threads, wire, seamFaults>>

FlockReleased(c) ==
    /\ client[c] = "dead" /\ exclusive = c
    /\ exclusive' = NoClient
    /\ UNCHANGED <<epoch, wal, whole, minted, gate, shared, threads, clients,
                   seamCrashes, seamFaults>>

ClientStep(c) ==
    \/ CallPrepare(c) \/ PrepareReturns(c)
    \/ AssertReturns(c, "assert", "acquire", "reopen")
    \/ AcquireExclusive(c)
    \/ AssertReturns(c, "assert_again", "checkpoint", "release")
    \/ Checkpoint(c) \/ UnlinkSidecars(c) \/ Rename(c)
    \/ AssertReturns(c, "assert_after", "release", "release")
    \/ ReleaseExclusive(c) \/ CallReopen(c) \/ ReopenReturns(c)

\* The recorder writes under a shared lease that lasts one transaction; its
\* first write creates the store.
RecorderWrites ==
    /\ SharedGranted
    /\ \/ Exists /\ UNCHANGED <<epoch, minted>>
       \/ ~ Exists /\ minted' = minted + 1 /\ epoch' = minted + 1
    /\ wal' = epoch' /\ whole' = FALSE
    /\ UNCHANGED <<exclusive, shared, gate, threads, clients, seamCrashes, seamFaults>>

-----------------------------------------------------------------------------
SeamInit ==
    /\ minted \in {0, 1} /\ epoch = minted /\ wal = NoEpoch /\ whole = TRUE
    /\ exclusive = NoClient /\ shared = {}
    /\ up = FALSE /\ state = "blocked" /\ closed = FALSE /\ shutdown = "no"
    /\ owner = NoClient /\ requests = 0 /\ opening = 0
    /\ handles = {} /\ builders = {}
    /\ preparedEpoch = NoEpoch /\ activeEpoch = NoEpoch /\ targetEpoch = NoEpoch
    /\ thread = [c \in Clients |-> "idle"] /\ owns = [c \in Clients |-> FALSE]
    /\ found = NoEpoch /\ recovery = NoRecovery
    /\ opener = [r \in Readers |-> "idle"]
    /\ client = [c \in Clients |-> "start"]
    /\ linked = [c \in Clients |-> FALSE]
    /\ wire = [c \in Clients |-> "quiet"]
    /\ seamCrashes = 0 /\ seamFaults = 0

ReaderStep(r) ==
    OpenBegin(r) \/ OpenFactory(r) \/ OpenRegister(r) \/ OpenReject(r)
    \/ ReaderCloses(r)

SeamNext ==
    \/ BeginRequest \/ CompleteRequest \/ RegisterBuilder \/ UnregisterBuilder
    \/ \E r \in Readers : ReaderStep(r)
    \/ \E c \in Clients : PrepareStep(c) \/ RecoverStep(c) \/ ClientStep(c)
                          \/ ClientDies(c) \/ FlockReleased(c)
    \/ CompleteRead \/ CompletePublish
    \/ DaemonStart \/ CloseBegin \/ CloseEnd \/ DaemonCrash
    \/ RecorderWrites

SeamSpec == SeamInit /\ [][SeamNext]_seamVars

\* The daemon's threads run, requests end, a client that lives goes on, and
\* the kernel releases the locks of a dead one. Nobody need start or crash.
Fairness ==
    /\ WF_seamVars(CompleteRequest)
    /\ \A r \in Readers : WF_seamVars(OpenFactory(r) \/ OpenRegister(r) \/ OpenReject(r))
    /\ \A c \in Clients : /\ WF_seamVars(PrepareStep(c) \/ RecoverStep(c))
                         /\ WF_seamVars(ClientStep(c)) /\ WF_seamVars(FlockReleased(c))
    /\ WF_seamVars(CompleteRead \/ CompletePublish)
    /\ WF_seamVars(CloseEnd)

SeamFairSpec == SeamSpec /\ Fairness

-----------------------------------------------------------------------------
(***************************************************************************)
(* Properties.                                                             *)
(***************************************************************************)

\* Every variable of the store, the coordinator, its threads and the clients
\* has its type; a registered handle holds the shared flock.
SeamTypeOK ==
    /\ epoch \in Epochs /\ wal \in Epochs /\ minted \in Epochs
    /\ whole \in BOOLEAN
    /\ exclusive \in Clients \cup {NoClient} /\ shared \subseteq Handles
    /\ up \in BOOLEAN /\ state \in CoordinatorStates /\ closed \in BOOLEAN
    /\ shutdown \in {"no", "waiting", "done"}
    /\ owner \in Clients \cup {NoClient}
    /\ requests \in 0 .. MaxRequests
    /\ opening \in 0 .. (Cardinality(Readers) + 1)
    /\ handles \subseteq shared /\ builders \subseteq {Machine}
    /\ preparedEpoch \in Epochs /\ activeEpoch \in Epochs
    /\ targetEpoch \in Epochs
    /\ thread \in [Clients -> {"idle"} \cup PrepareControl \cup RecoverControl]
    /\ owns \in [Clients -> BOOLEAN] /\ found \in Epochs
    /\ recovery \in [pc : {"none", "building", "proving"},
                      target : Epochs, seen : Epochs]
    /\ opener \in [Readers -> ReaderControl]
    /\ client \in [Clients -> ClientControl]
    /\ linked \in [Clients -> BOOLEAN] /\ wire \in [Clients -> Wires]
    /\ seamCrashes \in 0 .. MaxSeamCrashes /\ seamFaults \in 0 .. MaxSeamFaults

\* While the daemon serves with a derived epoch, that is the epoch of the
\* database on disk, across replacements, lost leases and restarts.
EpochProven ==
    state = "serving" /\ activeEpoch # NoEpoch => activeEpoch = epoch

\* The database is replaced only while nothing reads it: no scoring request,
\* no fact handle open or being opened, no builder.
ReplacedInQuiet ==
    [][epoch' # epoch /\ Exists =>
         /\ requests = 0 /\ opening = 0 /\ handles = {} /\ builders = {}
         /\ shared = {}]_seamVars

\* At every instant, so also after a crash, the files on disk are one
\* complete store: no committed page is missing from facts.sqlite3 unless
\* its own WAL has it, and no WAL of another database lies beside it.
StoreComplete ==
    Exists => /\ wal \in {NoEpoch, epoch}
              /\ whole \/ wal = epoch

\* The shared flock is held by registered handles only once no thread is
\* under way, and by nobody once close() has returned: a forgotten lease
\* would keep maintenance out for ever.
NoLeakedLease ==
    (/\ \A c \in Clients : thread[c] = "idle"
     /\ \A r \in Readers : opener[r] \in {"idle", "holding"}
     /\ recovery.pc = "none")
    => /\ shared = handles
       /\ shutdown = "done" => shared = {}

\* _prepare_failure: "Leave no shared fact lease behind after a partial
\* prepare." A prepare that failed has closed every handle.
FailedPrepareLeavesNoLease ==
    \A c \in Clients :
        client[c] = "preparing" /\ wire[c] = "fail" /\ owner = c
        /\ state = "blocked" => shared = {}

\* A lease does not outlive its client: the coordinator leaves the prepared
\* state whether the client reopens, fails or dies.
LeaseEnds == state = "prepared" ~> state # "prepared"

\* A prepare is answered, or its client or the daemon is gone.
PrepareAnswered ==
    \A c \in Clients : client[c] = "preparing" ~> client[c] # "preparing"

\* The seam comes to an end: a lease is released and a prepare is answered.
SeamProgress == LeaseEnds /\ PrepareAnswered

=============================================================================
