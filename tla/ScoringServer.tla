--------------------------- MODULE ScoringServer ---------------------------
(***************************************************************************)
(* The serving loop of the daemon (daemon/server.py, daemon/evidence.py,   *)
(* daemon/personal_lora_live.py, daemon/archive_observation.py).  One      *)
(* thread accepts a connection, reads one request, answers it and only     *)
(* then gives back the lease the maintenance coordinator lent it.  Around  *)
(* it move the idle watchdog, the owner replacing the files of the         *)
(* adapter, the plugin adding facts, the delta worker catching up, the     *)
(* publisher switching the snapshot and a maintenance round.               *)
(***************************************************************************)
EXTENDS Integers, Sequences, FiniteSets

CONSTANTS
    Requests,       \* requests that are explored, see Accept
    MaxRequests,    \* bound on the connections
    MaxChanges      \* bound on the steps of the surroundings

\* What read_request tells apart; an evidence request declares the facts it
\* has seen, epoch 0 when it has seen none.
ASSUME RequestShape ==
    \A req \in Requests :
        /\ req.kind \in {"silent", "late", "health", "scoring", "evidence"}
        /\ req.kind = "evidence" => req.water.epoch \in Nat /\ req.water.at \in Nat

VARIABLES
    conn,       \* the connection being served
    files,      \* the adapter's files: what they hold, and their inode and times
    model,      \* ModelState: what is loaded, fingerprint, digest, load_generation
    maint,      \* the coordinator: round and leases (modelled in MaintenanceSeam)
    facts,      \* the fact store: there or not, epoch, clock
    snap,       \* the snapshot the delta machine serves: representation, epoch, clock
    frames,     \* what the archive was told during this connection
    traces,     \* what the trace store was told during this connection
    served,     \* connections so far
    changes     \* steps of the surroundings so far

serverVars == <<conn, files, model, maint, facts, snap, frames, traces, served, changes>>
around == <<files, maint, facts, snap, served, changes>>

NoRequest == [kind |-> "none"]
Unread == 0
\* Besides the request: the answer decided, whether a lease is held, the
\* fingerprint read, whether it differed, what scored, where the facts were.
IdleConnection == [pc |-> "idle", req |-> NoRequest, answer |-> "none", leased |-> FALSE, print |-> Unread, changed |-> FALSE,
         gen |-> 0, used |-> "none", start |-> [epoch |-> 0, at |-> 0, stamp |-> 0], point |-> [epoch |-> 0, at |-> 0, rep |-> 0]]

-----------------------------------------------------------------------------
(* Attribution of tokens to a candidate.                                   *)
(* A token covers characters of the tail ("t"), of the candidate ("c"), or *)
(* of both ("x"); a lossy tokenization does not decode to its text.        *)

Attributed(tokens, lossy) ==
    LET first == {k \in 1 .. Len(tokens) : \A j \in 1 .. Len(tokens) : tokens[j] = "t" <=> j < k}
    IN  IF lossy \/ (\E k \in 1 .. Len(tokens) : tokens[k] = "x") \/ first = {} THEN {}
        ELSE {k \in 1 .. Len(tokens) : \E f \in first : k >= f}
\* score anchors an empty context, so the first token has something before it;
\* mean_token_scores reads no position past a candidate's own tokens.
Prefixed(req) == req.long \/ ~\E k \in 1 .. Len(req.tokens) : req.tokens[k] \in {"t", "x"}
Scorable(req) ==
    LET own == Attributed(req.tokens, req.lossy)
    IN  own # {} /\ (1 \in own => Prefixed(req))

-----------------------------------------------------------------------------
(* ModelState.                                                             *)

Fingerprint == files.stamp
\* note_load_*, note_unload and observe_*: told only while capture is effective.
Tell(what, capture) ==
    frames' = IF capture THEN Append(frames, [what |-> what, code |-> "none", load |-> FALSE]) ELSE frames
Unloaded(m) == [m EXCEPT !.loaded = "none", !.print = Unread]

Decide(code) == conn' = [conn EXCEPT !.pc = "decided", !.answer = code, !.print = Unread, !.changed = FALSE]

\* load: is what is loaded still what the files hold?
LoadCheck ==
    /\ conn.pc = "load"
    /\ LET changed == Fingerprint # model.print
       IN  conn' = [conn EXCEPT !.changed = changed, !.pc = IF changed \/ model.loaded = "none" THEN "pin" ELSE "score"]
    /\ UNCHANGED <<model, frames, traces, around>>
\* _pin_adapter_identity: fingerprint first, then the hashes.
ReadFingerprint ==
    /\ conn.pc = "pin"
    /\ conn' = [conn EXCEPT !.print = Fingerprint,
                            !.pc = IF Fingerprint = model.print /\ model.digest THEN "loading" ELSE "hash"]
    /\ UNCHANGED <<model, frames, traces, around>>
\* pin_live_identities, and the unload of what was loaded before.
PinIdentities(capture) ==
    /\ conn.pc = "hash"
    /\ IF files.holds = "live"
       THEN /\ conn' = [conn EXCEPT !.pc = "loading"]
            /\ model' = IF model.loaded # "none" /\ conn.changed THEN [Unloaded(model) EXCEPT !.digest = TRUE]
                        ELSE [model EXCEPT !.print = conn.print, !.digest = TRUE]
       ELSE /\ Decide("identity_mismatch") /\ model' = Unloaded(model)
    /\ IF model.loaded # "none" /\ (files.holds # "live" \/ conn.changed) THEN Tell("unload", capture) ELSE UNCHANGED frames
    /\ UNCHANGED <<traces, around>>
\* Mutant: the fingerprint that is kept is the one of the files after the load.
PrintAfter(print) == Fingerprint
KeptPrint(print) == print
\* load_adapted_model reads the files as they are now; the fingerprint stays the
\* one read before the hashes.
LoadModel(ok, capture) ==
    /\ conn.pc = "loading"
    /\ Tell("load", capture)
    /\ model' = [model EXCEPT !.gen = 1 - @, !.loaded = IF ok THEN files.holds ELSE @, !.print = KeptPrint(@)]
    /\ IF ok THEN conn' = [conn EXCEPT !.pc = "score"] ELSE Decide("inference_failed")
    /\ UNCHANGED <<traces, around>>
\* score: the watchdog may have taken the model away.
Score(ok) ==
    /\ conn.pc = "score"
    /\ IF model.loaded = "none" \/ ~ok THEN Decide("inference_failed")
       ELSE IF ~Scorable(conn.req) THEN Decide("token_attribution_failed")
       ELSE conn' = [conn EXCEPT !.pc = "check", !.used = model.loaded]
    /\ UNCHANGED <<model, frames, traces, around>>

\* The scores are validated, and the outcome is observed once it is decided.
CheckScores(sound) ==
    /\ conn.pc = "check" /\ Decide(IF sound THEN "ok" ELSE "score_invalid")
    /\ UNCHANGED <<model, frames, traces, around>>
\* Mutant: only a load that came to something counts.
LoadCompleted == model.gen # conn.gen /\ model.loaded # "none"
LoadIncluded == model.gen # conn.gen
ObserveOutcome(capture) ==
    /\ conn.pc = "decided"
    /\ frames' = IF capture THEN Append(frames, [what |-> "scoring", code |-> conn.answer, load |-> LoadIncluded]) ELSE frames
    /\ conn' = [conn EXCEPT !.pc = "send"]
    /\ UNCHANGED <<model, traces, around>>

-----------------------------------------------------------------------------
(* EvidenceService.                                                        *)

Trace(code) == traces' = Append(traces, code)
\* The snapshot's representation names the identity that is served.
ConfigIdentity == snap.rep

\* Mutant: the snapshot is used as it is.
AnySnapshot == TRUE
CaughtUp == snap.epoch = facts.epoch /\ snap.at >= facts.at
WatermarkFault(req, epoch, at) ==
    IF req.water.epoch = 0 THEN "none"
    ELSE IF req.water.epoch # epoch THEN "fact_identity_mismatch"
    ELSE IF at < req.water.at THEN "not_caught_up" ELSE "none"
EvidenceAnswer(fault, epoch, at, rep) ==
    /\ Trace(IF fault = "none" THEN "ok" ELSE fault)
    /\ conn' = [conn EXCEPT !.pc = "send", !.answer = IF fault = "none" THEN "ok" ELSE fault,
                            !.point = IF fault = "none" THEN [epoch |-> epoch, at |-> at, rep |-> rep] ELSE @]
    /\ UNCHANGED <<model, frames, around>>

\* serve: through the snapshot when the store is there, directly otherwise.
Route ==
    /\ conn.pc = "route"
    /\ conn' = [conn EXCEPT !.pc = IF facts.present THEN "snapshot" ELSE "direct"]
    /\ UNCHANGED <<model, frames, traces, around>>
\* ensure_caught_up reads the facts' identity anew.
ServeSnapshot(sound) ==
    /\ conn.pc = "snapshot"
    /\ LET fault == IF ~CaughtUp THEN "not_caught_up"
                    ELSE IF WatermarkFault(conn.req, snap.epoch, snap.at) # "none" THEN WatermarkFault(conn.req, snap.epoch, snap.at)
                    ELSE IF sound THEN "none" ELSE "oracle_fault"
       IN  EvidenceAnswer(fault, snap.epoch, snap.at, snap.rep)
\* A missing store is zero evidence, unless the request has seen one.
ServeDirect(sound) ==
    /\ conn.pc = "direct"
    /\ LET fault == IF facts.present
                    THEN IF WatermarkFault(conn.req, facts.epoch, facts.at) # "none" THEN WatermarkFault(conn.req, facts.epoch, facts.at)
                         ELSE IF sound THEN "none" ELSE "oracle_fault"
                    ELSE IF conn.req.water.epoch # 0 THEN "fact_store_fault" ELSE "none"
       IN  EvidenceAnswer(fault, IF facts.present THEN facts.epoch ELSE 0, facts.at, 1)

-----------------------------------------------------------------------------
(* Requests.                                                               *)

\* Mutant: a request that is already connected is served.
AlwaysOpen == TRUE
\* begin_request.
Open == maint.phase = "open"
Refuse(code) == conn' = [conn EXCEPT !.pc = "send", !.answer = code]

\* accept: the plugin declares the identity and the facts it knows of.
Accept(req) ==
    /\ conn.pc = "idle" /\ served < MaxRequests
    /\ req.kind = "evidence" /\ req.water.epoch # 0 => facts.present /\ req.water.epoch <= facts.epoch /\ req.water.at <= facts.at
    /\ conn' = [IdleConnection EXCEPT !.pc = "read", !.req = req, !.gen = model.gen,
                            !.start = [epoch |-> facts.epoch, at |-> facts.at, stamp |-> files.stamp]]
    /\ served' = served + 1 /\ frames' = <<>> /\ traces' = <<>>
    /\ UNCHANGED <<files, model, maint, facts, snap, changes>>
\* read_request and the checks that need no lease.  A connection that sends
\* nothing is closed; one that is late, too long or badly framed is told so.
HandleRequest ==
    /\ conn.pc = "read"
    /\ \/ conn.req.kind = "silent" /\ conn' = [conn EXCEPT !.pc = "close"] /\ UNCHANGED traces
       \/ conn.req.kind = "late" /\ Refuse("server_error") /\ UNCHANGED traces
       \/ conn.req.kind = "health" /\ Refuse("health") /\ UNCHANGED traces
       \/ conn.req.kind = "scoring" /\ conn.req.policy /\ conn' = [conn EXCEPT !.pc = "lease"] /\ UNCHANGED traces
       \/ conn.req.kind = "scoring" /\ ~conn.req.policy /\ Refuse("policy_mismatch") /\ UNCHANGED traces
       \/ conn.req.kind = "evidence" /\ ~conn.req.valid /\ Refuse("invalid_request") /\ Trace("invalid_request")
       \/ conn.req.kind = "evidence" /\ conn.req.valid /\ conn.req.rep # ConfigIdentity
          /\ Refuse("config_identity_mismatch") /\ Trace("config_identity_mismatch")
       \/ conn.req.kind = "evidence" /\ conn.req.valid /\ conn.req.rep = ConfigIdentity
          /\ conn' = [conn EXCEPT !.pc = "lease"] /\ UNCHANGED traces
    /\ UNCHANGED <<model, frames, around>>
BeginRequest(capture) ==
    /\ conn.pc = "lease"
    /\ IF Open
       THEN /\ conn' = [conn EXCEPT !.leased = TRUE, !.pc = IF conn.req.kind = "scoring" THEN "load" ELSE "route"]
            /\ maint' = [maint EXCEPT !.leases = @ + 1]
            /\ IF conn.req.kind = "scoring" THEN Tell("request", capture) ELSE UNCHANGED frames
       ELSE Refuse("maintenance_in_progress") /\ UNCHANGED <<maint, frames>>
    /\ UNCHANGED <<files, model, facts, snap, traces, served, changes>>

\* serve_scoring_connection: sendall, then, sent or not, the leases are
\* completed and the connection is closed.
Send ==
    /\ conn.pc = "send"
    /\ conn' = [conn EXCEPT !.pc = "close", !.leased = FALSE]
    /\ maint' = [maint EXCEPT !.leases = IF conn.leased THEN @ - 1 ELSE @]
    /\ UNCHANGED <<files, model, facts, snap, frames, traces, served, changes>>
Close ==
    /\ conn.pc = "close" /\ conn' = IdleConnection /\ frames' = <<>> /\ traces' = <<>>
    /\ UNCHANGED <<model, around>>

-----------------------------------------------------------------------------
(* The surroundings.                                                       *)

Change == changes < MaxChanges /\ changes' = changes + 1 /\ UNCHANGED <<traces, served>>

\* idle_watchdog: 300 seconds after the last connection was accepted, or after
\* it was answered; a request may take that long.
IdleUnload(capture) ==
    /\ Change /\ model.loaded # "none"
    /\ model' = Unloaded(model) /\ IF conn.pc = "idle" THEN UNCHANGED frames ELSE Tell("unload", capture)
    /\ UNCHANGED <<conn, files, maint, facts, snap>>
\* copy_adapter: the files are replaced, by the adapter that is pinned or not.
ReplaceAdapter(holds) ==
    /\ Change /\ files' = [holds |-> holds, stamp |-> files.stamp + 1]
    /\ UNCHANGED <<conn, model, maint, facts, snap, frames>>
\* The plugin records a fact, the first one with the store.
RecordFact ==
    /\ Change /\ Open /\ facts' = [facts EXCEPT !.present = TRUE, !.at = @ + 1]
    /\ UNCHANGED <<conn, files, model, maint, snap, frames>>
\* The delta worker absorbs what is there.
CatchUp ==
    /\ Change /\ facts.present /\ ~CaughtUp /\ snap' = [snap EXCEPT !.epoch = facts.epoch, !.at = facts.at]
    /\ UNCHANGED <<conn, files, model, maint, facts, frames>>
\* The publisher switches to a generation of another representation.
SwitchSnapshot ==
    /\ Change /\ facts.present /\ CaughtUp /\ snap' = [snap EXCEPT !.rep = 3 - @]
    /\ UNCHANGED <<conn, files, model, maint, facts, frames>>
\* A maintenance round: no new requests, quiet once the leases are back, the
\* facts replaced, requests again.
Quiesce ==
    /\ Change /\ maint.phase = "open" /\ maint' = [maint EXCEPT !.phase = "draining"]
    /\ UNCHANGED <<conn, files, model, facts, snap, frames>>
Drained ==
    /\ maint.phase = "draining" /\ maint.leases = 0 /\ maint' = [maint EXCEPT !.phase = "quiet"]
    /\ UNCHANGED <<conn, files, model, facts, snap, frames, traces, served, changes>>
ReplaceFacts ==
    /\ Change /\ maint.phase = "quiet" /\ facts.present /\ facts' = [facts EXCEPT !.epoch = @ + 1, !.at = @ + 1]
    /\ UNCHANGED <<conn, files, model, maint, snap, frames>>
Resume ==
    /\ maint.phase = "quiet" /\ maint' = [maint EXCEPT !.phase = "open"]
    /\ UNCHANGED <<conn, files, model, facts, snap, frames, traces, served, changes>>

ServerInit ==
    /\ conn = IdleConnection /\ files = [holds |-> "live", stamp |-> 1]
    /\ model = [loaded |-> "none", print |-> Unread, digest |-> TRUE, gen |-> 0]
    /\ maint = [phase |-> "open", leases |-> 0]
    /\ facts = [present |-> FALSE, epoch |-> 1, at |-> 0]
    /\ snap = [rep |-> 1, epoch |-> 0, at |-> 0]
    /\ frames = <<>> /\ traces = <<>> /\ served = 0 /\ changes = 0

ServerStep ==
    \/ HandleRequest \/ LoadCheck \/ ReadFingerprint \/ Route \/ Send \/ Close
    \/ \E b \in BOOLEAN : BeginRequest(b) \/ PinIdentities(b) \/ Score(b) \/ CheckScores(b) \/ ObserveOutcome(b)
                          \/ ServeSnapshot(b) \/ ServeDirect(b)
    \/ \E ok, b \in BOOLEAN : LoadModel(ok, b)
Surroundings ==
    \/ \E b \in BOOLEAN : IdleUnload(b)
    \/ \E holds \in {"live", "other"} : ReplaceAdapter(holds)
    \/ RecordFact \/ CatchUp \/ SwitchSnapshot \/ Quiesce \/ ReplaceFacts \/ Resume

ServerNext == (\E req \in Requests : Accept(req)) \/ ServerStep \/ Surroundings \/ Drained

ServerSpec == ServerInit /\ [][ServerNext]_serverVars

-----------------------------------------------------------------------------

\* A score comes from an adapter other than the pinned one only when its files
\* were replaced while this very request was being handled: the fingerprint read
\* before the hashes exposes it to the next request (load, _pin_adapter_identity).
AdapterVerified ==
    conn.req.kind = "scoring" /\ conn.used = "other" => files.stamp # conn.start.stamp

\* "a request never succeeds on a stale watermark": evidence covers every fact
\* that was there when the request arrived and what the plugin declared, whatever
\* worker, publisher and maintenance did since (EvidenceService).
Succeeded == conn.req.kind = "evidence" /\ conn.answer = "ok"
EvidenceCurrent ==
    Succeeded =>
        /\ conn.point.at >= conn.start.at
        /\ conn.req.water.epoch # 0 => conn.point.epoch = conn.req.water.epoch

\* The lease reaches past the answer: what is sent was computed over the store
\* that is still there, never over one that maintenance has replaced meanwhile.
AnswerOfEpoch == Succeeded /\ conn.pc = "send" /\ conn.point.epoch # 0 => conn.point.epoch = facts.epoch

\* What the archive is told of a request is what became of it: the outcome is the
\* one the client is sent, and owns to a load the archive was told of.
OutcomeTold ==
    conn.pc = "send" /\ conn.req.kind = "scoring" =>
        \A k \in 1 .. Len(frames) : frames[k].what = "scoring" =>
            /\ frames[k].code = conn.answer
            /\ (\E j \in 1 .. k : frames[j].what = "load") => frames[k].load

\* "a request's config identity never mismatches what the snapshot would actually
\* compute" (EvidenceService.config_identity).  This is not claimed: the identity is
\* checked before the lease and the snapshot taken after it, and a publish switch in
\* between changes the representation.
IdentityServed == Succeeded /\ conn.point.epoch # 0 => conn.point.rep = conn.req.rep

\* An answer is of one state of the world: of the facts and the model of the
\* epoch it names, and what became of the request is told to the trace.
AnswersCurrent == EvidenceCurrent /\ AnswerOfEpoch /\ OutcomeTold

=============================================================================
