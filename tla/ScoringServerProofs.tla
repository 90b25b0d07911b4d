------------------------ MODULE ScoringServerProofs ------------------------
(***************************************************************************)
(* Proofs about the serving loop of the daemon (ScoringServer): which      *)
(* adapter a score can come from, and which facts an evidence answer is of.*)
(*                                                                         *)
(* The inductive invariant has four parts beside the types.  AdapterInv    *)
(* says what the fingerprint in ModelState proves of the loaded adapter,   *)
(* LeaseInv that a request under way keeps maintenance from replacing the  *)
(* facts, CurrentInv that the clock of the facts only grows within an      *)
(* answer's life, ToldInv that the archive hears of a load before it hears *)
(* of the outcome.                                                         *)
(***************************************************************************)
EXTENDS ScoringServer, TLAPS

BeforeLoad == {"read", "lease", "load", "pin", "hash", "loading"}
Scoring == {"load", "pin", "hash", "loading", "score", "check", "decided"}
Evidence == {"route", "snapshot", "direct"}
Working == Scoring \cup Evidence
ConnPcs == {"idle", "read", "lease", "send", "close"} \cup Working
Adapters == {"none", "live", "other"}
Codes == {"none", "ok", "health", "server_error", "invalid_request", "policy_mismatch",
          "config_identity_mismatch", "maintenance_in_progress", "identity_mismatch",
          "inference_failed", "token_attribution_failed", "score_invalid",
          "fact_identity_mismatch", "not_caught_up", "oracle_fault", "fact_store_fault"}
Frame == [what : {"request", "load", "unload", "scoring"}, code : Codes, load : BOOLEAN]

Connections ==
    [pc : ConnPcs, req : Requests \cup {NoRequest}, answer : Codes, leased : BOOLEAN, print : Nat, changed : BOOLEAN,
     gen : {0, 1}, used : Adapters, start : [epoch : Nat, at : Nat, stamp : Nat], point : [epoch : Nat, at : Nat, rep : Nat]]
FileStates == [holds : {"live", "other"}, stamp : Nat]
Models == [loaded : Adapters, print : Nat, digest : BOOLEAN, gen : {0, 1}]
Rounds == [phase : {"open", "draining", "quiet"}, leases : Nat]
Stores == [present : BOOLEAN, epoch : Nat, at : Nat]
Snapshots == [rep : {1, 2}, epoch : Nat, at : Nat]

\* The types of the serving loop's state.
ServerTypeOK ==
    /\ conn \in Connections /\ files \in FileStates /\ model \in Models /\ maint \in Rounds
    /\ facts \in Stores /\ snap \in Snapshots /\ frames \in Seq(Frame) /\ served \in Nat /\ changes \in Nat

\* Equal fingerprints mean the files were hashed as they are; a foreign
\* adapter is loaded only under another fingerprint than that of the files,
\* and within a request only if the files changed since it arrived.
AdapterInv ==
    /\ files.stamp > 0 /\ model.print <= files.stamp /\ conn.print <= files.stamp
    /\ conn.pc # "idle" => conn.start.stamp <= files.stamp
    /\ model.print = files.stamp => files.holds = "live"
    /\ model.loaded = "other" => model.print # files.stamp
    /\ conn.pc \in {"pin", "hash"} /\ ~conn.changed => model.loaded = "none"
    /\ conn.pc = "loading" /\ files.holds = "other" => conn.start.stamp < files.stamp
    /\ conn.pc = "score" /\ model.loaded = "other" => conn.start.stamp < files.stamp
    /\ conn.used = "other" => conn.pc # "idle" /\ conn.start.stamp < files.stamp

\* The lease of the one request under way, and what it holds in place.
LeaseInv ==
    /\ maint.leases = IF conn.leased THEN 1 ELSE 0
    /\ maint.phase = "quiet" => maint.leases = 0
    /\ conn.pc \in Working => conn.leased
    /\ conn.pc \in {"idle", "read", "lease", "close"} => ~conn.leased
    /\ conn.pc \in Scoring => conn.req.kind = "scoring"
    /\ conn.pc \in Evidence => conn.req.kind = "evidence"
    /\ conn.pc \in {"idle", "read", "lease"} \cup Evidence => conn.answer = "none"
    /\ conn.pc \in {"read", "lease"} => conn.req \in Requests
    /\ conn.pc = "lease" => conn.req.kind \in {"scoring", "evidence"}
    /\ Succeeded /\ conn.pc = "send" => conn.leased
    /\ AnswerOfEpoch

CurrentInv ==
    /\ conn.pc # "idle" => conn.start.at <= facts.at
    /\ EvidenceCurrent

NoOutcome == \A k \in 1 .. Len(frames) : frames[k].what # "scoring"
LoadTold == \E j \in 1 .. Len(frames) : frames[j].what = "load"
ToldInv ==
    /\ conn.pc \in BeforeLoad => model.gen = conn.gen
    /\ conn.pc \in BeforeLoad \cup {"score", "check", "decided"} => NoOutcome
    /\ LoadTold => model.gen # conn.gen /\ conn.pc \notin BeforeLoad
    /\ OutcomeTold

ServerInv == ServerTypeOK /\ AdapterInv /\ LeaseInv /\ CurrentInv /\ ToldInv
\* The answers the serving loop gives.
LEMMA CodesKnown ==
    /\ "none" \in Codes /\ "ok" \in Codes /\ "health" \in Codes /\ "server_error" \in Codes
    /\ "invalid_request" \in Codes /\ "policy_mismatch" \in Codes /\ "config_identity_mismatch" \in Codes
    /\ "maintenance_in_progress" \in Codes /\ "identity_mismatch" \in Codes /\ "inference_failed" \in Codes
    /\ "token_attribution_failed" \in Codes /\ "score_invalid" \in Codes /\ "fact_identity_mismatch" \in Codes
    /\ "not_caught_up" \in Codes /\ "oracle_fault" \in Codes /\ "fact_store_fault" \in Codes
  BY DEF Codes

\* The points at which a connection can be.
LEMMA PcsKnown ==
    /\ "idle" \in ConnPcs /\ "read" \in ConnPcs /\ "lease" \in ConnPcs /\ "send" \in ConnPcs /\ "close" \in ConnPcs
    /\ "load" \in ConnPcs /\ "pin" \in ConnPcs /\ "hash" \in ConnPcs /\ "loading" \in ConnPcs /\ "score" \in ConnPcs
    /\ "check" \in ConnPcs /\ "decided" \in ConnPcs /\ "route" \in ConnPcs /\ "snapshot" \in ConnPcs /\ "direct" \in ConnPcs
  BY DEF ConnPcs, Working, Scoring, Evidence

\* What close leaves behind is a connection.
LEMMA IdleTyped == IdleConnection \in Connections
  BY CodesKnown, PcsKnown DEF IdleConnection, Connections, NoRequest, Unread, Adapters

\* The state the daemon starts in has the types.
LEMMA InitTyped == ServerInit => ServerTypeOK
  BY IdleTyped DEF ServerInit, ServerTypeOK, FileStates, Models, Rounds, Stores, Snapshots, Adapters, Unread

\* A note to the archive is a frame.
LEMMA TellTyped ==
    ASSUME NEW what \in {"request", "load", "unload", "scoring"}, NEW b \in BOOLEAN, frames \in Seq(Frame), Tell(what, b)
    PROVE  frames' \in Seq(Frame)
<1>1. [what |-> what, code |-> "none", load |-> FALSE] \in Frame
  BY CodesKnown DEF Frame
<1> QED BY <1>1 DEF Tell

\* Moving a connection on, with or without an answer, keeps its type.
LEMMA MoveTyped ==
    ASSUME conn \in Connections, NEW pc \in ConnPcs, NEW code \in Codes
    PROVE  /\ [conn EXCEPT !.pc = pc] \in Connections
           /\ [conn EXCEPT !.pc = pc, !.answer = code] \in Connections
           /\ [conn EXCEPT !.pc = pc, !.answer = code, !.print = 0, !.changed = FALSE] \in Connections
  BY DEF Connections

\* A store that has grown or was replaced is a store.
LEMMA FactsTyped ==
    ASSUME facts \in Stores, NEW n \in Nat, NEW m \in Nat
    PROVE  [facts EXCEPT !.present = TRUE, !.at = n] \in Stores /\ [facts EXCEPT !.epoch = m, !.at = n] \in Stores
  BY DEF Stores

\* A connection whose evidence is decided keeps its type.
LEMMA AnswerTyped ==
    ASSUME conn \in Connections, NEW code \in Codes, NEW e \in Nat, NEW at \in Nat, NEW r \in Nat
    PROVE  /\ [conn EXCEPT !.pc = "send", !.answer = code] \in Connections
           /\ [conn EXCEPT !.pc = "send", !.answer = code, !.point = conn.point] \in Connections
           /\ [conn EXCEPT !.pc = "send", !.answer = code, !.point = [epoch |-> e, at |-> at, rep |-> r]] \in Connections
  BY PcsKnown DEF Connections

\* A decided score keeps the type.
LEMMA DecideTyped ==
    ASSUME conn \in Connections, NEW code \in Codes, Decide(code) PROVE conn' \in Connections
  BY MoveTyped, PcsKnown DEF Decide, Unread

\* A refusal keeps the type.
LEMMA RefuseTyped ==
    ASSUME conn \in Connections, NEW code \in Codes, Refuse(code) PROVE conn' \in Connections
  BY MoveTyped, PcsKnown DEF Refuse

\* Every step of the daemon and of its surroundings keeps the types.
LEMMA StepTyped == ASSUME ServerTypeOK, LeaseInv, ServerNext PROVE ServerTypeOK'
<1> USE DEF ServerTypeOK, around
<1>1. ASSUME HandleRequest PROVE ServerTypeOK'
  <2>1. conn' \in Connections
    BY <1>1, MoveTyped, RefuseTyped, CodesKnown, PcsKnown DEF HandleRequest
  <2> QED BY <1>1, <2>1 DEF HandleRequest
<1>2. ASSUME LoadCheck PROVE ServerTypeOK'
  <2>1. conn' \in Connections
    BY <1>2, PcsKnown DEF LoadCheck, Fingerprint, Connections
  <2> QED BY <1>2, <2>1 DEF LoadCheck
<1>3. ASSUME ReadFingerprint PROVE ServerTypeOK'
  <2>1. conn' \in Connections
    BY <1>3, PcsKnown DEF ReadFingerprint, Fingerprint, Connections, FileStates
  <2> QED BY <1>3, <2>1 DEF ReadFingerprint
<1>4. ASSUME Route PROVE ServerTypeOK'
  <2>1. conn' \in Connections
    BY <1>4, PcsKnown DEF Route, Connections
  <2> QED BY <1>4, <2>1 DEF Route
<1>5. ASSUME Send PROVE ServerTypeOK'
  <2>1. conn' \in Connections
    BY <1>5, PcsKnown DEF Send, Connections
  <2>2. maint' \in Rounds
    BY SMTT(30), <1>5 DEF Send, LeaseInv, Connections, Rounds
  <2> QED BY <1>5, <2>1, <2>2 DEF Send
<1>6. ASSUME Close PROVE ServerTypeOK'
  BY <1>6, IdleTyped DEF Close
<1>7. ASSUME NEW b \in BOOLEAN, BeginRequest(b) PROVE ServerTypeOK'
  <2>1. frames' \in Seq(Frame)
    BY <1>7, TellTyped DEF BeginRequest
  <2>2. conn' \in Connections
    <3>1. CASE Open
      <4>1. [conn EXCEPT !.leased = TRUE, !.pc = "load"] \in Connections /\ [conn EXCEPT !.leased = TRUE, !.pc = "route"] \in Connections
        BY PcsKnown DEF Connections
      <4> QED BY <1>7, <3>1, <4>1 DEF BeginRequest
    <3>2. CASE ~Open
      BY <1>7, <3>2, RefuseTyped, CodesKnown DEF BeginRequest
    <3> QED BY <3>1, <3>2
  <2>3. maint' \in Rounds
    BY <1>7 DEF BeginRequest, Rounds
  <2> QED BY <1>7, <2>1, <2>2, <2>3 DEF BeginRequest
<1>8. ASSUME NEW b \in BOOLEAN, PinIdentities(b) PROVE ServerTypeOK'
  <2>1. frames' \in Seq(Frame)
    BY <1>8, TellTyped DEF PinIdentities
  <2>2. conn' \in Connections
    BY <1>8, DecideTyped, MoveTyped, CodesKnown, PcsKnown DEF PinIdentities
  <2>3. model' \in Models
    <3>1. Unloaded(model) \in Models /\ [Unloaded(model) EXCEPT !.digest = TRUE] \in Models
      BY DEF Unloaded, Unread, Adapters, Models
    <3>2. [model EXCEPT !.print = conn.print, !.digest = TRUE] \in Models
      BY DEF Models, Connections
    <3> QED BY <1>8, <3>1, <3>2 DEF PinIdentities
  <2> QED BY <1>8, <2>1, <2>2, <2>3 DEF PinIdentities
<1>9. ASSUME NEW b \in BOOLEAN, Score(b) PROVE ServerTypeOK'
  <2>1. conn' \in Connections
    <3>1. [conn EXCEPT !.pc = "check", !.used = model.loaded] \in Connections
      BY PcsKnown DEF Connections, Models
    <3> QED BY <1>9, <3>1, DecideTyped, CodesKnown DEF Score
  <2> QED BY <1>9, <2>1 DEF Score
<1>10. ASSUME NEW b \in BOOLEAN, CheckScores(b) PROVE ServerTypeOK'
  <2>1. conn' \in Connections
    BY <1>10, CodesKnown, PcsKnown DEF CheckScores, Decide, Unread, Connections
  <2> QED BY <1>10, <2>1 DEF CheckScores
<1>11. ASSUME NEW b \in BOOLEAN, ObserveOutcome(b) PROVE ServerTypeOK'
  <2>1. conn' \in Connections
    BY <1>11, PcsKnown DEF ObserveOutcome, Connections
  <2>2. [what |-> "scoring", code |-> conn.answer, load |-> LoadIncluded] \in Frame
    BY DEF Frame, Connections, LoadIncluded
  <2> QED BY <1>11, <2>1, <2>2 DEF ObserveOutcome
<1>12. ASSUME NEW b \in BOOLEAN, ServeSnapshot(b) PROVE ServerTypeOK'
  <2>1. conn' \in Connections
    <3>1. PICK fault : EvidenceAnswer(fault, snap.epoch, snap.at, snap.rep) /\ fault \in Codes
      BY <1>12, CodesKnown DEF ServeSnapshot, WatermarkFault
    <3>2. snap.epoch \in Nat /\ snap.at \in Nat /\ snap.rep \in Nat
      BY DEF Snapshots
    <3> QED BY <3>1, <3>2, AnswerTyped, CodesKnown DEF EvidenceAnswer
  <2> QED BY <1>12, <2>1 DEF ServeSnapshot, EvidenceAnswer
<1>13. ASSUME NEW b \in BOOLEAN, ServeDirect(b) PROVE ServerTypeOK'
  <2>1. conn' \in Connections
    BY <1>13, CodesKnown, PcsKnown DEF ServeDirect, EvidenceAnswer, WatermarkFault, Connections, Stores
  <2> QED BY <1>13, <2>1 DEF ServeDirect, EvidenceAnswer
<1>14. ASSUME NEW ok \in BOOLEAN, NEW b \in BOOLEAN, LoadModel(ok, b) PROVE ServerTypeOK'
  <2>1. frames' \in Seq(Frame)
    BY <1>14, TellTyped DEF LoadModel
  <2>2. conn' \in Connections
    BY <1>14, DecideTyped, MoveTyped, CodesKnown, PcsKnown DEF LoadModel
  <2>3. model' \in Models
    <3>1. files.holds \in Adapters
      BY DEF FileStates, Adapters
    <3>2. 1 - model.gen \in {0, 1} /\ model.print \in Nat /\ model.loaded \in Adapters
      BY DEF Models
    <3>3. \A g \in {0, 1}, a \in Adapters, p \in Nat : [model EXCEPT !.gen = g, !.loaded = a, !.print = p] \in Models
      BY DEF Models
    <3> QED BY <1>14, <3>1, <3>2, <3>3 DEF LoadModel, KeptPrint
  <2> QED BY <1>14, <2>1, <2>2, <2>3 DEF LoadModel
<1>15. ASSUME NEW b \in BOOLEAN, IdleUnload(b) PROVE ServerTypeOK'
  <2>1. frames' \in Seq(Frame)
    BY <1>15, TellTyped DEF IdleUnload
  <2>2. model' \in Models
    BY <1>15 DEF IdleUnload, Unloaded, Unread, Adapters, Models
  <2> QED BY <1>15, <2>1, <2>2 DEF IdleUnload, Change
<1>16. ASSUME NEW h \in {"live", "other"}, ReplaceAdapter(h) PROVE ServerTypeOK'
  <2>1. files' \in FileStates
    BY <1>16 DEF ReplaceAdapter, FileStates
  <2> QED BY <1>16, <2>1 DEF ReplaceAdapter, Change
<1>17. ASSUME RecordFact \/ ReplaceFacts PROVE ServerTypeOK'
  <2>1. facts' \in Stores
    <3>1. facts.at + 1 \in Nat /\ facts.epoch + 1 \in Nat
      BY DEF Stores
    <3> QED BY <1>17, <3>1, FactsTyped DEF RecordFact, ReplaceFacts
  <2> QED BY <1>17, <2>1 DEF RecordFact, ReplaceFacts, Change
<1>18. ASSUME CatchUp \/ SwitchSnapshot PROVE ServerTypeOK'
  <2>1. snap' \in Snapshots
    <3>1. CASE CatchUp
      BY <3>1 DEF CatchUp, Stores, Snapshots
    <3>2. CASE SwitchSnapshot
      BY <3>2 DEF SwitchSnapshot, Snapshots
    <3> QED BY <1>18, <3>1, <3>2
  <2> QED BY <1>18, <2>1 DEF CatchUp, SwitchSnapshot, Change
<1>19. ASSUME Quiesce \/ Resume \/ Drained PROVE ServerTypeOK'
  <2>1. maint' \in Rounds
    BY <1>19 DEF Quiesce, Resume, Drained, Rounds
  <2> QED BY <1>19, <2>1 DEF Quiesce, Resume, Drained, Change
<1>20. ASSUME NEW req \in Requests, Accept(req) PROVE ServerTypeOK'
  <2>1. conn' \in Connections
    BY <1>20, CodesKnown, PcsKnown DEF Accept, IdleConnection, NoRequest, Unread, Adapters, Connections, Models, Stores, FileStates
  <2> QED BY <1>20, <2>1 DEF Accept
<1> HIDE DEF ServerTypeOK, around
<1> QED BY <1>1, <1>2, <1>3, <1>4, <1>5, <1>6, <1>7, <1>8, <1>9, <1>10, <1>11, <1>12, <1>13, <1>14, <1>15, <1>16, <1>17, <1>18, <1>19, <1>20 DEF ServerNext, ServerStep, Surroundings
\* Moving on changes the program point alone.
LEMMA MoveFields ==
    ASSUME conn \in Connections, NEW pc, conn' = [conn EXCEPT !.pc = pc]
    PROVE  /\ conn'.pc = pc
           /\ conn'.req = conn.req /\ conn'.answer = conn.answer /\ conn'.leased = conn.leased /\ conn'.print = conn.print
           /\ conn'.changed = conn.changed /\ conn'.gen = conn.gen /\ conn'.used = conn.used /\ conn'.start = conn.start /\ conn'.point = conn.point
  BY DEF Connections

\* A refusal changes the program point and the answer.
LEMMA RefuseFields ==
    ASSUME conn \in Connections, NEW code, Refuse(code)
    PROVE  /\ conn'.pc = "send" /\ conn'.answer = code
           /\ conn'.req = conn.req /\ conn'.leased = conn.leased /\ conn'.print = conn.print
           /\ conn'.changed = conn.changed /\ conn'.gen = conn.gen /\ conn'.used = conn.used /\ conn'.start = conn.start /\ conn'.point = conn.point
  BY DEF Connections, Refuse

\* A decision forgets the fingerprint that was read, and changes the answer.
LEMMA DecideFields ==
    ASSUME conn \in Connections, NEW code, Decide(code)
    PROVE  /\ conn'.pc = "decided" /\ conn'.answer = code /\ conn'.print = 0 /\ conn'.changed = FALSE
           /\ conn'.req = conn.req /\ conn'.leased = conn.leased
           /\ conn'.gen = conn.gen /\ conn'.used = conn.used /\ conn'.start = conn.start /\ conn'.point = conn.point
  BY DEF Connections, Decide, Unread

\* What unload leaves of ModelState.
LEMMA UnloadedFields ==
    ASSUME model \in Models
    PROVE  /\ Unloaded(model).loaded = "none" /\ Unloaded(model).print = 0 /\ Unloaded(model).gen = model.gen
           /\ LET m == [Unloaded(model) EXCEPT !.digest = TRUE] IN m.loaded = "none" /\ m.print = 0 /\ m.gen = model.gen
  BY DEF Models, Unloaded, Unread

\* What read_request and the checks without a lease change.
LEMMA HandleFields ==
    ASSUME conn \in Connections, HandleRequest
    PROVE  /\ conn.pc = "read" /\ conn'.pc \in {"close", "lease", "send"}
           /\ conn'.req = conn.req /\ conn'.leased = conn.leased /\ conn'.print = conn.print /\ conn'.changed = conn.changed
           /\ conn'.gen = conn.gen /\ conn'.used = conn.used /\ conn'.start = conn.start /\ conn'.point = conn.point
           /\ conn'.pc \in {"lease", "close"} => conn'.answer = conn.answer
           /\ conn'.pc = "lease" => conn.req.kind \in {"scoring", "evidence"}
           /\ conn'.answer # "ok" \/ conn'.answer = conn.answer
  BY MoveFields, RefuseFields DEF HandleRequest

\* Every step preserves what the fingerprints prove of the loaded adapter.
LEMMA StepAdapter == ASSUME ServerTypeOK, ServerTypeOK', LeaseInv, AdapterInv, ServerNext PROVE AdapterInv'
<1> USE DEF ServerTypeOK, AdapterInv, Connections, FileStates, Models, around, Fingerprint
<1>1. ASSUME HandleRequest PROVE AdapterInv'
  BY <1>1, HandleFields DEF HandleRequest
<1>2. ASSUME LoadCheck PROVE AdapterInv'
  BY <1>2 DEF LoadCheck
<1>3. ASSUME ReadFingerprint PROVE AdapterInv'
  <2>1. conn'.pc \in {"loading", "hash"} /\ (conn'.pc = "loading" => files.stamp = model.print)
    BY <1>3 DEF ReadFingerprint
  <2>2. /\ conn'.print = files.stamp /\ conn'.start = conn.start /\ conn'.used = conn.used /\ conn'.changed = conn.changed
    BY <1>3 DEF ReadFingerprint
  <2>3. conn.pc = "pin" /\ model' = model /\ files' = files
    BY <1>3 DEF ReadFingerprint
  <2> QED BY SMTT(30), <2>1, <2>2, <2>3
<1>4. ASSUME Route PROVE AdapterInv'
  BY <1>4 DEF Route
<1>5. ASSUME Send PROVE AdapterInv'
  BY <1>5 DEF Send
<1>6. ASSUME Close PROVE AdapterInv'
  BY <1>6 DEF Close, IdleConnection, Unread
<1>7. ASSUME NEW b \in BOOLEAN, BeginRequest(b) PROVE AdapterInv'
  <2>1. conn'.pc \in {"load", "route", "send"} /\ conn'.start = conn.start /\ conn'.used = conn.used /\ conn'.print = conn.print
    BY ZenonT(60), <1>7, RefuseFields DEF BeginRequest
  <2> QED BY <1>7, <2>1 DEF BeginRequest
<1>8. ASSUME NEW b \in BOOLEAN, PinIdentities(b) PROVE AdapterInv'
  <2>1. CASE files.holds = "live"
    <3>1. conn'.pc = "loading" /\ conn'.start = conn.start /\ conn'.used = conn.used /\ conn'.print = conn.print
      BY <1>8, <2>1, MoveFields DEF PinIdentities
    <3>2. model'.print \in {0, conn.print} /\ model'.loaded = "none"
      <4>1. CASE model.loaded # "none" /\ conn.changed
        BY <1>8, <2>1, <4>1, UnloadedFields DEF PinIdentities
      <4>2. CASE ~(model.loaded # "none" /\ conn.changed)
        <5>1. model.loaded = "none"
          BY <1>8, <4>2 DEF PinIdentities
        <5>2. model' = [model EXCEPT !.print = conn.print, !.digest = TRUE]
          BY <1>8, <2>1, <4>2 DEF PinIdentities
        <5> QED BY <5>1, <5>2
      <4> QED BY <4>1, <4>2
    <3> QED BY SMTT(30), <1>8, <2>1, <3>1, <3>2 DEF PinIdentities
  <2>2. CASE files.holds # "live"
    <3>1. Decide("identity_mismatch") /\ model' = Unloaded(model) /\ files' = files /\ conn.pc = "hash"
      BY <1>8, <2>2 DEF PinIdentities
    <3>2. conn'.pc = "decided" /\ conn'.print = 0 /\ conn'.start = conn.start /\ conn'.used = conn.used
      BY <3>1, DecideFields
    <3>3. model'.loaded = "none" /\ model'.print = 0
      BY <3>1, UnloadedFields
    <3> QED BY <3>1, <3>2, <3>3
  <2> QED BY <2>1, <2>2
<1>9. ASSUME NEW b \in BOOLEAN, Score(b) PROVE AdapterInv'
  <2>1. conn'.pc \in {"decided", "check"} /\ conn'.start = conn.start /\ conn'.used \in {conn.used, model.loaded} /\ conn'.print \in {0, conn.print}
    <3>1. CASE conn' = [conn EXCEPT !.pc = "check", !.used = model.loaded]
      BY <3>1
    <3>2. CASE \E code : Decide(code)
      BY <3>2, DecideFields
    <3> QED BY <1>9, <3>1, <3>2 DEF Score
  <2> QED BY SMTT(30), <1>9, <2>1 DEF Score
<1>10. ASSUME NEW b \in BOOLEAN, CheckScores(b) PROVE AdapterInv'
  BY <1>10 DEF CheckScores, Decide, Unread
<1>11. ASSUME NEW b \in BOOLEAN, ObserveOutcome(b) PROVE AdapterInv'
  BY <1>11 DEF ObserveOutcome
<1>12. ASSUME NEW b \in BOOLEAN, ServeSnapshot(b) PROVE AdapterInv'
  BY <1>12 DEF ServeSnapshot, EvidenceAnswer
<1>13. ASSUME NEW b \in BOOLEAN, ServeDirect(b) PROVE AdapterInv'
  BY SMTT(30), <1>13 DEF ServeDirect, EvidenceAnswer
<1>14. ASSUME NEW ok \in BOOLEAN, NEW b \in BOOLEAN, LoadModel(ok, b) PROVE AdapterInv'
  <2>1. conn'.pc \in {"decided", "score"} /\ conn'.start = conn.start /\ conn'.used = conn.used /\ conn'.print \in {0, conn.print}
    BY <1>14, DecideFields, MoveFields DEF LoadModel
  <2>2. model'.print = model.print /\ model'.loaded \in {model.loaded, files.holds} /\ (conn'.pc = "score" => model'.loaded = files.holds)
    BY <1>14, DecideFields DEF LoadModel, KeptPrint
  <2>3. files' = files /\ conn.pc = "loading"
    BY <1>14 DEF LoadModel
  <2> HIDE <1>14
  <2> QED BY SMTT(30), <2>1, <2>2, <2>3
<1>15. ASSUME NEW b \in BOOLEAN, IdleUnload(b) PROVE AdapterInv'
  BY <1>15 DEF IdleUnload, Unloaded, Unread
<1>16. ASSUME NEW h \in {"live", "other"}, ReplaceAdapter(h) PROVE AdapterInv'
  <2>1. files'.stamp = files.stamp + 1 /\ conn' = conn /\ model' = model
    BY <1>16 DEF ReplaceAdapter
  <2> QED BY SMTT(30), <2>1
<1>17. ASSUME RecordFact \/ ReplaceFacts \/ CatchUp \/ SwitchSnapshot PROVE AdapterInv'
  <2>1. UNCHANGED <<conn, files, model>>
    BY <1>17 DEF RecordFact, ReplaceFacts, CatchUp, SwitchSnapshot
  <2> QED BY <2>1
<1>19. ASSUME Quiesce \/ Resume \/ Drained PROVE AdapterInv'
  BY <1>19 DEF Quiesce, Resume, Drained
<1>20. ASSUME NEW req \in Requests, Accept(req) PROVE AdapterInv'
  BY SMTT(30), <1>20 DEF Accept, IdleConnection, NoRequest, Unread
<1> HIDE DEF ServerTypeOK, AdapterInv, Connections, FileStates, Models, around, Fingerprint
<1> QED BY <1>1, <1>2, <1>3, <1>4, <1>5, <1>6, <1>7, <1>8, <1>9, <1>10, <1>11, <1>12, <1>13, <1>14, <1>15, <1>16, <1>17, <1>19, <1>20 DEF ServerNext, ServerStep, Surroundings
\* What the steps of a scoring request leave alone.
LEMMA ScoringFields ==
    ASSUME conn \in Connections, NEW ok, NEW b, PinIdentities(b) \/ Score(b) \/ LoadModel(ok, b)
    PROVE  /\ conn.pc \in {"hash", "loading", "score"} /\ conn'.pc \in {"loading", "score", "check", "decided"}
           /\ conn.pc = "score" => conn'.pc \in {"check", "decided"}
           /\ conn'.req = conn.req /\ conn'.leased = conn.leased /\ conn'.gen = conn.gen /\ conn'.start = conn.start /\ conn'.point = conn.point
<1>1. CASE PinIdentities(b)
  BY <1>1, MoveFields, DecideFields DEF PinIdentities
<1>2. CASE Score(b)
  <2>1. CASE conn' = [conn EXCEPT !.pc = "check", !.used = model.loaded]
    BY <1>2, <2>1 DEF Connections, Score
  <2>2. CASE \E code : Decide(code)
    BY <1>2, <2>2, DecideFields DEF Score
  <2> QED BY <1>2, <2>1, <2>2 DEF Score
<1>3. CASE LoadModel(ok, b)
  BY <1>3, MoveFields, DecideFields DEF LoadModel
<1> QED BY <1>1, <1>2, <1>3

\* What begin_request changes, granted or refused.
LEMMA BeginFields ==
    ASSUME conn \in Connections, maint \in Rounds, NEW b, BeginRequest(b)
    PROVE  /\ conn.pc = "lease"
           /\ conn'.req = conn.req /\ conn'.gen = conn.gen /\ conn'.used = conn.used /\ conn'.start = conn.start
           /\ conn'.point = conn.point /\ conn'.print = conn.print
           /\ Open => /\ conn'.leased = TRUE /\ conn'.answer = conn.answer
                      /\ conn'.pc = IF conn.req.kind = "scoring" THEN "load" ELSE "route"
                      /\ maint'.leases = maint.leases + 1 /\ maint'.phase = maint.phase
           /\ ~Open => conn'.leased = conn.leased /\ conn'.pc = "send" /\ conn'.answer = "maintenance_in_progress" /\ maint' = maint
<1>1. CASE Open
  <2>1. /\ conn' = [conn EXCEPT !.leased = TRUE, !.pc = IF conn.req.kind = "scoring" THEN "load" ELSE "route"]
        /\ maint' = [maint EXCEPT !.leases = @ + 1]
    BY <1>1 DEF BeginRequest
  <2>2. conn'.pc = IF conn.req.kind = "scoring" THEN "load" ELSE "route"
    BY <2>1 DEF Connections
  <2>3. conn'.leased = TRUE /\ conn'.answer = conn.answer
    BY <2>1 DEF Connections
  <2>4. /\ conn'.req = conn.req /\ conn'.gen = conn.gen /\ conn'.used = conn.used /\ conn'.start = conn.start
        /\ conn'.point = conn.point /\ conn'.print = conn.print
    BY <2>1 DEF Connections
  <2>5. maint'.leases = maint.leases + 1 /\ maint'.phase = maint.phase
    BY <2>1 DEF Rounds
  <2>6. conn.pc = "lease"
    BY DEF BeginRequest
  <2> QED BY <1>1, <2>2, <2>3, <2>4, <2>5, <2>6
<1>2. CASE ~Open
  BY <1>2, RefuseFields DEF BeginRequest
<1> QED BY <1>1, <1>2

\* What an evidence answer changes.
LEMMA AnswerFields ==
    ASSUME conn \in Connections, NEW fault, NEW e, NEW at, NEW r, EvidenceAnswer(fault, e, at, r)
    PROVE  /\ conn'.pc = "send" /\ conn'.answer = (IF fault = "none" THEN "ok" ELSE fault)
           /\ fault = "none" => conn'.point.epoch = e /\ conn'.point.at = at
           /\ conn'.req = conn.req /\ conn'.leased = conn.leased /\ conn'.gen = conn.gen /\ conn'.start = conn.start
           /\ model' = model /\ frames' = frames /\ around' = around
<1>1. conn' = [conn EXCEPT !.pc = "send", !.answer = IF fault = "none" THEN "ok" ELSE fault,
                            !.point = IF fault = "none" THEN [epoch |-> e, at |-> at, rep |-> r] ELSE @]
  BY DEF EvidenceAnswer
<1>2. conn'.pc = "send" /\ conn'.answer = (IF fault = "none" THEN "ok" ELSE fault)
  BY <1>1 DEF Connections
<1>3. fault = "none" => conn'.point.epoch = e /\ conn'.point.at = at
  BY <1>1 DEF Connections
<1>4. conn'.req = conn.req /\ conn'.leased = conn.leased /\ conn'.gen = conn.gen /\ conn'.start = conn.start
  BY <1>1 DEF Connections
<1> QED BY <1>2, <1>3, <1>4 DEF EvidenceAnswer

\* Recording and replacing move the clock of the facts forward.
LEMMA FactsFields ==
    ASSUME facts \in Stores, RecordFact \/ ReplaceFacts
    PROVE  /\ facts'.at = facts.at + 1
           /\ RecordFact => facts'.epoch = facts.epoch
           /\ conn' = conn /\ maint' = maint /\ frames' = frames /\ model' = model
  BY DEF RecordFact, ReplaceFacts, Stores

\* A watermark without a fault names the epoch that is served, or none.
LEMMA WatermarkChecked ==
    ASSUME NEW req, NEW e, NEW at
    PROVE  /\ WatermarkFault(req, e, at) # "ok"
           /\ WatermarkFault(req, e, at) = "none" => req.water.epoch = 0 \/ req.water.epoch = e
  BY DEF WatermarkFault

\* An answer through the snapshot is of a caught-up one, of the declared epoch.
LEMMA SnapshotAnswer ==
    ASSUME NEW b, ServeSnapshot(b)
    PROVE  \E fault : /\ EvidenceAnswer(fault, snap.epoch, snap.at, snap.rep) /\ fault # "ok"
                      /\ fault = "none" => CaughtUp /\ (conn.req.water.epoch = 0 \/ conn.req.water.epoch = snap.epoch)
<1> DEFINE stale == WatermarkFault(conn.req, snap.epoch, snap.at)
           fault == IF ~CaughtUp THEN "not_caught_up" ELSE IF stale # "none" THEN stale ELSE IF b THEN "none" ELSE "oracle_fault"
<1>1. EvidenceAnswer(fault, snap.epoch, snap.at, snap.rep)
  BY DEF ServeSnapshot
<1>2. stale # "ok" /\ (stale = "none" => conn.req.water.epoch = 0 \/ conn.req.water.epoch = snap.epoch)
  BY WatermarkChecked
<1> HIDE DEF stale
<1>3. fault # "ok" /\ (fault = "none" => CaughtUp /\ stale = "none")
  BY <1>2
<1> HIDE DEF fault
<1> QED BY <1>1, <1>2, <1>3

\* A direct answer is of the declared epoch, or the request has seen no store.
LEMMA DirectAnswer ==
    ASSUME NEW b, ServeDirect(b)
    PROVE  \E fault : /\ EvidenceAnswer(fault, IF facts.present THEN facts.epoch ELSE 0, facts.at, 1) /\ fault # "ok"
                      /\ fault = "none" => conn.req.water.epoch = 0 \/ (facts.present /\ conn.req.water.epoch = facts.epoch)
<1> DEFINE stale == WatermarkFault(conn.req, facts.epoch, facts.at)
           fault == IF facts.present THEN IF stale # "none" THEN stale ELSE IF b THEN "none" ELSE "oracle_fault"
                    ELSE IF conn.req.water.epoch # 0 THEN "fact_store_fault" ELSE "none"
<1>1. EvidenceAnswer(fault, IF facts.present THEN facts.epoch ELSE 0, facts.at, 1)
  BY DEF ServeDirect
<1>2. stale # "ok" /\ (stale = "none" => conn.req.water.epoch = 0 \/ conn.req.water.epoch = facts.epoch)
  BY WatermarkChecked
<1> HIDE DEF stale
<1>3. fault # "ok" /\ (fault = "none" => conn.req.water.epoch = 0 \/ (facts.present /\ stale = "none"))
  BY <1>2
<1> HIDE DEF fault
<1> QED BY <1>1, <1>2, <1>3

\* Every step preserves what the lease holds in place: facts are replaced only
\* in quiet, which is not reached while a request is under way.
LEMMA StepLease == ASSUME ServerTypeOK, ServerTypeOK', LeaseInv, AdapterInv, ServerNext PROVE LeaseInv'
<1> USE DEF ServerTypeOK, LeaseInv, AnswerOfEpoch, Succeeded, Connections, Rounds, Working, Scoring, Evidence, around
<1>1. ASSUME HandleRequest PROVE LeaseInv'
  BY <1>1, HandleFields DEF HandleRequest
<1>2. ASSUME LoadCheck PROVE LeaseInv'
  BY <1>2 DEF LoadCheck
<1>3. ASSUME ReadFingerprint PROVE LeaseInv'
  BY <1>3 DEF ReadFingerprint
<1>4. ASSUME Route PROVE LeaseInv'
  BY <1>4 DEF Route
<1>5. ASSUME Send PROVE LeaseInv'
  BY <1>5 DEF Send
<1>6. ASSUME Close PROVE LeaseInv'
  BY <1>6 DEF Close, IdleConnection, NoRequest
<1>7. ASSUME NEW b \in BOOLEAN, BeginRequest(b) PROVE LeaseInv'
  <2>1. CASE Open
    <3>1. maint.phase = "open" /\ maint.leases = 0 /\ facts' = facts
      BY <1>7, <2>1 DEF BeginRequest, Open
    <3>2. conn.pc = "lease" /\ conn.answer = "none" /\ conn.req.kind \in {"scoring", "evidence"}
      BY <1>7 DEF BeginRequest
    <3>3. /\ conn'.leased = TRUE /\ conn'.answer = "none" /\ conn'.req = conn.req
          /\ conn.req.kind = "scoring" => conn'.pc = "load"
          /\ conn.req.kind # "scoring" => conn'.pc = "route"
          /\ maint'.leases = maint.leases + 1 /\ maint'.phase = maint.phase
      BY <1>7, <2>1, <3>2, BeginFields
    <3> QED BY SMTT(30), <3>1, <3>2, <3>3
  <2>2. CASE ~Open
    BY <1>7, <2>2, BeginFields DEF BeginRequest
  <2> QED BY <2>1, <2>2
<1>8. ASSUME NEW b \in BOOLEAN, PinIdentities(b) PROVE LeaseInv'
  BY <1>8, ScoringFields DEF PinIdentities
<1>9. ASSUME NEW b \in BOOLEAN, Score(b) PROVE LeaseInv'
  BY <1>9, ScoringFields DEF Score
<1>10. ASSUME NEW b \in BOOLEAN, CheckScores(b) PROVE LeaseInv'
  BY <1>10, DecideFields DEF CheckScores
<1>11. ASSUME NEW b \in BOOLEAN, ObserveOutcome(b) PROVE LeaseInv'
  BY <1>11 DEF ObserveOutcome
<1>12. ASSUME NEW b \in BOOLEAN, ServeSnapshot(b) PROVE LeaseInv'
  <2>1. PICK fault : EvidenceAnswer(fault, snap.epoch, snap.at, snap.rep) /\ fault # "ok" /\ (fault = "none" => snap.epoch = facts.epoch)
    BY <1>12, SnapshotAnswer DEF CaughtUp
  <2>2. conn.pc = "snapshot"
    BY <1>12 DEF ServeSnapshot
  <2> QED BY <2>1, <2>2, AnswerFields
<1>13. ASSUME NEW b \in BOOLEAN, ServeDirect(b) PROVE LeaseInv'
  <2>1. PICK fault : EvidenceAnswer(fault, IF facts.present THEN facts.epoch ELSE 0, facts.at, 1) /\ fault # "ok"
    BY <1>13, DirectAnswer
  <2>2. conn.pc = "direct"
    BY <1>13 DEF ServeDirect
  <2> QED BY <2>1, <2>2, AnswerFields
<1>14. ASSUME NEW ok \in BOOLEAN, NEW b \in BOOLEAN, LoadModel(ok, b) PROVE LeaseInv'
  BY <1>14, ScoringFields DEF LoadModel
<1>15. ASSUME NEW b \in BOOLEAN, IdleUnload(b) PROVE LeaseInv'
  BY <1>15 DEF IdleUnload
<1>16. ASSUME NEW h \in {"live", "other"}, ReplaceAdapter(h) PROVE LeaseInv'
  BY <1>16 DEF ReplaceAdapter
<1>17. ASSUME RecordFact \/ ReplaceFacts PROVE LeaseInv'
  <2>1. CASE RecordFact
    BY <2>1, FactsFields
  <2>2. CASE ReplaceFacts
    <3>1. maint.leases = 0 /\ conn.leased = FALSE
      BY <2>2 DEF ReplaceFacts
    <3> QED BY <2>2, <3>1, FactsFields
  <2> QED BY <1>17, <2>1, <2>2
<1>18. ASSUME CatchUp \/ SwitchSnapshot PROVE LeaseInv'
  BY <1>18 DEF CatchUp, SwitchSnapshot
<1>19. ASSUME Quiesce \/ Resume \/ Drained PROVE LeaseInv'
  <2>1. /\ maint'.leases = maint.leases /\ (maint'.phase = "quiet" => maint.leases = 0)
        /\ conn' = conn /\ facts' = facts
    <3>1. CASE Quiesce
      BY <3>1 DEF Quiesce
    <3>2. CASE Resume
      BY <3>2 DEF Resume
    <3>3. CASE Drained
      BY <3>3 DEF Drained
    <3> QED BY <1>19, <3>1, <3>2, <3>3
  <2> QED BY <2>1
<1>20. ASSUME NEW req \in Requests, Accept(req) PROVE LeaseInv'
  BY <1>20 DEF Accept, IdleConnection, NoRequest
<1> HIDE DEF ServerTypeOK, LeaseInv, AnswerOfEpoch, Succeeded, Connections, Rounds, Working, Scoring, Evidence, around
<1> QED BY <1>1, <1>2, <1>3, <1>4, <1>5, <1>6, <1>7, <1>8, <1>9, <1>10, <1>11, <1>12, <1>13, <1>14, <1>15, <1>16, <1>17, <1>18, <1>19, <1>20 DEF ServerNext, ServerStep, Surroundings

\* Every step preserves that an answer covers the facts of the request's
\* arrival.
LEMMA StepCurrent == ASSUME ServerTypeOK, ServerTypeOK', LeaseInv, CurrentInv, ServerNext PROVE CurrentInv'
<1> USE DEF ServerTypeOK, CurrentInv, EvidenceCurrent, Succeeded, Connections, Stores, around
<1>1. ASSUME HandleRequest PROVE CurrentInv'
  BY <1>1, HandleFields DEF HandleRequest
<1>2. ASSUME LoadCheck PROVE CurrentInv'
  BY <1>2 DEF LoadCheck
<1>3. ASSUME ReadFingerprint PROVE CurrentInv'
  BY <1>3 DEF ReadFingerprint
<1>4. ASSUME Route PROVE CurrentInv'
  BY <1>4 DEF Route
<1>5. ASSUME Send PROVE CurrentInv'
  BY <1>5 DEF Send
<1>6. ASSUME Close PROVE CurrentInv'
  BY <1>6 DEF Close, IdleConnection, NoRequest
<1>7. ASSUME NEW b \in BOOLEAN, BeginRequest(b) PROVE CurrentInv'
  <2>1. CASE Open
    BY <1>7, <2>1, BeginFields DEF BeginRequest
  <2>2. CASE ~Open
    BY <1>7, <2>2, BeginFields DEF BeginRequest
  <2> QED BY <2>1, <2>2
<1>8. ASSUME NEW b \in BOOLEAN, PinIdentities(b) PROVE CurrentInv'
  BY <1>8, ScoringFields DEF PinIdentities, LeaseInv, Scoring, Working
<1>9. ASSUME NEW b \in BOOLEAN, Score(b) PROVE CurrentInv'
  BY <1>9, ScoringFields DEF Score, LeaseInv, Scoring, Working
<1>10. ASSUME NEW b \in BOOLEAN, CheckScores(b) PROVE CurrentInv'
  BY <1>10, DecideFields DEF CheckScores, LeaseInv, Working, Scoring
<1>11. ASSUME NEW b \in BOOLEAN, ObserveOutcome(b) PROVE CurrentInv'
  BY <1>11 DEF ObserveOutcome
<1>12. ASSUME NEW b \in BOOLEAN, ServeSnapshot(b) PROVE CurrentInv'
  <2>1. PICK fault : /\ EvidenceAnswer(fault, snap.epoch, snap.at, snap.rep)
                     /\ fault # "ok"
                     /\ fault = "none" => snap.at >= facts.at /\ (conn.req.water.epoch # 0 => snap.epoch = conn.req.water.epoch)
    BY <1>12, SnapshotAnswer DEF CaughtUp
  <2>2. conn.pc = "snapshot" /\ snap.at \in Nat /\ (fault # "none" => (IF fault = "none" THEN "ok" ELSE fault) = fault)
    BY <1>12 DEF ServeSnapshot, Snapshots
  <2> QED BY SMTT(30), <2>1, <2>2, AnswerFields
<1>13. ASSUME NEW b \in BOOLEAN, ServeDirect(b) PROVE CurrentInv'
  BY <1>13, RequestShape DEF ServeDirect, EvidenceAnswer, WatermarkFault
<1>14. ASSUME NEW ok \in BOOLEAN, NEW b \in BOOLEAN, LoadModel(ok, b) PROVE CurrentInv'
  BY <1>14, ScoringFields DEF LoadModel, LeaseInv, Scoring, Working
<1>15. ASSUME NEW b \in BOOLEAN, IdleUnload(b) PROVE CurrentInv'
  BY <1>15 DEF IdleUnload
<1>16. ASSUME NEW h \in {"live", "other"}, ReplaceAdapter(h) PROVE CurrentInv'
  BY <1>16 DEF ReplaceAdapter
<1>17. ASSUME RecordFact \/ ReplaceFacts PROVE CurrentInv'
  BY SMTT(30), <1>17, FactsFields
<1>18. ASSUME CatchUp \/ SwitchSnapshot PROVE CurrentInv'
  BY <1>18 DEF CatchUp, SwitchSnapshot
<1>19. ASSUME Quiesce \/ Resume \/ Drained PROVE CurrentInv'
  BY <1>19 DEF Quiesce, Resume, Drained
<1>20. ASSUME NEW req \in Requests, Accept(req) PROVE CurrentInv'
  BY SMTT(30), <1>20 DEF Accept, IdleConnection, NoRequest
<1> HIDE DEF ServerTypeOK, CurrentInv, EvidenceCurrent, Succeeded, Connections, Stores, around
<1> QED BY <1>1, <1>2, <1>3, <1>4, <1>5, <1>6, <1>7, <1>8, <1>9, <1>10, <1>11, <1>12, <1>13, <1>14, <1>15, <1>16, <1>17, <1>18, <1>19, <1>20 DEF ServerNext, ServerStep, Surroundings
\* What one more note does to the notes.
LEMMA AppendFrame ==
    ASSUME frames \in Seq(Frame), NEW f, frames' = Append(frames, f)
    PROVE  /\ Len(frames) \in Nat /\ Len(frames') = Len(frames) + 1
           /\ frames'[Len(frames) + 1] = f
           /\ \A k \in 1 .. Len(frames) : frames'[k] = frames[k]
           /\ \A k \in 1 .. Len(frames') : k \in 1 .. Len(frames) \/ k = Len(frames) + 1
  OBVIOUS

\* A note is added behind the notes that are there, if at all.
LEMMA TellGrows ==
    ASSUME NEW what, NEW b \in BOOLEAN, frames \in Seq(Frame), Tell(what, b)
    PROVE  /\ Len(frames') \in Nat /\ Len(frames) <= Len(frames')
           /\ \A k \in 1 .. Len(frames) : frames'[k] = frames[k]
           /\ \A k \in 1 .. Len(frames') : k \notin 1 .. Len(frames) => frames'[k].what = what
<1>1. CASE b
  <2> DEFINE f == [what |-> what, code |-> "none", load |-> FALSE]
  <2>1. frames' = Append(frames, f) /\ f.what = what
    BY <1>1 DEF Tell
  <2> HIDE DEF f
  <2> QED BY <2>1
<1>2. CASE ~b
  BY <1>2 DEF Tell
<1> QED BY <1>1, <1>2

\* A note other than a load's or an outcome's leaves both stories as they were.
LEMMA QuietNote ==
    ASSUME frames \in Seq(Frame), frames' \in Seq(Frame),
           NEW what \in {"request", "unload"}, NEW b \in BOOLEAN, Tell(what, b) \/ frames' = frames
    PROVE  /\ NoOutcome => NoOutcome'
           /\ LoadTold' => LoadTold
           /\ OutcomeTold /\ conn' = conn => OutcomeTold'
<1>1. /\ Len(frames) \in Nat /\ Len(frames') \in Nat /\ Len(frames) <= Len(frames')
      /\ \A k \in 1 .. Len(frames) : frames'[k] = frames[k]
      /\ \A k \in 1 .. Len(frames') : k \notin 1 .. Len(frames) => frames'[k].what = what
  BY TellGrows
<1>2. NoOutcome => NoOutcome'
  BY <1>1 DEF NoOutcome
<1>3. LoadTold' => LoadTold
  BY <1>1 DEF LoadTold
<1>4. ASSUME OutcomeTold, conn' = conn PROVE OutcomeTold'
  BY <1>1, <1>4 DEF OutcomeTold
<1> QED BY <1>2, <1>3, <1>4

\* Every step preserves the order of what the archive hears: a load before the
\* outcome that owns to it.
LEMMA StepTold == ASSUME ServerTypeOK, ServerTypeOK', LeaseInv, ToldInv, ServerNext PROVE ToldInv'
<1> USE DEF ServerTypeOK, ToldInv, Connections, BeforeLoad, around
<1>0. ASSUME frames' = frames, model' = model, conn'.gen = conn.gen, conn'.pc # "send",
             conn'.pc \in BeforeLoad => conn.pc \in BeforeLoad,
             conn'.pc \in BeforeLoad \cup {"score", "check", "decided"} => conn.pc \in BeforeLoad \cup {"score", "check", "decided"}
      PROVE  ToldInv'
  BY <1>0 DEF NoOutcome, LoadTold, OutcomeTold
<1>1. ASSUME HandleRequest PROVE ToldInv'
  <2>1. frames' = frames /\ model' = model /\ NoOutcome'
    BY <1>1 DEF HandleRequest, NoOutcome
  <2> QED BY <1>1, <2>1, HandleFields DEF LoadTold, NoOutcome, OutcomeTold
<1>2. ASSUME LoadCheck PROVE ToldInv'
  BY <1>0, <1>2 DEF LoadCheck
<1>3. ASSUME ReadFingerprint PROVE ToldInv'
  BY <1>0, <1>3 DEF ReadFingerprint
<1>4. ASSUME Route PROVE ToldInv'
  BY <1>0, <1>4 DEF Route
<1>5. ASSUME Send PROVE ToldInv'
  BY <1>0, <1>5 DEF Send
<1>6. ASSUME Close PROVE ToldInv'
  <2>1. frames' = <<>> /\ conn'.pc = "idle"
    BY <1>6 DEF Close, IdleConnection
  <2> QED BY <2>1 DEF NoOutcome, LoadTold, OutcomeTold
<1>7. ASSUME NEW b \in BOOLEAN, BeginRequest(b) PROVE ToldInv'
  <2>1. /\ NoOutcome /\ model' = model /\ conn'.gen = conn.gen /\ conn.pc = "lease" /\ conn'.pc \in {"load", "route", "send"}
    BY <1>7, BeginFields DEF BeginRequest
  <2>2. NoOutcome' /\ (LoadTold' => LoadTold)
    BY <1>7, <2>1, QuietNote DEF BeginRequest
  <2>3. OutcomeTold'
    BY <2>2 DEF NoOutcome, OutcomeTold
  <2> QED BY <2>1, <2>2, <2>3
<1>8. ASSUME NEW b \in BOOLEAN, PinIdentities(b) PROVE ToldInv'
  <2>1. NoOutcome /\ conn'.gen = conn.gen /\ conn.pc = "hash" /\ conn'.pc \in {"loading", "decided"}
    BY <1>8, MoveFields, DecideFields DEF PinIdentities
  <2>2. NoOutcome' /\ (LoadTold' => LoadTold)
    BY <1>8, <2>1, QuietNote DEF PinIdentities
  <2>3. model'.gen = model.gen
    BY ZenonT(60), <1>8, UnloadedFields DEF PinIdentities, Models
  <2> QED BY <2>1, <2>2, <2>3 DEF OutcomeTold
<1>9. ASSUME NEW b \in BOOLEAN, Score(b) PROVE ToldInv'
  <2>1. conn'.pc \in {"check", "decided"} /\ conn.pc = "score" /\ conn'.gen = conn.gen
    BY <1>9, ScoringFields DEF Score
  <2> QED BY <1>0, <1>9, <2>1 DEF Score
<1>10. ASSUME NEW b \in BOOLEAN, CheckScores(b) PROVE ToldInv'
  BY <1>0, <1>10, DecideFields DEF CheckScores
<1>11. ASSUME NEW b \in BOOLEAN, ObserveOutcome(b) PROVE ToldInv'
  <2>1. conn.pc = "decided" /\ conn'.pc = "send" /\ conn'.gen = conn.gen /\ conn'.answer = conn.answer /\ model' = model
    BY <1>11, MoveFields DEF ObserveOutcome
  <2>2. CASE ~b
    BY <1>11, <2>1, <2>2 DEF ObserveOutcome, NoOutcome, LoadTold, OutcomeTold
  <2>3. CASE b
    <3> DEFINE f == [what |-> "scoring", code |-> conn.answer, load |-> LoadIncluded]
    <3>1. frames' = Append(frames, f) /\ f.what = "scoring" /\ f.code = conn.answer /\ (f.load <=> model.gen # conn.gen)
      BY <1>11, <2>3 DEF ObserveOutcome, LoadIncluded
    <3> HIDE DEF f
    <3>2. Len(frames) \in Nat /\ Len(frames') = Len(frames) + 1 /\ frames'[Len(frames) + 1] = f /\ \A k \in 1 .. Len(frames) : frames'[k] = frames[k]
      BY <3>1, AppendFrame
    <3>3. ASSUME NEW k \in 1 .. Len(frames') PROVE k \in 1 .. Len(frames) \/ (k = Len(frames) + 1 /\ frames'[k] = f)
      BY <3>1, AppendFrame
    <3>4. LoadTold' => LoadTold
      BY <3>1, <3>2, <3>3 DEF LoadTold
    <3>5. ASSUME NEW k \in 1 .. Len(frames'), frames'[k].what = "scoring"
          PROVE  frames'[k].code = conn'.answer /\ ((\E j \in 1 .. k : frames'[j].what = "load") => frames'[k].load)
      <4>1. k = Len(frames) + 1 /\ frames'[k] = f
        BY <2>1, <3>2, <3>3, <3>5 DEF NoOutcome
      <4>2. (\E j \in 1 .. k : frames'[j].what = "load") => LoadTold
        <5>1. ASSUME NEW j \in 1 .. k, frames'[j].what = "load" PROVE j \in 1 .. Len(frames) /\ frames[j].what = "load"
          <6>1. j \in 1 .. Len(frames')
            BY <3>2, <4>1
          <6>2. j # Len(frames) + 1
            BY <3>1, <3>2, <5>1
          <6> QED BY <3>2, <3>3, <5>1, <6>1, <6>2
        <5> QED BY <5>1 DEF LoadTold
      <4> QED BY <2>1, <3>1, <4>1, <4>2
    <3>6. OutcomeTold'
      BY <3>5 DEF OutcomeTold
    <3> QED BY <2>1, <3>4, <3>6
  <2> QED BY <2>2, <2>3
<1>12. ASSUME NEW b \in BOOLEAN, ServeSnapshot(b) PROVE ToldInv'
  <2>1. conn.pc = "snapshot" /\ conn.req.kind = "evidence"
    BY <1>12 DEF ServeSnapshot, LeaseInv, Evidence
  <2> QED BY SMTT(30), <1>12, <2>1, SnapshotAnswer, AnswerFields DEF NoOutcome, LoadTold, OutcomeTold
<1>13. ASSUME NEW b \in BOOLEAN, ServeDirect(b) PROVE ToldInv'
  <2>1. conn.pc = "direct" /\ conn.req.kind = "evidence"
    BY <1>13 DEF ServeDirect, LeaseInv, Evidence
  <2> QED BY SMTT(30), <1>13, <2>1, DirectAnswer, AnswerFields DEF NoOutcome, LoadTold, OutcomeTold
<1>14. ASSUME NEW ok \in BOOLEAN, NEW b \in BOOLEAN, LoadModel(ok, b) PROVE ToldInv'
  <2>1. conn.pc = "loading" /\ conn'.pc \in {"score", "decided"} /\ conn'.gen = conn.gen /\ NoOutcome
    BY <1>14, MoveFields, DecideFields DEF LoadModel
  <2>2. model'.gen # conn'.gen
    <3>1. model'.gen = 1 - model.gen /\ model.gen \in {0, 1} /\ model.gen = conn.gen
      BY <1>14, <2>1 DEF LoadModel, Models
    <3> QED BY SMTT(30), <2>1, <3>1
  <2>3. NoOutcome'
    <3>1. /\ Len(frames') \in Nat /\ Len(frames) <= Len(frames')
          /\ \A k \in 1 .. Len(frames) : frames'[k] = frames[k]
          /\ \A k \in 1 .. Len(frames') : k \notin 1 .. Len(frames) => frames'[k].what = "load"
      BY SMTT(30), <1>14, TellGrows DEF LoadModel
    <3> QED BY <2>1, <3>1 DEF NoOutcome
  <2> QED BY <2>1, <2>2, <2>3 DEF OutcomeTold
<1>15. ASSUME NEW b \in BOOLEAN, IdleUnload(b) PROVE ToldInv'
  <2>1. conn' = conn /\ (Tell("unload", b) \/ frames' = frames)
    BY <1>15 DEF IdleUnload
  <2>2. model'.gen = model.gen
    BY <1>15, UnloadedFields DEF IdleUnload
  <2>3. (NoOutcome => NoOutcome') /\ (LoadTold' => LoadTold) /\ OutcomeTold'
    BY <2>1, QuietNote
  <2> QED BY <2>1, <2>2, <2>3
<1>16. ASSUME conn' = conn, model' = model, frames' = frames PROVE ToldInv'
  BY <1>16 DEF NoOutcome, LoadTold, OutcomeTold
<1>17. ASSUME NEW h \in {"live", "other"}, ReplaceAdapter(h) PROVE ToldInv'
  BY <1>16, <1>17 DEF ReplaceAdapter
<1>18. ASSUME RecordFact \/ ReplaceFacts \/ CatchUp \/ SwitchSnapshot \/ Quiesce \/ Resume \/ Drained PROVE ToldInv'
  BY <1>16, <1>18 DEF RecordFact, ReplaceFacts, CatchUp, SwitchSnapshot, Quiesce, Resume, Drained
<1>20. ASSUME NEW req \in Requests, Accept(req) PROVE ToldInv'
  <2>1. frames' = <<>> /\ conn'.pc = "read" /\ conn'.gen = model.gen /\ model' = model
    BY <1>20 DEF Accept, IdleConnection
  <2> QED BY <2>1 DEF NoOutcome, LoadTold, OutcomeTold
<1> HIDE DEF ServerTypeOK, ToldInv, Connections, BeforeLoad, around
<1> QED BY <1>1, <1>2, <1>3, <1>4, <1>5, <1>6, <1>7, <1>8, <1>9, <1>10, <1>11, <1>12, <1>13, <1>14, <1>15, <1>17, <1>18, <1>20 DEF ServerNext, ServerStep, Surroundings

\* The invariant holds when the daemon starts.
LEMMA InitInv == ServerInit => ServerInv
<1> SUFFICES ASSUME ServerInit PROVE ServerInv
  OBVIOUS
<1>1. AdapterInv
  BY DEF ServerInit, AdapterInv, IdleConnection, Unread
<1>2. LeaseInv
  BY DEF ServerInit, LeaseInv, IdleConnection, AnswerOfEpoch, Succeeded, NoRequest, Working, Scoring, Evidence
<1>3. CurrentInv
  BY DEF ServerInit, CurrentInv, IdleConnection, EvidenceCurrent, Succeeded, NoRequest
<1>4. ToldInv
  BY DEF ServerInit, ToldInv, IdleConnection, OutcomeTold, LoadTold, NoOutcome, BeforeLoad
<1> QED BY <1>1, <1>2, <1>3, <1>4, InitTyped DEF ServerInv

\* The invariant is inductive.
LEMMA StepInv == ServerInv /\ [ServerNext]_serverVars => ServerInv'
<1> SUFFICES ASSUME ServerInv, [ServerNext]_serverVars PROVE ServerInv'
  OBVIOUS
<1>1. CASE ServerNext
  <2>1. ServerTypeOK'
    BY <1>1, StepTyped DEF ServerInv
  <2> QED BY <1>1, <2>1, StepAdapter, StepLease, StepCurrent, StepTold DEF ServerInv
<1>2. CASE UNCHANGED serverVars
  <2>1. ServerTypeOK'
    BY <1>2 DEF ServerInv, serverVars, ServerTypeOK
  <2>2. AdapterInv' /\ CurrentInv'
    BY <1>2 DEF ServerInv, serverVars, AdapterInv, CurrentInv, EvidenceCurrent, Succeeded
  <2>3. LeaseInv'
    BY <1>2 DEF ServerInv, serverVars, LeaseInv, AnswerOfEpoch, Succeeded
  <2>4. ToldInv'
    BY <1>2 DEF ServerInv, serverVars, ToldInv, NoOutcome, LoadTold, OutcomeTold
  <2> QED BY <2>1, <2>2, <2>3, <2>4 DEF ServerInv
<1> QED BY <1>1, <1>2

\* The inductive invariant of the serving loop, for every set of requests and
\* every bound.
THEOREM ServerInvHolds == ServerSpec => []ServerInv
  BY InitInv, StepInv, PTL DEF ServerSpec

\* A score is of a foreign adapter only if its files were replaced while the
\* request was handled (ModelState.load, _pin_adapter_identity).
THEOREM AdapterHolds == ServerSpec => []AdapterVerified
<1>1. ServerInv => AdapterVerified
  BY DEF ServerInv, AdapterInv, AdapterVerified, ServerTypeOK, Connections, FileStates
<1> QED BY <1>1, ServerInvHolds, PTL

\* An answer covers what was there when the request came, is of the epoch that
\* is still there when it is sent, and the archive is told what the client is
\* told (EvidenceService, ScoringServer's lease, archive_observation).
THEOREM AnswersHold == ServerSpec => []AnswersCurrent
<1>1. ServerInv => AnswersCurrent
  BY DEF ServerInv, LeaseInv, CurrentInv, ToldInv, AnswersCurrent
<1> QED BY <1>1, ServerInvHolds, PTL

=============================================================================
