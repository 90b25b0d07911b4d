---------------------------- MODULE InputSession ----------------------------
(***************************************************************************)
(* One input session of the plug-in: the rerank filter                     *)
(* (llm_rerank_filter.cc) that pulls windows of candidates, scores them    *)
(* through the daemon and emits them, and the recorder processor           *)
(* (llm_rerank_recorder.cc, recorder_session.cc) that turns selections     *)
(* into events when the composition is committed.  Both run on the input   *)
(* thread of one librime engine; the daemon, the clock and the fact store  *)
(* answer as they like.  The engine itself is external: keys, the menu's   *)
(* demand, selection, commit, clear and reopening happen in any order the  *)
(* engine allows, and its notifiers call the handlers below.               *)
(*                                                                         *)
(* comp is the composition: segment k starts at k.  A window computation   *)
(* in progress (win) blocks the input thread.                              *)
(***************************************************************************)
EXTENDS RerankPlan

CONSTANTS
    Menus,          \* [start -> the lists upstream translators may produce there]
    ConfigFiles,    \* schema settings a session may be created with
    Window,         \* llm_rerank/window
    Gamma,          \* llm_rerank/gamma
    Deadline,       \* llm_rerank/deadline_ms, in ticks
    FatalFaults,    \* the gap codes IsFatalRecordingFault names
    OtherFaults,    \* and the ones it does not
    MaxSegments, MaxCommits, MaxConfirms,
    MaxPick         \* the last place of the menu a selection may take

ASSUME SettingsAssumption == Window \in Nat \ {0} /\ Gamma \in Nat /\ Deadline \in Nat
ASSUME FaultsAssumption == FatalFaults \cap OtherFaults = {}
ASSUME BoundsAssumption == MaxSegments \in Nat /\ MaxCommits \in Nat /\ MaxConfirms \in Nat /\ MaxPick \in Nat

VARIABLES
    switch,     \* the switches resolved when the session was created
    context,    \* the filter's preceding_text_, and whether it is valid
    comp,       \* the composition: a sequence of segments
    win,        \* the window being computed, or Idle
    shown,      \* what the window that just finished did, or None
    rec,        \* the recorder processor and its session
    store,      \* batches the coordinator accepted, with their retractions
    keysSince,  \* since the last accepted commit: only "backspaces", or "other"
    seen        \* the words each segment of this composition has shown

sessionVars == <<switch, context, comp, win, shown, rec, store, keysSince, seen>>

Starts == 1 .. MaxSegments
None == [kind |-> "none"]
Idle == [pc |-> "idle"]
NothingSeen == [k \in Starts |-> {}]
Keys == {"space", "digit", "letter", "backspace"}

-----------------------------------------------------------------------------
(* Configuration.                                                          *)

\* ResolveSwitchConfig: any v2 key makes the file v2; else the legacy key;
\* else the first-phase defaults.  A value is TRUE, FALSE or absent.
Given(file, key) == key \in DOMAIN file
IsOn(file, key) == Given(file, key) /\ file[key]
ResolveSwitchConfig(file) ==
    IF \E key \in {"reranking", "recording", "evidence"} : Given(file, key)
    THEN [source |-> "v2", reranking |-> IsOn(file, "reranking"), recording |-> IsOn(file, "recording"), evidence |-> IsOn(file, "evidence")]
    ELSE IF Given(file, "enable")
    THEN [source |-> "legacy", reranking |-> IsOn(file, "enable"), recording |-> FALSE, evidence |-> FALSE]
    ELSE [source |-> "not_configured", reranking |-> TRUE, recording |-> FALSE, evidence |-> FALSE]

\* The constructor: which scorers exist.  alpha > 0 without a language model
\* scorer leaves the window without any scorer.
FilterSetup(file) ==
    LET s == ResolveSwitchConfig(file)
        lm == s.reranking /\ IsOn(file, "alpha") /\ IsOn(file, "socket")
    IN  [source |-> s.source, reranking |-> s.reranking, recording |-> s.recording, evidence |-> s.evidence,
         lm |-> lm, scorer |-> IsOn(file, "alpha") => lm,
         active |-> s.source = "v2" /\ s.evidence /\ Gamma > 0,
         seam |-> IsOn(file, "representation") /\ IsOn(file, "socket")]

\* Apply: the policy the plan is built with; a v2 file with evidence off
\* declares gamma = 0.
PlanPolicy == [window |-> Window, gamma |-> IF switch.source = "v2" /\ ~switch.evidence THEN 0 ELSE Gamma]

\* BuildContext: the suffix of the committed text and the closed segments; all
\* of it when that has none, and a byte that is not UTF-8 once the committed
\* text itself had none.
Chosen(seg) == seg.menu[seg.sel]
ClosedText(c) == [k \in 1 .. Cardinality({j \in DOMAIN c : c[j].status = "selected"}) |-> Chosen(c[k]).text]
BuildContext ==
    LET result == context.text \o ClosedText(comp)
        suffix == LastUnicodeCharacters(result, ContextLimit)
    IN  IF ~context.valid THEN <<"bad">> ELSE IF suffix.ok THEN suffix.text ELSE result

\* OnCommitText: append and keep the tail; undecodable text ends it for good.
OnCommitText(ctx, text) ==
    LET suffix == LastUnicodeCharacters(ctx.text \o text, ContextLimit)
    IN  IF ctx.valid THEN [valid |-> suffix.ok, text |-> suffix.text] ELSE ctx

\* Apply: a fresh translation over an upstream list.  With reranking off and
\* nothing to record the upstream list passes through.
WantSnapshots == switch.recording
Apply(upstream) ==
    LET through == ~switch.reranking /\ ~WantSnapshots
    IN  [menu |-> IF through THEN upstream ELSE <<>>, rest |-> IF through THEN <<>> ELSE upstream,
         mat |-> <<>>, full |-> FALSE, context |-> BuildContext, status |-> "open", sel |-> 0]

-----------------------------------------------------------------------------
(* The recorder's handlers: operators from its state to its state.         *)

ClassifyConfirmationSource(key) ==
    CASE key = "space" -> "explicit_current"
      [] key = "digit" -> "explicit_indexed"
      [] OTHER -> "none"

\* ProcessKeyEvent, of a press and of a release.  inflight is the confirming
\* key in flight (key_in_flight_ with last_keycode_), or "none".
ProcessKeyEvent(r, key, hasMenu) ==
    [r EXCEPT !.rp = r.armed /\ key = "backspace", !.armed = r.armed /\ key = "backspace",
              !.inflight = IF hasMenu /\ ClassifyConfirmationSource(key) # "none" THEN key ELSE "none"]
ReleaseKey(r) == [r EXCEPT !.rp = FALSE, !.inflight = "none"]

\* The words of the snapshot that compete for the span of the selection.
Competition(r, start, cand) == SelectSeq(r.snap[start].cands, LAMBDA c : c.word /\ c.span = cand.span)

\* OnSelect: a tentative event, when the selected word had competition.
OnSelect(r, c) ==
    LET start == Len(c)
        cand == Chosen(c[start])
        source == IF r.inflight # "none" THEN ClassifyConfirmationSource(r.inflight) ELSE "explicit_indexed"
        event == [text |-> cand.text, rivals |-> Competition(r, start, cand), complete |-> r.snap[start].complete,
                  source |-> source, seq |-> r.nextSeq]
    IN  IF \/ ~r.enabled
           \/ ~cand.word
           \/ r.snap[start] = None
           \/ Len(Competition(r, start, cand)) < 2
           \/ cand.text \notin {x.text : x \in Range(Competition(r, start, cand))}
           \/ source = "none"
        THEN r
        ELSE [r EXCEPT !.inflight = "none", !.pend[start] = event, !.nextSeq = @ + 1]

\* DropPending and ClearSnapshots (OnAbort; OnContextUpdate on an empty
\* composition).
NoPending == [k \in Starts |-> None]
ClearSession(r) == [r EXCEPT !.pend = NoPending, !.snap = NoPending]

\* Mutant: whatever was tentative is recorded.
AllPending(r, c) == {k \in Starts : r.pend[k] # None}
\* OnCommit: the tentative events whose segment still holds their text.
ValidPending(r, c) ==
    {k \in Starts : /\ r.pend[k] # None
                    /\ k \in DOMAIN c /\ c[k].status = "selected"
                    /\ Chosen(c[k]).text = r.pend[k].text}
Batch(r, c) == LET order == SetToSortSeq(ValidPending(r, c), LAMBDA a, b : r.pend[a].seq < r.pend[b].seq)
               IN  [i \in DOMAIN order |-> [start |-> order[i]] @@ r.pend[order[i]]]

\* ReportGap, and the faults after which the session stops recording.
ReportGap(r, fault) == [r EXCEPT !.fault = fault, !.gapped = TRUE, !.enabled = r.enabled /\ fault \notin FatalFaults]
\* Accepted: the fault is forgotten unless there was a gap.
Healthy(r) == [r EXCEPT !.fault = IF r.gapped THEN @ ELSE "none"]

\* Mutant: the first commit of the session stays the one an undo retracts.
OnCommitKeepsFirst(r, c, answer) ==
    IF ~r.enabled THEN r
    ELSE IF ValidPending(r, c) = {} THEN [r EXCEPT !.pend = NoPending, !.armed = FALSE]
    ELSE IF answer # "accepted" THEN [ReportGap(r, answer) EXCEPT !.pend = NoPending, !.armed = FALSE]
    ELSE [Healthy(r) EXCEPT !.pend = [k \in Starts |-> IF k \in ValidPending(r, c) THEN None ELSE r.pend[k]],
                            !.armed = TRUE, !.commit = IF @ = 0 THEN Len(store) + 1 ELSE @]
\* OnCommit with the coordinator's answer: "accepted" or a gap's fault code.
OnCommit(r, c, answer) ==
    IF ~r.enabled THEN r
    ELSE IF ValidPending(r, c) = {} THEN [r EXCEPT !.pend = NoPending, !.armed = FALSE]
    ELSE IF answer # "accepted" THEN [ReportGap(r, answer) EXCEPT !.pend = NoPending, !.armed = FALSE]
    ELSE [Healthy(r) EXCEPT !.pend = [k \in Starts |-> IF k \in ValidPending(r, c) THEN None ELSE r.pend[k]],
                            !.armed = TRUE, !.commit = Len(store) + 1]

\* OnUnhandledKey: retract the commit just before this BackSpace.
Retracts(r) == r.rp /\ r.armed /\ r.enabled
\* Mutant: the retraction leaves the window armed.
StayArmed(r, answer) ==
    IF ~Retracts(r) THEN r
    ELSE LET s == [r EXCEPT !.rp = FALSE] IN IF answer # "accepted" THEN ReportGap(s, answer) ELSE Healthy(s)
OnUnhandledKey(r, answer) ==
    IF ~Retracts(r) THEN r
    ELSE LET s == [r EXCEPT !.rp = FALSE, !.armed = FALSE]
         IN  IF answer # "accepted" THEN ReportGap(s, answer) ELSE Healthy(s)

Answers == {"accepted"} \cup FatalFaults \cup OtherFaults

-----------------------------------------------------------------------------
(* The filter: windows.                                                    *)

\* Replenish: pull until the window holds Window different texts.
Distinct(rest, n) == Cardinality({rest[i].text : i \in 1 .. n})
Pulled(rest) == Min({n \in 1 .. Len(rest) : Distinct(rest, n) = Window} \cup {Len(rest)})
Buffer(rest) ==
    LET fresh == SelectSeq([i \in 1 .. Pulled(rest) |-> i], LAMBDA i : \A j \in 1 .. (i - 1) : rest[j].text # rest[i].text)
    IN  [k \in DOMAIN fresh |-> rest[fresh[k]]]
Truncated(rest) == Len(Buffer(rest)) >= Window /\ Pulled(rest) < Len(rest)

\* The segment after the pull.
Materialise(seg) ==
    [seg EXCEPT !.rest = SubSeq(seg.rest, Pulled(seg.rest) + 1, Len(seg.rest)),
                !.mat = @ \o Buffer(seg.rest), !.full = @ \/ ~Truncated(seg.rest)]
PushSnapshot(r, start, seg) ==
    IF WantSnapshots THEN [r EXCEPT !.snap[start] = [cands |-> seg.mat, complete |-> seg.full, context |-> seg.context]] ELSE r

\* RecordApply: what the session and the client's ledger are told of the window.
RecordApply(state, ids) == [state |-> state, ids |-> ids]

\* ObserveWindow: what the archive is told of the emission.
ObserveWindow(buf, order, attempted) ==
    IF ~attempted THEN "fallback" ELSE IF order = Places(buf) THEN "unchanged" ELSE "applied"

\* The window is over: order is how it goes to the menu.
Emit(w, order, state, ids, c, r) ==
    /\ comp' = [c EXCEPT ![Len(c)].menu = @ \o [i \in DOMAIN order |-> w.buf[order[i]]]]
    /\ rec' = r
    /\ shown' = RecordApply(state, ids) @@
                [buf |-> w.buf, order |-> order, issued |-> w.issued, faulted |-> w.faulted, score |-> w.score,
                 plan |-> w.plan, archive |-> ObserveWindow(w.buf, order, state = "applied")]
    /\ win' = Idle
Fallback(w, ids, c, r) == Emit([w EXCEPT !.faulted = TRUE], Places(w.buf), "fallback", ids, c, r)

\* Replenish up to the first exchange: snapshot, plan, and the early ways out.
Replenish ==
    /\ comp # <<>> /\ win = Idle
    /\ LET k == Len(comp)
           seg == Materialise(comp[k])
           buf == Buffer(comp[k].rest)
           plan == BuildRerankPlan(buf, Truncated(comp[k].rest), seg.context, PlanPolicy)
           c == [comp EXCEPT ![k] = seg]
           r == PushSnapshot(rec, k, seg)
           w == [pc |-> "score", buf |-> buf, plan |-> plan, g |-> 1, left |-> 0, ids |-> <<>>,
                 issued |-> <<>>, faulted |-> FALSE, score |-> [i \in DOMAIN buf |-> 0]]
       IN  /\ comp[k].status = "open" /\ comp[k].rest # <<>>
           /\ \/ /\ ~switch.reranking
                 /\ comp' = [c EXCEPT ![k].menu = @ \o buf]
                 /\ rec' = r /\ UNCHANGED <<win, shown>>
              \/ /\ switch.reranking /\ (~switch.scorer \/ ~plan.ok)
                 /\ Fallback(w, <<>>, c, r)
              \/ /\ switch.reranking /\ switch.scorer /\ plan.ok
                 /\ win' = w /\ comp' = c /\ rec' = r /\ UNCHANGED shown
    /\ seen' = [seen EXCEPT ![Len(comp)] = @ \cup {x.text : x \in Range(Buffer(comp[Len(comp)].rest))}]
    /\ UNCHANGED <<switch, context, store, keysSince>>

Complete(w) == {g \in DOMAIN w.plan.groups : w.plan.groups[g].complete}
Scored(w) == UNION {Range(w.plan.groups[g].members) : g \in Complete(w)}

\* WeightScorer: the dictionary weight of a word, system or user.
WeightScore(cand) == cand.weight
\* CompositeScorer: weight plus language model, or weight alone.
CompositeScore(cand, lm) == WeightScore(cand) + lm
\* LlmScorer::ScoreBatch asks the daemon unless there is nothing to score.
AsksModel(w) == switch.lm /\ Scored(w) # {}
\* ParseScores: bound to the request and the plan, one finite score per text.
ParsedScores(w) == [Scored(w) -> IF AsksModel(w) THEN 0 .. 1 ELSE {0}]

\* The base scores of the complete groups: a failed exchange, or evidence
\* that is switched on without a configured seam, ends the window.
ScoreBatch ==
    /\ win.pc = "score"
    /\ \/ /\ AsksModel(win) \/ (switch.active /\ ~switch.seam)
          /\ Fallback(win, <<>>, comp, rec)
       \/ /\ switch.active => switch.seam
          /\ \E lm \in ParsedScores(win) :
                 win' = [win EXCEPT !.pc = IF switch.active THEN "evidence" ELSE "replay", !.left = Deadline,
                             !.score = [i \in DOMAIN win.buf |-> IF i \in Scored(win) THEN CompositeScore(win.buf[i], lm[i]) ELSE 0]]
          /\ UNCHANGED <<comp, rec, shown>>
    /\ UNCHANGED <<switch, context, store, keysSince, seen>>

\* BuildEvidenceRequest, SameHighWater: what a request carries and its reply
\* must echo.
Bindings == {"request_id", "plan_identity", "config_identity", "fact_high_water", "status", "count"}
\* Mutant: a reply to another request is taken for the answer.
AcceptUnbound(echo) == echo \in SUBSET Bindings /\ Bindings \ {"request_id"} \subseteq echo
ParseEvidenceResponse(echo) == echo \in SUBSET Bindings /\ echo = Bindings
\* ExchangeJson: the replies a request may get: bound in full, unbound in one field, or none.
Replies == {Bindings, {}} \cup {Bindings \ {b} : b \in Bindings}

\* Mutant: the record of a window names only the request that failed.
NameOnlyFailed(ids, g) == <<g>>
\* The record names a request that was issued, whatever became of it.
NameRequest(ids, g) == Append(ids, g)

\* Mutant: a failing group is skipped and the window goes on.
SkipGroup(w, ids) == Emit([w EXCEPT !.faulted = TRUE], ReplayRerankPlan(w.plan, w.score), "applied", ids, comp, rec)
EvidenceFault(w, ids) == Fallback(w, ids, comp, rec)

\* One evidence request per complete group, on what is left of one deadline.
ScoreGroup ==
    /\ win.pc = "evidence" /\ win.g \in DOMAIN win.plan.groups
    /\ LET g == win.g
           members == Range(win.plan.groups[g].members)
           asked == [win EXCEPT !.issued = Append(@, g)]
       IN  \/ /\ g \notin Complete(win)
              /\ win' = [win EXCEPT !.g = g + 1] /\ UNCHANGED <<comp, rec, shown>>
           \/ /\ g \in Complete(win) /\ win.left <= 0
              /\ EvidenceFault(win, win.ids)
           \/ /\ g \in Complete(win) /\ win.left > 0
              /\ \E echo \in Replies : ~ParseEvidenceResponse(echo)
              /\ EvidenceFault(asked, NameRequest(win.ids, g))
           \/ /\ g \in Complete(win) /\ win.left > 0
              /\ \E echo \in Replies, took \in 0 .. win.left, s \in [members -> 0 .. 1] :
                     /\ ParseEvidenceResponse(echo)
                     /\ win' = [asked EXCEPT !.g = g + 1, !.ids = Append(@, g), !.left = @ - took, !.faulted = echo # Bindings,
                                    !.score = [i \in DOMAIN win.buf |-> IF i \in members
                                                  THEN ComparisonScore(win.score[i], s[i], PlanPolicy.gamma) ELSE win.score[i]]]
              /\ UNCHANGED <<comp, rec, shown>>
    /\ UNCHANGED <<switch, context, store, keysSince, seen>>

\* Replay and emission of a window every group of which was scored.
Replay ==
    /\ \/ win.pc = "replay"
       \/ win.pc = "evidence" /\ win.g > Len(win.plan.groups)
    /\ IF ValidPlan(win.plan) THEN Emit(win, ReplayRerankPlan(win.plan, win.score), "applied", win.ids, comp, rec)
       ELSE Fallback(win, win.ids, comp, rec)
    /\ UNCHANGED <<switch, context, store, keysSince, seen>>

-----------------------------------------------------------------------------
(* The engine (external) and the notifications it sends.                   *)

HasMenu == comp # <<>> /\ Last(comp).status = "open" /\ Last(comp).menu # <<>>
Press(key) == ProcessKeyEvent(rec, key, HasMenu)
Pressed(key) == keysSince' = IF key = "backspace" THEN keysSince ELSE "other"

\* A letter opens a segment, or translates the open one anew.
TypeLetter ==
    /\ win = Idle /\ Len(store) < MaxCommits
    /\ \/ /\ comp # <<>> /\ Last(comp).status = "open"
          /\ \E upstream \in Menus[Len(comp)] : comp' = [comp EXCEPT ![Len(comp)] = Apply(upstream)]
       \/ /\ Len(comp) < MaxSegments /\ (comp # <<>> => Last(comp).status = "selected")
          /\ \E upstream \in Menus[Len(comp) + 1] : comp' = Append(comp, Apply(upstream))
    /\ rec' = Press("letter") /\ Pressed("letter")
    /\ UNCHANGED <<switch, context, win, store, seen>> /\ shown' = None

\* The engine selects candidate i of the open segment and notifies.
Select(i, r) ==
    LET c == [comp EXCEPT ![Len(comp)].status = "selected", ![Len(comp)].sel = i]
    IN  comp' = c /\ rec' = OnSelect(r, c)
CanSelect(i) == HasMenu /\ win = Idle /\ i \in DOMAIN Last(comp).menu /\ rec.nextSeq < MaxConfirms

SelectByKey(key, i) ==
    /\ CanSelect(i) /\ Select(i, Press(key)) /\ Pressed(key)
    /\ UNCHANGED <<switch, context, win, store, seen>> /\ shown' = None
SelectByMouse(i) ==
    /\ CanSelect(i) /\ Select(i, rec)
    /\ UNCHANGED <<switch, context, win, store, keysSince, seen>> /\ shown' = None
\* A letter makes the engine confirm the highlighted candidate by itself.
AutoSelect ==
    /\ CanSelect(1) /\ Select(1, Press("letter")) /\ Pressed("letter")
    /\ UNCHANGED <<switch, context, win, store, seen>> /\ shown' = None

\* A key that neither selects nor edits, and the release of any key.
OtherKey(key) ==
    /\ win = Idle /\ comp # <<>> /\ rec' = Press(key) /\ Pressed(key)
    /\ UNCHANGED <<switch, context, comp, win, store, seen>> /\ shown' = None
Release ==
    /\ win = Idle /\ rec' = ReleaseKey(rec)
    /\ UNCHANGED <<switch, context, comp, win, store, keysSince, seen>> /\ shown' = None

\* The text the composition delivers.
CommitText(c) == [k \in DOMAIN c |-> IF c[k].status = "selected" THEN Chosen(c[k]).text
                                     ELSE IF c[k].menu # <<>> THEN c[k].menu[1].text ELSE "raw"]

\* Commit: the recorder is told, the text is delivered, the composition is
\* cleared and the update notifier finds it empty.
Commit(answer) ==
    /\ win = Idle /\ comp # <<>>
    /\ LET recorded == rec.enabled /\ ValidPending(rec, comp) # {} /\ answer = "accepted"
       IN  /\ store' = IF recorded THEN Append(store, [events |-> Batch(rec, comp), final |-> CommitText(comp), retractions |-> 0, seen |-> seen])
                       ELSE store
           /\ keysSince' = IF recorded THEN "backspaces" ELSE "other"
    /\ rec' = ClearSession(OnCommit(rec, comp, answer))
    /\ context' = OnCommitText(context, CommitText(comp))
    /\ comp' = <<>> /\ seen' = NothingSeen
    /\ UNCHANGED <<switch, win>> /\ shown' = None

\* Escape or an API clear.
Abort ==
    /\ win = Idle /\ comp # <<>>
    /\ comp' = <<>> /\ rec' = ClearSession(rec) /\ seen' = NothingSeen
    /\ UNCHANGED <<switch, context, win, store, keysSince>> /\ shown' = None

\* BackSpace while composing: the open segment goes, or the last selection
\* is reopened with a fresh translation; an empty composition clears.
BackSpace ==
    /\ win = Idle /\ comp # <<>>
    /\ \E c \in IF Last(comp).status = "open" THEN {Front(comp)}
                ELSE {[comp EXCEPT ![Len(comp)] = Apply(upstream)] : upstream \in Menus[Len(comp)]} :
           /\ comp' = c
           /\ rec' = IF c = <<>> THEN ClearSession(Press("backspace")) ELSE Press("backspace")
           /\ seen' = IF c = <<>> THEN NothingSeen ELSE seen
    /\ Pressed("backspace")
    /\ UNCHANGED <<switch, context, win, store>> /\ shown' = None

\* A key nobody handles, with no composition.
UnhandledKey(key, answer) ==
    /\ win = Idle /\ comp = <<>>
    /\ rec' = OnUnhandledKey(Press(key), answer)
    /\ store' = IF Retracts(Press(key)) /\ answer = "accepted" THEN [store EXCEPT ![rec.commit].retractions = @ + 1] ELSE store
    /\ Pressed(key)
    /\ UNCHANGED <<switch, context, comp, win, seen>> /\ shown' = None

-----------------------------------------------------------------------------

\* The recorder's constructor: the store opens, is locked for now, or fails.
RecorderInit(open) ==
    [enabled |-> switch.recording /\ open \notin FatalFaults, fault |-> IF switch.recording THEN open ELSE "none",
     gapped |-> FALSE, inflight |-> "none", armed |-> FALSE, rp |-> FALSE, commit |-> 0,
     snap |-> NoPending, pend |-> NoPending, nextSeq |-> 0]

SessionInit ==
    /\ \E file \in ConfigFiles : switch = FilterSetup(file)
    /\ context = [valid |-> TRUE, text |-> <<>>]
    /\ comp = <<>> /\ win = Idle /\ shown = None /\ store = <<>> /\ keysSince = "other" /\ seen = NothingSeen
    /\ \E open \in {"none", "maintenance_locked"} \cup FatalFaults : rec = RecorderInit(open)

SessionNext ==
    \/ Replenish \/ ScoreBatch \/ ScoreGroup \/ Replay
    \/ TypeLetter \/ BackSpace
    \/ \E i \in 1 .. MaxPick : SelectByMouse(i) \/ \E key \in {"space", "digit"} : SelectByKey(key, i)
    \/ AutoSelect \/ Release \/ Abort
    \/ OtherKey("space")
    \/ \E a \in Answers : Commit(a) \/ \E key \in Keys : UnhandledKey(key, a)

SessionSpec == SessionInit /\ [][SessionNext]_sessionVars

-----------------------------------------------------------------------------

Finished == shown # None

\* A window is emitted as a permutation of what was pulled: candidates that
\* are not words keep their places, words of one span keep their order if the
\* window may have cut them off or if they score the same, and otherwise the
\* better score comes first (RerankWindow, ReplayRerankPlan).  Every plan the
\* filter builds passes the validation a replay insists on.
EmissionOrdered ==
    /\ win # Idle => ValidPlan(win.plan)
    /\ Finished /\ shown.state = "applied" =>
        LET place == [i \in DOMAIN shown.buf |-> CHOOSE p \in DOMAIN shown.order : shown.order[p] = i] IN
        /\ Range(shown.order) = DOMAIN shown.buf
        /\ \A i \in DOMAIN shown.buf : ~shown.buf[i].word => place[i] = i
        /\ \A i, j \in Words(shown.buf) :
               i < j /\ shown.buf[i].span = shown.buf[j].span =>
                   LET cut == shown.plan.truncated /\ shown.buf[Max(Words(shown.buf))].span = shown.buf[i].span
                   IN  place[i] < place[j] <=> cut \/ shown.score[i] >= shown.score[j]

\* All or nothing: if any exchange of the window failed, was late or came back
\* bound to something else, the window is shown exactly as it was pulled
\* (RerankWindow: "any fault passes the whole window through in original
\* order").
FallbackWhole == Finished /\ shown.faulted => shown.order = Places(shown.buf)

\* The apply record names exactly the evidence requests the window issued, the
\* failed one included, so that the daemon can settle each of its traces.
AckComplete == Finished => shown.ids = shown.issued

\* A recorded event tells what happened: the text its segment delivered, chosen
\* against at least one other word of the same span that this composition
\* really showed, in the order of the confirmations.
EventsTrue ==
    \A b \in DOMAIN store : \A e \in DOMAIN store[b].events :
        LET event == store[b].events[e] IN
        /\ event.start \in DOMAIN store[b].final /\ store[b].final[event.start] = event.text
        /\ Len(event.rivals) >= 2
        /\ {c.text : c \in Range(event.rivals)} \subseteq store[b].seen[event.start]
        /\ e > 1 => store[b].events[e - 1].seq < event.seq

\* A commit is retracted at most once, and only by a BackSpace with nothing but
\* BackSpaces pressed since that commit, and no other commit.
RetractsLastCommit ==
    [][\A b \in DOMAIN store : store'[b].retractions > store[b].retractions =>
           b = Len(store) /\ keysSince = "backspaces" /\ store[b].retractions = 0]_sessionVars

\* What is recorded is what happened: an event names what was shown and picked,
\* and a retraction names the commit that was just taken back.
RecordingTrue == [](store # <<>> => EventsTrue) /\ RetractsLastCommit

\* The menu that is shown is the menu of the translator, reordered only within
\* complete groups and acknowledged as it was shown.
RerankSound == EmissionOrdered /\ FallbackWhole /\ AckComplete

=============================================================================
