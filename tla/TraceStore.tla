----------------------------- MODULE TraceStore -----------------------------
(***************************************************************************)
(* The trial trace store (daemon/tracing.py): a directory of JSON files    *)
(* that the daemon updates with every evidence request, that the command   *)
(* line reads and updates from a process of its own, and to which the      *)
(* plugin appends what it did with an answer.  The lock of the store is a  *)
(* thread lock: it orders nothing between the two processes.               *)
(*                                                                         *)
(* Every update of a file is a read and, later, an atomic replacement by   *)
(* what was made of the copy read.  A process works off a stack of frames, *)
(* one per file update; an update made while another is in progress is     *)
(* pushed on top of it.                                                    *)
(***************************************************************************)
EXTENDS Integers, Sequences, FiniteSets, SequencesExt

CONSTANTS
    Shapes,             \* kinds of evidence requests, [kind, comparable, slow]
    Commands,           \* commands of the command line that are explored
    MaxTraced,        \* bound on the requests
    MaxEvents,          \* bound on commands and lines of the plugin together
    MaxTornRequests,    \* bound on the requests once the two processes have overlapped
    MaxLines,           \* lines the plugin's file holds (its size limit)
    MaxTraces,          \* MAX_TRACES
    MaxApply,           \* MAX_APPLY_ENTRIES
    AlarmWindow,             \* the sliding windows
    Limit               \* MISPROMOTION_LIMIT

ASSUME TraceBounds ==
    /\ Commands \subseteq {"status", "annotate", "dismiss"}
    /\ {MaxTraced, MaxEvents, MaxTornRequests, MaxLines, MaxTraces, MaxApply} \subseteq Nat
    /\ {AlarmWindow, Limit} \subseteq Nat \ {0}

VARIABLES
    fs,         \* the files of <root>/traces
    proc,       \* the frames each process has left
    requested,       \* the requests so far, in order (not stored)
    commands,   \* commands started
    torn,       \* the two processes have overlapped (not stored)
    fresh       \* the last work was done alone and saw the whole of the plugin's file (not stored)

traceVars == <<fs, proc, requested, commands, torn, fresh>>

Processes == {"daemon", "cli"}
Kinds == {"mispromotion_rate", "fault_rate", "latency_gate"}
FreshAggregates ==
    [requests |-> 0, seq |-> 0, outcomes |-> <<>>, slow |-> <<>>, dropped |-> 0, loss |-> 0, applied |-> 0, fallback |-> 0, unknown |-> 0]
EmptyStore == [traces |-> <<>>, index |-> {}, agg |-> FreshAggregates, apply |-> <<>>, ann |-> <<>>, alarms |-> <<>>, log |-> <<>>]

Frame(op, arg) == [op |-> op, arg |-> arg, held |-> FALSE, buf |-> {}]
Frames(ops) == [k \in 1 .. Len(ops) |-> Frame(ops[k], 0)]

-----------------------------------------------------------------------------
(* Contents.                                                               *)

Entry(index, id) == {e \in index : e.id = id}
Kind(index, id) == IF Entry(index, id) = {} THEN "none" ELSE (CHOOSE e \in Entry(index, id) : TRUE).kind
Seq0(index, id) == IF Entry(index, id) = {} THEN 0 ELSE (CHOOSE e \in Entry(index, id) : TRUE).seq
\* Only the last n elements.
Tail0(s, n) == SubSeq(s, IF Len(s) > n THEN Len(s) - n + 1 ELSE 1, Len(s))

\* _index_trace and _index_complete_comparable: the entry of a request.
IndexTrace(index, r) ==
    (index \ Entry(index, r.id)) \cup {[id |-> r.id, kind |-> r.kind, seq |-> 0]}
IndexPosition(index, r, seq) ==
    (index \ Entry(index, r.id))
    \cup {[id |-> r.id, kind |-> IF Entry(index, r.id) = {} THEN r.kind ELSE Kind(index, r.id), seq |-> seq]}

\* Mutant: an outcome that is there already is replaced.
AckLast(entry, line) ==
    IF entry.id \in line.ids /\ entry.plan = line.plan THEN [entry EXCEPT !.state = line.state] ELSE entry
\* _apply_ack_locked: the first acknowledgement of a request stands, and only
\* one for the plan that was computed counts.
AckEntry(entry, line) ==
    IF entry.id \in line.ids /\ entry.state = "unknown" /\ entry.plan = line.plan THEN [entry EXCEPT !.state = line.state] ELSE entry
ApplyAck(apply, line) == [k \in 1 .. Len(apply) |-> AckEntry(apply[k], line)]

\* _remember_computed_locked, _bound_apply_index_locked.
Remember(apply, r) ==
    LET known == {k \in 1 .. Len(apply) : apply[k].id = r.id}
        entry == [id |-> r.id, state |-> "unknown", plan |-> r.plan, change |-> r.kind = "order_change"]
        others == SelectSeq(apply, LAMBDA e : e.id # r.id)
    IN  IF \E k \in known : apply[k].state # "unknown" THEN apply ELSE Tail0(Append(others, entry), MaxApply)
Displaced(apply, r) ==
    LET others == SelectSeq(apply, LAMBDA e : e.id # r.id)
    IN  IF Len(others) + 1 > MaxApply THEN Len(others) + 1 - MaxApply ELSE 0

\* _refresh_apply_aggregates_locked.
CountState(apply, state) == Cardinality({k \in 1 .. Len(apply) : apply[k].state = state})
Refresh(agg, apply) ==
    [agg EXCEPT !.applied = CountState(apply, "applied"), !.fallback = CountState(apply, "fallback"), !.unknown = CountState(apply, "unknown")]
\* _update_aggregates.
Aggregate(agg, r, apply) ==
    Refresh([agg EXCEPT !.requests = @ + 1, !.seq = IF r.comparable THEN @ + 1 ELSE @,
                        !.outcomes = Tail0(Append(@, r.kind), AlarmWindow), !.slow = Tail0(Append(@, r.slow), 2 * AlarmWindow)], apply)

-----------------------------------------------------------------------------
(* Alarms.                                                                 *)

\* Mutant: a window one longer than it says.
SpanOff(seqs) == \E i, j \in seqs : i <= j /\ j - i <= AlarmWindow /\ Cardinality({s \in seqs : i <= s /\ s <= j}) >= Limit
\* Limit confirmations within AlarmWindow consecutive comparable requests.
WithinWindow(seqs) == \E i, j \in seqs : i <= j /\ j - i + 1 <= AlarmWindow /\ Cardinality({s \in seqs : i <= s /\ s <= j}) >= Limit
MispromotionAlarm(files) ==
    WithinWindow({Seq0(files.index, files.ann[k]) : k \in 1 .. Len(files.ann)} \ {0})
\* More than one per cent of a full window of outcomes are faults.
FaultRateAlarm(files) ==
    LET ring == files.agg.outcomes
    IN  Len(ring) = AlarmWindow /\ 100 * Cardinality({k \in 1 .. AlarmWindow : ring[k] = "fault"}) > AlarmWindow
\* _percentile: the gate is missed when the value at rank ceil(0.95 n) is slow.
Misses(chunk) == LET n == Len(chunk) IN Cardinality({k \in 1 .. n : chunk[k]}) > n - ((95 * n + 99) \div 100)
LatencyAlarm(files) ==
    LET ring == files.agg.slow
        missed(s) == Misses(SubSeq(ring, s, s + AlarmWindow - 1))
    IN  \E s \in 1 .. Len(ring) - AlarmWindow : missed(s) /\ missed(s + 1)
Fires(kind, files) ==
    CASE kind = "mispromotion_rate" -> MispromotionAlarm(files)
      [] kind = "fault_rate" -> FaultRateAlarm(files)
      [] kind = "latency_gate" -> LatencyAlarm(files)
\* _fire_alarm: an alarm that is active is not raised again.
StillActive(alarms, kind) == \E k \in 1 .. Len(alarms) : alarms[k].kind = kind /\ ~alarms[k].dismissed

-----------------------------------------------------------------------------
(* The frames of a process.                                                *)

Busy(p) == proc[p] # <<>>
Top(p) == proc[p][1]
Evaluate == <<Frame("alarm", "mispromotion_rate"), Frame("alarm", "fault_rate"), Frame("alarm", "latency_gate")>>
LineFrames(line) == IF line.bad THEN <<Frame("bump", 0)>> ELSE <<Frame("ack", line), Frame("refresh", 0)>>

\* The file a frame updates.
FileOf(op) ==
    CASE op \in {"ack", "remember"} -> "apply"
      [] op \in {"refresh", "bump", "dropped", "aggregate"} -> "agg"
      [] op \in {"alarm", "dismiss"} -> "alarms"
      [] op = "annotate" -> "ann"
      [] op = "index" -> "index"

\* Whether a frame comes to nothing once it has read what it needs.
Refused(f) ==
    CASE f.op = "alarm" -> ~Fires(f.arg, fs) \/ StillActive(fs.alarms, f.arg)
      [] f.op = "annotate" -> Kind(fs.index, f.arg) # "order_change"
      [] f.op = "dismiss" -> Len(fs.alarms) < f.arg \/ fs.alarms[f.arg].dismissed
      [] OTHER -> FALSE
\* What is done on top of an update before it is written.
Nested(f) ==
    CASE f.op = "remember" -> [k \in 1 .. Displaced(fs.apply, f.arg) |-> Frame("bump", 0)]
      [] OTHER -> <<>>

\* Mutant: only the newest line is taken in.
NewestLine(log) == Tail0(log, 1)
LinesTaken(log) == log
\* _ingest_client_apply_locked: every line of the plugin's file, every time.
Ingest(p) ==
    /\ Busy(p) /\ Top(p).op = "ingest"
    /\ proc' = [proc EXCEPT ![p] = FlattenSeq([k \in 1 .. Len(LinesTaken(fs.log)) |-> LineFrames(LinesTaken(fs.log)[k])]) \o Tail(@)]
    /\ UNCHANGED <<fs, requested, commands, torn, fresh>>

Simple == {"ack", "refresh", "bump", "dropped", "aggregate", "alarm", "dismiss", "annotate", "index", "remember"}
Read(p) ==
    /\ Busy(p) /\ Top(p).op \in Simple /\ ~Top(p).held
    /\ LET f == Top(p)
       IN  /\ proc' = [proc EXCEPT ![p] = IF Refused(f) THEN Tail(@)
                                          ELSE Nested(f) \o <<[f EXCEPT !.held = TRUE, !.buf = fs[FileOf(f.op)]]>> \o Tail(@)]
           \* the position in the comparable stream is written between the two
           /\ fs' = IF f.op = "aggregate" /\ f.arg.comparable THEN [fs EXCEPT !.index = IndexPosition(@, f.arg, fs.agg.seq + 1)] ELSE fs
    /\ UNCHANGED <<requested, commands, torn, fresh>>

\* What is written, made of the copy that was read.
Written(f) ==
    LET b == f.buf IN
    CASE f.op = "ack" -> ApplyAck(b, f.arg)
      [] f.op = "refresh" -> Refresh(b, fs.apply)
      [] f.op = "bump" -> [b EXCEPT !.loss = @ + 1]
      [] f.op = "dropped" -> [b EXCEPT !.dropped = @ + f.arg]
      [] f.op = "aggregate" -> Aggregate(b, f.arg, fs.apply)
      [] f.op = "remember" -> Remember(b, f.arg)
      [] f.op = "index" -> IndexTrace(b, f.arg)
      [] f.op = "alarm" -> Append(b, [kind |-> f.arg, dismissed |-> FALSE])
      [] f.op = "dismiss" -> [b EXCEPT ![f.arg].dismissed = TRUE]
      [] f.op = "annotate" -> IF \E k \in 1 .. Len(b) : b[k] = f.arg THEN b ELSE Append(b, f.arg)
Write(p) ==
    /\ Busy(p) /\ Top(p).op \in Simple /\ Top(p).held
    /\ fs' = [fs EXCEPT ![FileOf(Top(p).op)] = Written(Top(p))]
    /\ proc' = [proc EXCEPT ![p] = Tail(@)]
    /\ UNCHANGED <<requested, commands, torn, fresh>>

\* _write_trace, _enforce_trace_bound_locked: files of their own names.
WriteTrace(p) ==
    /\ Busy(p) /\ Top(p).op = "trace"
    /\ fs' = [fs EXCEPT !.traces = Append(@, Top(p).arg.id)] /\ proc' = [proc EXCEPT ![p] = Tail(@)]
    /\ UNCHANGED <<requested, commands, torn, fresh>>
\* Mutant: files go without a count.
DropQuietly(n) == <<>>
CountDropped(n) == IF n > 0 THEN <<Frame("dropped", n)>> ELSE <<>>
EnforceTraceBound(p) ==
    /\ Busy(p) /\ Top(p).op = "bound"
    /\ LET over == IF Len(fs.traces) > MaxTraces THEN Len(fs.traces) - MaxTraces ELSE 0
       IN  /\ fs' = [fs EXCEPT !.traces = Tail0(@, MaxTraces)]
           /\ proc' = [proc EXCEPT ![p] = CountDropped(over) \o Tail(@)]
    /\ UNCHANGED <<requested, commands, torn, fresh>>

-----------------------------------------------------------------------------
(* Entry points.                                                           *)

OtherProcess(p) == IF p = "daemon" THEN "cli" ELSE "daemon"
Begin(p, frames) ==
    /\ ~Busy(p) /\ proc' = [proc EXCEPT ![p] = frames]
    /\ torn' = (torn \/ Busy(OtherProcess(p)))
    /\ torn' => Len(requested') <= MaxTornRequests
    /\ fresh' = (~Busy(OtherProcess(p)) /\ frames[1].op = "ingest")

\* record_request, called by EvidenceService.serve and _record_evidence_fault:
\* an order change and a fault leave a trace, an unchanged success does not.  A
\* request whose envelope did not parse has no usable name (id 0).
TracedRequest(shape) ==
    [id |-> IF shape.kind = "fault" /\ ~shape.comparable THEN 0 ELSE Len(requested) + 1,
     kind |-> shape.kind, comparable |-> shape.comparable, slow |-> shape.slow, plan |-> Len(requested) % 2]
RecordRequest(shape) ==
    LET r == TracedRequest(shape)
        with(op) == Frame(op, r)
    IN  /\ Len(requested) < MaxTraced
        /\ requested' = Append(requested, r)
        /\ Begin("daemon", <<Frame("ingest", 0)>>
                           \o (IF shape.kind = "ok" THEN <<>> ELSE <<with("trace"), with("index"), Frame("bound", 0)>>)
                           \o (IF r.id = 0 THEN <<Frame("bump", 0)>> ELSE <<with("remember")>>) \o <<with("aggregate")>> \o Evaluate)
        /\ UNCHANGED <<fs, commands>>

Command(name, frames) ==
    /\ name \in Commands /\ commands + Len(fs.log) < MaxEvents /\ commands' = commands + 1
    /\ UNCHANGED <<fs, requested>> /\ Begin("cli", frames)
\* status: list_traces and aggregates both take in the plugin's file.
Status == Command("status", Frames(<<"ingest", "ingest">>))
\* annotate: record_annotation.
Annotate(id) == Command("annotate", <<Frame("ingest", 0), Frame("annotate", id)>> \o Evaluate)
\* alarm dismiss.
Dismiss(k) == Command("dismiss", <<Frame("dismiss", k)>>)

\* The plugin's AppendClientApplyRecord: what became of a window, once its
\* requests were answered; refused when the file has its size.
\* Only Ingest reads the file, so lines are added where it comes next.
Unopened == \A p \in Processes : Busy(p) => Top(p).op = "ingest"
Room == Unopened /\ Len(fs.log) < MaxLines /\ commands + Len(fs.log) < MaxEvents
Answered(id) == id \in 1 .. Len(requested) /\ requested[id].id = id /\ (id < Len(requested) \/ ~Busy("daemon"))
AppendAck(ids, state, plan) ==
    /\ ids # {} /\ (\A id \in ids : Answered(id)) /\ Room
    /\ fs' = [fs EXCEPT !.log = Append(@, [bad |-> FALSE, ids |-> ids, state |-> state, plan |-> plan])]
    /\ fresh' = FALSE
    /\ UNCHANGED <<proc, requested, commands, torn>>
\* A write cut short: a line nothing can be made of.
AppendTorn ==
    /\ requested # <<>> /\ Room
    /\ fs' = [fs EXCEPT !.log = Append(@, [bad |-> TRUE, ids |-> {}, state |-> "unknown", plan |-> 0])]
    /\ fresh' = FALSE
    /\ UNCHANGED <<proc, requested, commands, torn>>

TraceInit ==
    /\ fs = EmptyStore /\ proc = [p \in Processes |-> <<>>] /\ requested = <<>> /\ commands = 0
    /\ torn = FALSE /\ fresh = FALSE

TraceNext ==
    \/ \E shape \in Shapes : RecordRequest(shape)
    \/ \E p \in Processes : Ingest(p) \/ Read(p) \/ Write(p) \/ WriteTrace(p) \/ EnforceTraceBound(p)
    \/ Status \/ (\E k \in 1 .. Len(fs.alarms) : Dismiss(k)) \/ \E id \in 1 .. Len(requested) : Annotate(id)
    \/ \E id \in 1 .. Len(requested), state \in {"applied", "fallback"}, plan \in {0, 1} : AppendAck({id}, state, plan)
    \/ AppendTorn

TraceSpec == TraceInit /\ [][TraceNext]_traceVars

-----------------------------------------------------------------------------

AtRest == \A p \in Processes : ~Busy(p)
Matching(e) == {k \in 1 .. Len(fs.log) : e.id \in fs.log[k].ids /\ e.plan = fs.log[k].plan}
EarliestOf(S) == CHOOSE k \in S : \A j \in S : k <= j

\* What a request is said to have become is what the plugin said about the plan
\* that was computed for it, and what it said first as long as the processes have
\* not overlapped: reading its file again and again neither invents nor changes an
\* outcome ("First ack wins", record_apply_ack).
FirstAckWins ==
    \A k \in 1 .. Len(fs.apply) :
        LET e == fs.apply[k]
        IN  e.state # "unknown" => /\ \E j \in Matching(e) : e.state = fs.log[j].state
                                   /\ ~torn => e.state = fs.log[EarliestOf(Matching(e))].state

\* An acknowledgement a race has wiped out comes back: whenever the last work
\* on the store ran alone, every entry the plugin's file speaks of is decided.
AcksRecovered ==
    AtRest /\ fresh => \A k \in 1 .. Len(fs.apply) : Matching(fs.apply[k]) # {} => fs.apply[k].state # "unknown"

\* As long as the processes have not overlapped, the counts a reader is shown
\* account for every request and every trace: what a bound dropped is counted.
CountsComplete ==
    AtRest /\ ~torn =>
        /\ fs.agg.requests = Len(requested)
        /\ Len(fs.traces) + fs.agg.dropped = Cardinality({k \in 1 .. Len(requested) : requested[k].kind # "ok"})
        /\ Len(fs.apply) + fs.agg.loss >= Len(requested)
        /\ fs.agg.applied + fs.agg.fallback + fs.agg.unknown = Len(fs.apply)

\* As long as the processes have not overlapped, the alarm for mispromotions is
\* there exactly when enough confirmed order changes lie within a window of
\* comparable requests, however late they were confirmed.
Position(id) == Cardinality({k \in 1 .. id : requested[k].comparable})
ConfirmedIn(i, j) == {k \in 1 .. Len(fs.ann) : requested[fs.ann[k]].comparable /\ Position(fs.ann[k]) \in i .. j}
AlarmExact ==
    AtRest /\ ~torn =>
        ((\E k \in 1 .. Len(fs.alarms) : fs.alarms[k].kind = "mispromotion_rate")
         <=> \E i \in 1 .. Len(requested) : Cardinality(ConfirmedIn(i, i + AlarmWindow - 1)) >= Limit)

\* "an already-fired (or dismissed) alarm with the same kind is not re-fired"
\* (_evaluate_alarms).
NotRefired ==
    ~torn => \A i, j \in 1 .. Len(fs.alarms) : fs.alarms[i].kind = fs.alarms[j].kind => i = j

\* The trace tells what happened: the first acknowledgement of a request stays,
\* none is lost by a torn file or a restart, drops are counted, alarms exact.
TraceHonest == FirstAckWins /\ AcksRecovered /\ CountsComplete /\ AlarmExact

=============================================================================
