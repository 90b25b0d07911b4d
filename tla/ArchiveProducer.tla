--------------------------- MODULE ArchiveProducer ---------------------------
(***************************************************************************)
(* The archive's producer inside the input method                          *)
(* (input_archive_session.cc, input_archive_producer.cc).  The session     *)
(* turns what the engine does into observations and admits them, without   *)
(* waiting, to a bounded queue; a worker thread polls the collector's      *)
(* policy, sends batches, retries what could not be delivered and turns    *)
(* what it had to drop into loss notices.  A retraction is queued without  *)
(* content and gets the content of the commit it undoes only when the      *)
(* collector has confirmed that very commit.                               *)
(*                                                                         *)
(* The collector is external: it may be away, take some observations of a  *)
(* batch and refuse the others, answer with something unreadable, or lose  *)
(* its answer; it recognises an observation it already has.  The mutex is  *)
(* try-locked by the input thread, so an admission may always fail on      *)
(* contention.                                                             *)
(***************************************************************************)
EXTENDS Integers, Sequences, FiniteSets, SequencesExt

CONSTANTS
    QueueLimit,     \* queue_count_limit
    BatchSize,      \* kBatchSize
    MaxRetries,     \* kMaxRetries
    MaxReceipts,    \* kMaxRetractionReceipts
    MaxLosses,      \* the 64 loss notices that are kept
    MaxSequence     \* bound on the observations of a session

ASSUME LimitsAssumption ==
    /\ QueueLimit \in Nat \ {0} /\ BatchSize \in Nat \ {0} /\ MaxRetries \in Nat
    /\ MaxReceipts \in Nat \ {0} /\ MaxLosses \in Nat \ {0} /\ MaxSequence \in Nat

VARIABLES
    sess,       \* the session object of one engine
    prod,       \* what the producer's mutex guards, and the generation
    wk,         \* the worker thread
    policy,     \* "allows": a fresh poll said enabled; "stops" otherwise
    safe,       \* destination_safe
    archive,    \* what the collector stored, in order
    passed,     \* what it refused, unheard, while it stored a later one
    hidden,     \* part of this composition happened while capture was barred
    strayed     \* the destination was unsafe at some time

producerVars == <<sess, prod, wk, policy, safe, archive, passed, hidden, strayed>>
env == <<policy, safe, strayed>>

NoItem == [kind |-> "none"]
Resting == [pc |-> "rest", batch |-> <<>>, losses |-> <<>>, gen |-> 0]

\* The members of a sequence at some of its positions, in their order.
Picked(s, places) ==
    [k \in 1 .. Cardinality(places) |->
        s[CHOOSE n \in places : Cardinality({m \in places : m <= n}) = k]]
\* Each of them tried once more.
Again(s) == [i \in DOMAIN s |-> [s[i] EXCEPT !.retries = @ + 1]]

-----------------------------------------------------------------------------
(* The producer under its mutex.                                           *)

\* loss notices, exclusion notices and the stages HighStage names; "step" stands
\* for competition, emission and selection.
High(item) == item.kind \in {"loss", "exclusion"} \/ item.stage # "step"

\* FindReceiptLocked.
ReceiptOf(p, update) == {i \in DOMAIN p.receipts : p.receipts[i].update = update}
SetReceipt(p, update, state, content) ==
    [p EXCEPT !.receipts = [i \in DOMAIN @ |-> IF @[i].update = update THEN [@[i] EXCEPT !.state = state, !.content = content] ELSE @[i]]]

\* RegisterReceiptLocked: the oldest receipt makes room.
RegisterReceipt(p, item) ==
    IF ~item.retractable \/ ReceiptOf(p, item.seq) # {} THEN p
    ELSE LET all == Append(p.receipts, [update |-> item.seq, gen |-> item.gen, state |-> "pending", content |-> FALSE])
         IN  [p EXCEPT !.receipts = SubSeq(all, IF Len(all) > MaxReceipts THEN 2 ELSE 1, Len(all))]

\* MarkDependencyUnknownLocked.
MarkDependencyUnknown(p, update) ==
    IF \E i \in ReceiptOf(p, update) : p.receipts[i].state = "pending" THEN SetReceipt(p, update, "unknown", FALSE) ELSE p

LastOnes(list, n) == IF Len(list) > n THEN SubSeq(list, Len(list) - n + 1, Len(list)) ELSE list
\* RememberLossLocked: the newest notices are kept.
Notice(item) ==
    [item EXCEPT !.kind = "loss", !.stage = "loss", !.content = FALSE, !.depends = 0, !.retractable = FALSE, !.retries = 0]
Owed(p) == IF p.owed = "told" THEN "told" ELSE "owed"
RememberLoss(p, item) ==
    [MarkDependencyUnknown(p, item.seq) EXCEPT !.losses = LastOnes(Append(@, Notice(item)), MaxLosses), !.owed = Owed(p)]

Fits(p) == Len(p.queue) < QueueLimit
Enqueue(p, item) == RegisterReceipt([p EXCEPT !.queue = Append(@, item)], item)
FirstLow(p) == {i \in DOMAIN p.queue : ~High(p.queue[i]) /\ \A j \in 1 .. (i - 1) : High(p.queue[j])}

\* TryAdmit, once the mutex is taken: queue, displace, or remember the loss.
AdmitLocked(p, item) ==
    IF Fits(p) THEN Enqueue(p, item)
    ELSE IF High(item) /\ FirstLow(p) # {}
    THEN LET i == CHOOSE k \in FirstLow(p) : TRUE
         IN  Enqueue([RememberLoss(p, p.queue[i]) EXCEPT !.queue = RemoveAt(p.queue, i)], item)
    ELSE RememberLoss(p, item)

\* The ways out before the mutex: unsafe destination, policy, contention.
PolicyAllows == policy = "allows"
Refusable(item) == ~safe \/ (item.kind # "loss" /\ ~PolicyAllows)
\* What TryAdmit may leave behind.
TryAdmit(p, item) == IF Refusable(item) THEN {p} ELSE {p, AdmitLocked(p, item)}
Queued(p, item) == \E i \in DOMAIN p.queue : p.queue[i].seq = item.seq

\* AbandonQueue: the engine is gone; nothing of this binding may be sent.
Abandoned(p) == [p EXCEPT !.queue = <<>>, !.losses = <<>>, !.receipts = <<>>, !.held = NoItem, !.gen = @ + 1]

-----------------------------------------------------------------------------
(* The session.                                                            *)

\* locally_effective, and ContentEligible with secure input on or off.
Effective == PolicyAllows /\ safe

\* FillEntry, Admit: the next observation of the session.
Observation(s, kind, stage, content) ==
    [kind |-> kind, stage |-> stage, seq |-> s.seq + 1, content |-> content, gen |-> prod.gen, retries |-> 0,
     retractable |-> FALSE, depends |-> 0, taint |-> content /\ hidden]

\* CloseComposition (its flush of demand is a window of its own).
CloseComposition(s) == [s EXCEPT !.open = FALSE, !.excluded = FALSE, !.explicit = FALSE]

CanObserve(n) == sess.live /\ sess.seq + n <= MaxSequence

\* ObserveMaterializedWindow (FlushDemand is the same with no plan): two low
\* observations, or the exclusion of this composition.
ObserveMaterializedWindow(secure) ==
    /\ CanObserve(2)
    /\ hidden' = (hidden \/ ~(Effective /\ ~secure))
    /\ IF Effective /\ ~secure /\ ~sess.excluded
       THEN \E p \in TryAdmit(prod, Observation(sess, "plugin", "step", TRUE)) :
            \E q \in TryAdmit(p, [Observation(sess, "plugin", "step", TRUE) EXCEPT !.seq = sess.seq + 2]) :
                prod' = q /\ sess' = [sess EXCEPT !.open = TRUE, !.seq = @ + 2]
       ELSE \E p \in TryAdmit(prod, Observation(sess, "exclusion", "step", FALSE)) :
                /\ prod' = IF Effective THEN p ELSE prod
                /\ sess' = [sess EXCEPT !.open = TRUE, !.excluded = TRUE, !.seq = IF Effective THEN @ + 1 ELSE @]
    /\ UNCHANGED <<wk, archive, passed, env>>

ExcludePrefix(s) == [s EXCEPT !.explicit = FALSE, !.excluded = TRUE, !.open = @ \/ Effective]

\* ObserveTemporarySelection.
ObserveTemporarySelection(secure) ==
    /\ CanObserve(1)
    /\ hidden' = (hidden \/ ~(Effective /\ ~secure))
    /\ IF Effective /\ ~secure /\ ~sess.excluded
       THEN \E p \in TryAdmit(prod, Observation(sess, "plugin", "step", TRUE)) :
                prod' = p /\ sess' = [sess EXCEPT !.explicit = TRUE, !.seq = @ + 1]
       ELSE \E p \in TryAdmit(prod, Observation(sess, "exclusion", "step", FALSE)) :
                IF Effective THEN prod' = p /\ sess' = [ExcludePrefix(sess) EXCEPT !.seq = @ + 1]
                ELSE prod' = prod /\ sess' = ExcludePrefix(sess)
    /\ UNCHANGED <<wk, archive, passed, env>>

\* ObserveCommit: arms the retraction of this very commit.
ObserveCommit(secure) ==
    /\ CanObserve(1)
    /\ LET eligible == Effective /\ ~secure /\ ~sess.excluded
           item == [Observation(sess, IF eligible THEN "plugin" ELSE "exclusion", "commit", eligible) EXCEPT !.retractable = eligible]
       IN  \E p \in TryAdmit(prod, item) :
              /\ prod' = p
              /\ sess' = [CloseComposition(sess) EXCEPT !.seq = @ + 1, !.armed = TRUE, !.commit = item.seq,
                              !.depends = eligible /\ Queued(p, item)]
    /\ hidden' = FALSE
    /\ UNCHANGED <<wk, archive, passed, env>>

\* ObserveAbort.
ObserveAbort(secure) ==
    /\ CanObserve(1) /\ (sess.open \/ sess.explicit)
    /\ LET eligible == Effective /\ ~secure /\ ~sess.excluded
       IN  \E p \in TryAdmit(prod, Observation(sess, IF eligible THEN "plugin" ELSE "exclusion", "cancellation", eligible)) :
              prod' = p /\ sess' = [CloseComposition(sess) EXCEPT !.seq = @ + 1, !.armed = FALSE, !.depends = FALSE, !.commit = 0]
    /\ hidden' = FALSE
    /\ UNCHANGED <<wk, archive, passed, env>>

\* ObserveUpdate on an empty composition.
ObserveUpdate ==
    /\ sess.live /\ (sess.open \/ sess.excluded)
    /\ sess' = CloseComposition(sess) /\ hidden' = FALSE
    /\ UNCHANGED <<prod, wk, archive, passed, env>>

\* NoteInputKey with any key but BackSpace.
NoteInputKey ==
    /\ sess.live /\ sess.armed
    /\ sess' = [sess EXCEPT !.armed = FALSE, !.depends = FALSE, !.commit = 0]
    /\ UNCHANGED <<prod, wk, archive, passed, hidden, env>>

\* NoteInputKey with BackSpace, unhandled: ObserveRetraction queues a
\* reference to the commit, never its content.
ObserveRetraction ==
    /\ CanObserve(1) /\ sess.armed
    /\ LET intent == [Observation(sess, "plugin", "retraction", FALSE) EXCEPT !.depends = sess.commit, !.taint = FALSE]
           notice == Observation(sess, "exclusion", "retraction", FALSE)
       IN  \E p \in TryAdmit(prod, IF sess.depends THEN intent ELSE notice) :
              prod' = p /\ sess' = [sess EXCEPT !.armed = FALSE, !.depends = FALSE, !.commit = 0, !.seq = @ + 1]
    /\ UNCHANGED <<wk, archive, passed, hidden, env>>

\* InputArchiveRegistry::Release of the last owner, or ShutdownAll.
ReleaseHeld ==
    /\ sess.live
    /\ prod' = Abandoned(prod) /\ sess' = [sess EXCEPT !.live = FALSE]
    /\ UNCHANGED <<wk, archive, passed, hidden, env>>

-----------------------------------------------------------------------------
(* The worker.                                                             *)

\* Mutant: an unresolved commit already authorises the content.
ResolveEagerly(p, item) ==
    [kind |-> "plugin", content |-> \A i \in ReceiptOf(p, item.depends) : p.receipts[i].state # "refused"]
\* ResolveIntentLocked, once the receipt is not pending any more.
ResolveIntent(p, item) ==
    LET backed == \E i \in ReceiptOf(p, item.depends) : p.receipts[i].state = "admitted" /\ p.receipts[i].gen = p.gen
    IN  [kind |-> IF backed THEN "plugin" ELSE "exclusion", content |-> backed]
Waits(p, item) ==
    /\ item.depends # 0
    /\ \E i \in ReceiptOf(p, item.depends) : p.receipts[i].state = "pending" /\ p.receipts[i].gen = p.gen

\* How much of the queue the worker may take: up to the first intent that waits.
Takable(p) ==
    Cardinality({n \in DOMAIN p.queue : n <= BatchSize /\ \A i \in 1 .. n : ~Waits(p, p.queue[i])})
\* What leaves the queue, each intent with what became of its commit.
Resolved(p, item) ==
    IF item.depends = 0 THEN item
    ELSE [item EXCEPT !.kind = ResolveIntent(p, item).kind, !.content = ResolveIntent(p, item).content]
\* WorkerLoop: take the losses and a batch under the mutex.
TakeBatch ==
    /\ wk.pc = "rest"
    /\ prod.queue # <<>> \/ prod.losses # <<>>
    /\ LET n == Takable(prod)
           taken == SubSeq(prod.queue, 1, n)
       IN  /\ wk' = [pc |-> "losses", losses |-> prod.losses, gen |-> prod.gen,
                     batch |-> [i \in 1 .. n |-> Resolved(prod, taken[i])]]
           /\ prod' = [prod EXCEPT !.losses = <<>>, !.queue = SubSeq(@, n + 1, Len(@)),
                           !.receipts = Picked(@, {k \in DOMAIN @ : \A i \in 1 .. n : taken[i].depends # @[k].update})]
    /\ UNCHANGED <<sess, archive, passed, hidden, env>>

\* The collector stores the observations it does not have yet, by their
\* sequence number (what it does with loss notices is not followed).
Known(log, item) == \E i \in DOMAIN log : log[i].seq = item.seq
Stored(item) == [seq |-> item.seq, stage |-> item.stage, content |-> item.content, depends |-> item.depends, taint |-> item.taint]
Fresh(log, items) == Picked(items, {i \in DOMAIN items : items[i].kind # "loss" /\ ~Known(log, items[i])})
Store(log, items) == log \o [i \in DOMAIN Fresh(log, items) |-> Stored(Fresh(log, items)[i])]

\* ApplyAdmissionCodesLocked: a code for each observation of the batch, admitted
\* or duplicate for those at the places `taken', a refusal for the others (an
\* unknown code differs from a refusal in the reason of the exclusion only).
ApplyAdmissionCodes(p, items, taken) ==
    [p EXCEPT !.receipts = [i \in DOMAIN @ |->
        LET places == {k \in DOMAIN items : items[k].retractable /\ items[k].seq = @[i].update}
        IN  IF places = {} THEN @[i]
            ELSE [@[i] EXCEPT !.state = IF places \subseteq taken THEN "admitted" ELSE "refused",
                              !.content = places \subseteq taken]]]
\* NoteBatchUnknownLocked.
NoteBatchUnknown(p, items) ==
    [p EXCEPT !.receipts = [i \in DOMAIN @ |->
        IF @[i].state = "pending" /\ \E k \in DOMAIN items : items[k].retractable /\ items[k].seq = @[i].update
        THEN [@[i] EXCEPT !.state = "unknown", !.content = FALSE] ELSE @[i]]]

\* Exchange: what may come of one request over the socket.  The collector takes
\* the observations at some places and refuses the others; its answer has a code
\* for each, is garbled (no usable codes), or never arrives.
Exchange(items) == [answer : {"none", "garbled", "codes"}, taken : SUBSET DOMAIN items]
\* Those it refused although it took a later one.
PassedOver(items, taken) ==
    {items[i].seq : i \in {k \in DOMAIN items \ taken : items[k].kind # "loss" /\ \E j \in taken : j > k}}
Dropped(p) == [fate |-> "dropped", p |-> p, log |-> archive, passed |-> passed]
\* SendBatch: the fate of one exchange, the producer and the archive after it.
SendBatch(items) ==
    IF wk.gen # prod.gen THEN {Dropped(prod)}
    ELSE IF ~safe THEN {Dropped(NoteBatchUnknown(prod, items))}
    ELSE {[fate |-> IF x.answer = "none" THEN "retry" ELSE "sent",
           p |-> CASE x.answer = "none" -> prod
                   [] x.answer = "garbled" -> NoteBatchUnknown(prod, items)
                   [] x.answer = "codes" -> ApplyAdmissionCodes(prod, items, x.taken),
           log |-> Store(archive, Picked(items, x.taken)),
           passed |-> IF x.answer = "none" THEN passed \cup PassedOver(items, x.taken) ELSE passed] : x \in Exchange(items)}

\* HoldExhaustedLossLocked: one notice stands for the outage.
Hold(p, loss) == IF p.held # NoItem THEN p ELSE [p EXCEPT !.held = [loss EXCEPT !.retries = 0]]
\* Those that may be tried once more.
Retriable(items) == {i \in DOMAIN items : items[i].retries < MaxRetries}
\* RestoreLosses: back in front, or held once tried too often.
RestoreLosses(p, items) ==
    LET again == Again(Picked(items, Retriable(items)))
        spent == Picked(items, DOMAIN items \ Retriable(items))
        q == [p EXCEPT !.losses = LastOnes(again \o @, MaxLosses)]
    IN  IF spent = <<>> THEN q ELSE Hold(q, Last(spent))

\* SendLosses.
SendLosses ==
    /\ wk.pc = "losses"
    /\ IF wk.losses = <<>> THEN UNCHANGED <<prod, archive, passed>>
       ELSE \E r \in SendBatch(wk.losses) :
              /\ archive' = r.log /\ passed' = r.passed
              /\ prod' = IF r.fate = "retry" THEN RestoreLosses(r.p, wk.losses)
                         ELSE IF r.fate = "sent" THEN [r.p EXCEPT !.owed = "told"] ELSE r.p
    /\ wk' = [wk EXCEPT !.pc = "batch", !.losses = <<>>]
    /\ UNCHANGED <<sess, hidden, env>>

\* Mutant: what failed goes behind what was queued since.
RequeueLast(p, items) ==
    [p EXCEPT !.queue = @ \o Again(Picked(items, {i \in DOMAIN items : items[i].retries < MaxRetries}))]
\* Requeue: newest first, each to the front, while there is room and a retry
\* left; the rest are losses, and no intent waits for them.
Requeuable(p, items) ==
    {i \in Retriable(items) : Len(p.queue) + Cardinality({j \in Retriable(items) : j > i}) < QueueLimit}
Requeue(p, items) ==
    LET kept == Requeuable(p, items)
        lost == Picked(items, DOMAIN items \ kept)
        notices == [i \in DOMAIN lost |-> Notice(lost[Len(lost) + 1 - i])]
    IN  IF wk.gen # p.gen THEN p
        ELSE [p EXCEPT !.queue = Again(Picked(items, kept)) \o @,
                       !.losses = LastOnes(@ \o notices, MaxLosses),
                       !.owed = IF lost = <<>> THEN @ ELSE Owed(p),
                       !.receipts = [i \in DOMAIN @ |->
                           IF @[i].state = "pending" /\ \E k \in DOMAIN lost : lost[k].seq = @[i].update
                           THEN [@[i] EXCEPT !.state = "unknown", !.content = FALSE] ELSE @[i]]]

\* The batch of observations.
SendObservations ==
    /\ wk.pc = "batch"
    /\ IF wk.batch = <<>> THEN UNCHANGED <<prod, archive, passed>> /\ wk' = Resting
       ELSE \E r \in SendBatch(wk.batch) :
              /\ archive' = r.log /\ passed' = r.passed
              /\ prod' = IF r.fate = "retry" THEN Requeue(r.p, wk.batch) ELSE r.p
              /\ wk' = IF r.fate = "sent" THEN [wk EXCEPT !.pc = "held", !.batch = <<>>] ELSE Resting
    /\ UNCHANGED <<sess, hidden, env>>

\* MaybeDeliverHeldLoss, after a batch that was answered or a policy poll.
DeliverHeldLoss ==
    /\ wk.pc = "held"
    /\ IF prod.held = NoItem \/ prod.held.gen # wk.gen THEN prod' = [prod EXCEPT !.held = NoItem] /\ UNCHANGED <<archive, passed>>
       ELSE \E r \in SendBatch(<<prod.held>>) :
              /\ archive' = r.log /\ passed' = r.passed
              /\ prod' = IF r.fate = "sent" THEN [r.p EXCEPT !.held = NoItem, !.owed = "told"] ELSE r.p
    /\ wk' = Resting
    /\ UNCHANGED <<sess, hidden, env>>

\* PollPolicy: the collector says enabled, says off or paused, or says nothing
\* that can be read; any policy it names lets a held notice go.
\* RefreshDestination looks at the path again.
PollPolicy(answer) ==
    /\ wk.pc = "rest" /\ safe
    /\ policy' = IF answer = "enabled" THEN "allows" ELSE "stops"
    /\ wk' = IF answer # "unreadable" /\ prod.held # NoItem THEN [Resting EXCEPT !.pc = "held", !.gen = prod.gen] ELSE wk
    /\ UNCHANGED <<sess, prod, safe, archive, passed, hidden, strayed>>
RefreshDestination ==
    /\ wk.pc = "rest" /\ (safe => ~strayed)
    /\ safe' = ~safe /\ strayed' = TRUE /\ policy' = IF safe THEN "stops" ELSE policy
    /\ UNCHANGED <<sess, prod, wk, archive, passed, hidden>>
\* An observation of the policy grows stale.
Expire ==
    /\ policy = "allows" /\ policy' = "stops"
    /\ UNCHANGED <<sess, prod, wk, safe, archive, passed, hidden, strayed>>

-----------------------------------------------------------------------------

ProducerInit ==
    /\ sess = [live |-> TRUE, open |-> FALSE, excluded |-> FALSE, explicit |-> FALSE, armed |-> FALSE,
               depends |-> FALSE, commit |-> 0, seq |-> 0]
    /\ prod = [queue |-> <<>>, losses |-> <<>>, receipts |-> <<>>, held |-> NoItem, gen |-> 1, owed |-> "none"]
    /\ wk = Resting /\ policy = "stops" /\ safe = TRUE
    /\ archive = <<>> /\ passed = {} /\ hidden = FALSE /\ strayed = FALSE

ProducerNext ==
    \/ \E secure \in BOOLEAN :
           ObserveMaterializedWindow(secure) \/ ObserveTemporarySelection(secure) \/ ObserveCommit(secure) \/ ObserveAbort(secure)
    \/ ObserveUpdate \/ NoteInputKey \/ ObserveRetraction \/ ReleaseHeld
    \/ TakeBatch \/ SendLosses \/ SendObservations \/ DeliverHeldLoss
    \/ \E answer \in {"enabled", "paused", "unreadable"} : PollPolicy(answer)
    \/ RefreshDestination \/ Expire

ProducerSpec == ProducerInit /\ [][ProducerNext]_producerVars

-----------------------------------------------------------------------------

\* Content is archived only from compositions no part of which happened while
\* capture was barred (policy not effective, secure input): a selection made
\* then must not be backfilled by a commit after capture resumes.
ExcludedNeverSent == \A i \in DOMAIN archive : archive[i].content => ~archive[i].taint

\* A retraction carries content only if the collector has stored the commit it
\* undoes (ResolveIntentLocked: "content is attached only for a genuinely
\* admitted commit").
RetractionBacked ==
    \A i \in DOMAIN archive : archive[i].stage = "retraction" /\ archive[i].content =>
        \E j \in DOMAIN archive : archive[j].seq = archive[i].depends /\ archive[j].stage = "commit" /\ archive[j].content

\* The observations of a session are archived in the order they were made,
\* whatever was displaced, retried or dropped in between; only one that the
\* collector refused beside a later one it took, in an answer that never
\* arrived, comes late when it is sent again.
ArchivedInOrder ==
    \A i, j \in DOMAIN archive : i < j => archive[i].seq < archive[j].seq \/ archive[j].seq \in passed

\* An intent at the head of the queue does not wait for ever: while its receipt
\* is pending, the commit it waits for is still on its way.
IntentNotStuck ==
    \A i \in DOMAIN prod.queue : Waits(prod, prod.queue[i]) =>
        \/ \E j \in 1 .. (i - 1) : prod.queue[j].seq = prod.queue[i].depends
        \/ \E j \in DOMAIN wk.batch : wk.batch[j].seq = prod.queue[i].depends

\* What the queue dropped is declared: once an observation was displaced or
\* given up, a loss notice is pending, held, in flight, or was delivered, as
\* long as the destination stayed safe and the engine alive.
LossDeclared ==
    prod.owed = "owed" /\ ~strayed /\ sess.live =>
        prod.losses # <<>> \/ prod.held # NoItem \/ wk.losses # <<>>

\* The archive is told the truth about an input session: nothing excluded, each
\* retraction with the commit it retracts, in order, and losses announced.
ArchivedFaithfully ==
    ExcludedNeverSent /\ RetractionBacked /\ ArchivedInOrder /\ IntentNotStuck /\ LossDeclared

=============================================================================
