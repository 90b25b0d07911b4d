---------------------------- MODULE ArchiveProofs ----------------------------
(***************************************************************************)
(* Proofs about the input archive.                                         *)
(*                                                                         *)
(* The collector: every unit it admitted is published once, shown for good *)
(* once it was shown, covered by the checkpoint that waited for it or      *)
(* counted as lost (AdmittedAccounted), for every limit, every set of      *)
(* observations and every mix of crashes and failed writes but one.  The   *)
(* exception is an append that fails after some of its bytes reached the   *)
(* log: the publication thread goes on behind them with an offset that     *)
(* does not count them, and the property is false.  NoTornAppend rules it  *)
(* out.  The account of LossDeclared is not inductive: it counts a         *)
(* conflicting body on its way to the quarantine file as a unit that is    *)
(* still on its way, and it forgets that what is lost while the process    *)
(* stops was counted before.  The invariant keeps three accounts instead   *)
(* (of the running process, of its file once a stop was clean, and of the  *)
(* waiting checkpoint), the correspondence of log, staged lines and index  *)
(* that makes a published unit durable, and the identities that keep a     *)
(* unit from being queued twice.                                           *)
(*                                                                         *)
(* The restore: what it replaces is what its user confirmed, what serves   *)
(* afterwards is the whole backup and what was written for it, and what is *)
(* said of a job is true (RestoreSound), for every number of producers,    *)
(* jobs, rows, edits and deaths.  NoOverlap rules out a checkpoint that    *)
(* overlaps a switch, with which the property is false; what it says of    *)
(* outcomes and of the locks (OutcomesHold) needs no hypothesis.           *)
(***************************************************************************)
EXTENDS ArchiveCollector, ArchiveManagement, SequenceTheorems, FiniteSetTheorems, WellFoundedInduction, TLAPS

\* A failed append leaves no bytes in the log.
NoTornAppend == "torn" \notin Faults

----------------------------------------------------------------------------
(* The inductive invariant                                                 *)

Units == [id : Ids, body : Bodies]
Items == [id : Ids, body : Bodies, loss : BOOLEAN, priority : {"high", "low"},
          quarantine : BOOLEAN]
Lines == [id : Ids, body : Bodies, seq : Nat, loss : BOOLEAN]
IndexRows == [seq : Nat, id : Ids, body : Bodies, loss : BOOLEAN, offset : Nat]
PubStates == [pc : {"wait", "append", "watermark", "install", "ended"}, batch : Seq(Items),
              lines : Seq(Lines), quar : Nat, pending : State, waiters : BOOLEAN]
Checkpoints == [state : {"none", "waiting", "held", "answered"}, covers : SUBSET Units]
Budgets == [admissions : Nat, policies : Nat, faults : Nat, starts : 0..MaxStarts]

\* The types of the files and of the collector's memory.  Without a torn append
\* every cell of the log is a line.
Types ==
    /\ archiveLog \in Seq(Lines) /\ quarFile \in Nat
    /\ stateFile \in State /\ mem \in State
    /\ policyFile \in [desired : Policies, rev : Nat] /\ policy \in [desired : Policies, rev : Nat]
    /\ proc \in {"down", "serving", "joining", "marked"} /\ stopping \in BOOLEAN
    /\ queue \in Seq(Items) /\ Len(queue) <= QueueCount
    /\ DOMAIN identities \subseteq Ids /\ Range(identities) \subseteq Bodies
    /\ index \in Seq(IndexRows)
    /\ pub \in PubStates
    /\ checkpoint \in Checkpoints
    /\ owed \in SUBSET Units /\ IsFiniteSet(owed) /\ told \in Nat
    /\ budget \in Budgets

\* The collector says that it does not know its own tail.
Unknown == mem.storageFailure /\ mem.crashTail = "unknown"

\* What each state of the process leaves the publication thread.
Stages ==
    /\ stopping <=> proc \in {"joining", "marked"}
    /\ ~Alive => pub.pc = "ended" /\ queue = <<>>
    /\ pub.pc \in {"wait", "ended"} => pub.lines = <<>>
    /\ Alive /\ pub.pc = "ended" => stopping \/ Unknown

\* The log, the two watermarks, the staged lines and the index agree.
LogInv ==
    /\ stateFile.offset <= Len(archiveLog)
    /\ Alive => /\ Len(index) = mem.offset /\ mem.offset <= stateFile.offset
                /\ \A n \in 1..mem.offset :
                      /\ index[n].id = archiveLog[n].id /\ index[n].seq = archiveLog[n].seq
                      /\ index[n].body = archiveLog[n].body /\ index[n].offset = n - 1
    /\ pub.pc \in {"wait", "append"} => Len(archiveLog) = mem.offset
    /\ pub.pc \in {"watermark", "install"} =>
          /\ Len(archiveLog) = mem.offset + Len(pub.lines) /\ pub.pending.offset = Len(archiveLog)
          /\ \A n \in 1..Len(pub.lines) : archiveLog[mem.offset + n] = pub.lines[n]
    /\ pub.pc = "watermark" => stateFile.offset = mem.offset
    /\ pub.pc = "install" => stateFile.offset = Len(archiveLog)
    /\ Alive /\ pub.pc = "ended" /\ ~Unknown => stateFile.offset = mem.offset

\* What was shown lies below the watermark that a restart begins with.
ShownInv ==
    \A r \in reader.shown :
        /\ r.offset \in Nat
        /\ r.offset < IF Alive THEN mem.offset ELSE stateFile.offset
        /\ archiveLog[r.offset + 1].id = r.id /\ archiveLog[r.offset + 1].seq = r.seq

\* The positions of the queue that are on their way to the log.
OnTheWay == {n \in DOMAIN queue : ~queue[n].quarantine}
\* The positions of the log whose identities a restart knows.
Lasting == {n \in DOMAIN archiveLog : ~archiveLog[n].loss}

\* No two of the units queued, staged and recorded share an identity, and the
\* collector knows the identities of all of them.
IdInv ==
    /\ \A m, n \in Lasting : m # n => archiveLog[m].id # archiveLog[n].id
    /\ Alive => \A n \in Lasting : archiveLog[n].id \in DOMAIN identities
    /\ \A n \in OnTheWay :
          /\ queue[n].id \in DOMAIN identities
          /\ \A m \in OnTheWay : m # n => queue[m].id # queue[n].id
          /\ \A m \in Lasting : archiveLog[m].id # queue[n].id
    /\ pub.pc = "append" => \A n \in DOMAIN pub.lines :
          /\ pub.lines[n].id \in DOMAIN identities
          /\ \A m \in DOMAIN pub.lines : m # n => pub.lines[m].id # pub.lines[n].id
          /\ \A m \in Lasting : archiveLog[m].id # pub.lines[n].id
          /\ \A m \in OnTheWay : queue[m].id # pub.lines[n].id

\* A clean stop is the last thing a collector writes.
CleanInv ==
    /\ Alive /\ (mem.clean \/ stateFile.clean) => proc = "marked" /\ pub.pc = "ended"
    /\ pub.pc \in {"watermark", "install"} => ~pub.pending.clean

\* Units that are still on their way to the log.
Travelling == {[id |-> queue[n].id, body |-> queue[n].body] : n \in OnTheWay} \cup UnitsOf(pub.lines)

\* At most the counted losses are neither durable nor on their way; once the
\* thread has ended they are the ones that are not durable.
RunningAccount ==
    Alive /\ ~Unknown =>
        /\ Cardinality(owed \ (Durable \cup Travelling)) <= Counted(mem) - told
        /\ pub.pc = "ended" => Cardinality(owed \ Durable) <= Counted(mem) - told

\* The account a clean stop leaves to the next incarnation.
SealedAccount ==
    stateFile.clean => Cardinality(owed \ Durable) <= Counted(stateFile) - told

\* What the checkpoint must cover is in the index or in X, but for counted losses.
Within(X) ==
    \/ mem.storageFailure
    \/ Cardinality(checkpoint.covers \ (UnitsOf(index) \cup X)) <= Counted(mem) - told

\* The account of the checkpoint: the queue counts while it waits, the batch it
\* went with while it is held, nothing but the index once it is answered.
CheckpointAccount ==
    /\ IsFiniteSet(checkpoint.covers)
    /\ ~Alive => checkpoint.state = "none"
    /\ checkpoint.state = "held" <=> pub.waiters
    /\ pub.waiters => pub.pc \in {"append", "watermark", "install"}
    /\ checkpoint.state = "waiting" => Within(Travelling)
    /\ checkpoint.state = "held" => Within(UnitsOf(pub.lines))
    /\ checkpoint.state = "answered" => Within({})

IInv ==
    /\ Types /\ Stages /\ LogInv /\ ShownInv /\ IdInv /\ CleanInv
    /\ RunningAccount /\ SealedAccount /\ CheckpointAccount

----------------------------------------------------------------------------
(* Sequences, units and accounts                                           *)

UnitAt(cells, n) == [id |-> cells[n].id, body |-> cells[n].body]

\* There are n positions up to n.
LEMMA UpToFinite ==
  ASSUME NEW n \in Nat
  PROVE  IsFiniteSet(1..n) /\ Cardinality(1..n) = n
<1>1. 1 \in Int /\ n \in Int
  OBVIOUS
<1>2. IsFiniteSet(1..n) /\ Cardinality(1..n) = IF 1 > n THEN 0 ELSE n - 1 + 1
  BY <1>1, FS_Interval
<1> QED BY <1>2

\* A set of positions has a first one.
LEMMA LeastOf ==
  ASSUME NEW T \in SUBSET Nat, T # {}
  PROVE  \E m \in T : \A j \in T : m <= j
<1> DEFINE R == StrictSubsetOrdering(Nat)
           below == {1..k : k \in T}
<1>1. IsWellFoundedOn(R, FiniteSubsetsOf(Nat))
  BY FS_StrictSubsetOrderingWellFounded
<1>2. below \subseteq FiniteSubsetsOf(Nat) /\ below # {}
  <2>1. \A k \in T : 1..k \in SUBSET Nat /\ IsFiniteSet(1..k)
    BY UpToFinite
  <2>2. \A k \in T : 1..k \in FiniteSubsetsOf(Nat)
    BY <2>1 DEF FiniteSubsetsOf
  <2> QED BY <2>2
<1> HIDE DEF R, below
<1>3. PICK X \in below : \A Y \in below : ~(<<Y, X>> \in R)
  BY <1>1, <1>2, WFMin
<1>4. PICK m \in T : X = 1..m
  BY <1>3 DEF below
<1>5. ASSUME NEW j \in T, j < m PROVE FALSE
  <2>1. 1..j \in below /\ 1..j \subseteq 1..m /\ 1..j # 1..m /\ 1..m \subseteq Nat
    BY <1>5 DEF below
  <2> QED BY <1>3, <1>4, <2>1 DEF R, StrictSubsetOrdering
<1> QED BY <1>5

\* A sequence of the members of s at the chosen positions, each of them once.
Chosen(seen, s, places) ==
    \E at \in [1..Len(seen) -> places] :
       /\ \A k \in 1..Len(seen) : seen[k] = s[at[k]]
       /\ \A j, k \in 1..Len(seen) : j # k => at[j] # at[k]
       /\ \A n \in places : \E k \in 1..Len(seen) : at[k] = n

\* What Picked returns.
LEMMA PickedProperties ==
  ASSUME NEW S, NEW s \in Seq(S), NEW places \in SUBSET DOMAIN s
  PROVE  /\ Picked(s, places) \in Seq(S)
         /\ Len(Picked(s, places)) <= Len(s)
         /\ Chosen(Picked(s, places), s, places)
<1> DEFINE count == Cardinality(places)
           rank(n) == Cardinality({m \in places : m <= n})
           place(k) == CHOOSE n \in places : rank(n) = k
<1>1. DOMAIN s = 1..Len(s) /\ Len(s) \in Nat
  BY LenProperties
<1>2. IsFiniteSet(places) /\ count \in Nat /\ count <= Len(s)
  <2>1. IsFiniteSet(1..Len(s)) /\ Cardinality(1..Len(s)) = Len(s)
    BY <1>1, UpToFinite
  <2> QED BY <1>1, <2>1, FS_Subset, FS_CardinalityType
<1>3. \A n \in places : rank(n) \in 1..count
  <2> SUFFICES ASSUME NEW n \in places PROVE rank(n) \in 1..count
    OBVIOUS
  <2> DEFINE T == {m \in places : m <= n}
  <2>1. T \in SUBSET places /\ n \in T
    BY <1>1
  <2>2. IsFiniteSet(T) /\ Cardinality(T) <= count /\ Cardinality(T) \in Nat
    BY <1>2, <2>1, FS_Subset, FS_CardinalityType
  <2>3. Cardinality(T) # 0
    BY <2>1, <2>2, FS_EmptySet
  <2> QED BY <1>2, <2>2, <2>3
<1>4. \A m, n \in places : rank(m) = rank(n) => m = n
  <2>1. ASSUME NEW m \in places, NEW n \in places, m < n PROVE rank(m) # rank(n)
    <3> DEFINE T == {i \in places : i <= m}
               U == {i \in places : i <= n}
    <3>1. T \in SUBSET U /\ n \in U /\ n \notin T
      BY <1>1, <2>1
    <3>2. IsFiniteSet(U)
      BY <1>2, FS_Subset
    <3> QED BY <3>1, <3>2, FS_Subset
  <2>2. \A m, n \in places : m < n \/ n < m \/ m = n
    BY <1>1
  <2> HIDE DEF rank
  <2> QED BY <2>1, <2>2
<1> DEFINE r == [n \in places |-> rank(n)]
<1>5. r \in Injection(places, 1..count)
  BY <1>3, <1>4, Zenon DEF Injection, IsInjective
<1>6. r \in Surjection(places, 1..count)
  <2>1. IsFiniteSet(1..count) /\ Cardinality(1..count) = count
    BY <1>2, UpToFinite
  <2> QED BY <1>5, <2>1, FS_Injection
<1>7. \A k \in 1..count : \E n \in places : rank(n) = k
  BY <1>6 DEF Surjection
<1>8. \A k \in 1..count : place(k) \in places /\ rank(place(k)) = k
  BY <1>7
<1> DEFINE at == [k \in 1..count |-> place(k)]
<1>9. Picked(s, places) = [k \in 1..count |-> s[place(k)]]
  BY DEF Picked
<1> HIDE DEF place, rank, count
<1>10. \A k \in 1..count : s[place(k)] \in S
  BY <1>1, <1>8, ElementOfSeq
<1>11. /\ Picked(s, places) \in Seq(S) /\ Len(Picked(s, places)) = count
       /\ \A k \in 1..count : Picked(s, places)[k] = s[place(k)]
  BY <1>2, <1>9, <1>10
<1>12. at \in [1..count -> places]
  BY <1>8
<1>13. \A n \in places : \E k \in 1..count : place(k) = n
  BY <1>3, <1>4, <1>8
<1>14. /\ \A k \in 1..count : Picked(s, places)[k] = s[at[k]]
       /\ \A j, k \in 1..count : j # k => at[j] # at[k]
       /\ \A n \in places : \E k \in 1..count : at[k] = n
  BY <1>8, <1>11, <1>13
<1> HIDE DEF at, r
<1>15. 1..Len(Picked(s, places)) = 1..count /\ Len(Picked(s, places)) <= Len(s)
  BY <1>2, <1>11
<1>16. \E f \in [1..count -> places] :
          /\ \A k \in 1..count : Picked(s, places)[k] = s[f[k]]
          /\ \A j, k \in 1..count : j # k => f[j] # f[k]
          /\ \A n \in places : \E k \in 1..count : f[k] = n
  BY <1>12, <1>14, Zenon
<1> DEFINE pk == Picked(s, places)
           I == 1..Len(pk)
<1>17. I = 1..count /\ pk \in Seq(S) /\ Len(pk) <= Len(s)
  BY <1>11, <1>15
<1>18. \E f \in [1..count -> places] :
          /\ \A k \in 1..count : pk[k] = s[f[k]]
          /\ \A j, k \in 1..count : j # k => f[j] # f[k]
          /\ \A n \in places : \E k \in 1..count : f[k] = n
  BY <1>16, Zenon
<1> HIDE DEF I
<1>19. \E f \in [I -> places] :
          /\ \A k \in I : pk[k] = s[f[k]]
          /\ \A j, k \in I : j # k => f[j] # f[k]
          /\ \A n \in places : \E k \in I : f[k] = n
  BY <1>17, <1>18
<1>20. Chosen(pk, s, places)
  BY <1>19, Zenon DEF I, Chosen
<1> QED BY <1>17, <1>20

\* A sequence of cells has no more units than cells.
LEMMA UnitsCounted ==
  ASSUME NEW S, NEW s \in Seq(S)
  PROVE  /\ IsFiniteSet(UnitsOf(s)) /\ Cardinality(UnitsOf(s)) \in Nat
         /\ Cardinality(UnitsOf(s)) <= Len(s)
<1>1. DOMAIN s = 1..Len(s) /\ Len(s) \in Nat
  BY LenProperties
<1> DEFINE f == [n \in 1..Len(s) |-> UnitAt(s, n)]
<1>2. UnitsOf(s) = {UnitAt(s, n) : n \in 1..Len(s)}
  BY <1>1, Zenon DEF UnitsOf, UnitAt
<1>3. f \in Surjection(1..Len(s), UnitsOf(s))
  BY <1>2 DEF Surjection
<1>4. IsFiniteSet(1..Len(s)) /\ Cardinality(1..Len(s)) = Len(s)
  BY <1>1, UpToFinite
<1> QED BY <1>3, <1>4, FS_Surjection, FS_CardinalityType

\* A set grows by no more than what is added to it.
LEMMA GapGrows ==
  ASSUME NEW A, NEW B, NEW L, IsFiniteSet(A), IsFiniteSet(L), B \subseteq A \cup L,
         NEW k \in Nat, Cardinality(L) <= k
  PROVE  /\ IsFiniteSet(B) /\ Cardinality(A) \in Nat /\ Cardinality(B) \in Nat
         /\ Cardinality(B) <= Cardinality(A) + k
<1>1. IsFiniteSet(A \cap L)
  BY FS_Intersection
<1>2. /\ Cardinality(A) \in Nat /\ Cardinality(L) \in Nat /\ Cardinality(A \cap L) \in Nat
  BY <1>1, FS_CardinalityType
<1>3. /\ IsFiniteSet(A \cup L)
      /\ Cardinality(A \cup L) = Cardinality(A) + Cardinality(L) - Cardinality(A \cap L)
  BY FS_Union
<1>4. /\ IsFiniteSet(B) /\ Cardinality(B) <= Cardinality(A \cup L)
  BY <1>3, FS_Subset
<1>5. Cardinality(B) \in Nat /\ Cardinality(A \cup L) \in Nat
  BY <1>3, <1>4, FS_CardinalityType
<1> QED BY <1>2, <1>3, <1>4, <1>5

\* A set within a finite one is no larger.
LEMMA GapShrinks ==
  ASSUME NEW A, NEW B, IsFiniteSet(A), B \subseteq A
  PROVE  /\ IsFiniteSet(B) /\ Cardinality(A) \in Nat /\ Cardinality(B) \in Nat
         /\ Cardinality(B) <= Cardinality(A)
BY FS_Subset, FS_CardinalityType

\* The units below a watermark that the log reaches.
LEMMA UnitsBelow ==
  ASSUME NEW S, NEW cells \in Seq(S), NEW k \in Nat, k <= Len(cells)
  PROVE  UnitsOf(SubSeq(cells, 1, IF k < Len(cells) THEN k ELSE Len(cells)))
            = {UnitAt(cells, n) : n \in 1..k}
<1> DEFINE t == SubSeq(cells, 1, k)
<1>1. Len(cells) \in Nat /\ (IF k < Len(cells) THEN k ELSE Len(cells)) = k
  BY LenProperties
<1>2. t \in Seq(S) /\ Len(t) = k /\ \A n \in 1..k : t[n] = cells[n]
  BY <1>1, ElementOfSeq, SubSeqProperties
<1>3. DOMAIN t = 1..k
  BY <1>2, LenProperties
<1> HIDE DEF t
<1>4. UnitsOf(t) = {UnitAt(cells, n) : n \in 1..k}
  BY <1>2, <1>3 DEF UnitsOf, UnitAt
<1> QED BY <1>1, <1>4 DEF t

----------------------------------------------------------------------------
(* What the operators on the queue do                                      *)

\* What an observation becomes in the queue.
LEMMA ItemTyped ==
  ASSUME NEW o \in Observations, NEW b \in BOOLEAN
  PROVE  /\ Item(o, b) \in Items
         /\ Item(o, b).id = o.id /\ Item(o, b).body = o.body /\ Item(o, b).quarantine = b
         /\ Unit(o) \in Units
<1>1. o.id \in Ids /\ o.body \in Bodies
  BY DEF Ids, Bodies
<1>2. Priority(o) \in {"high", "low"} /\ (o.kind = "loss_notice") \in BOOLEAN
  BY DEF Priority
<1> QED BY <1>1, <1>2 DEF Item, Items, Unit, Units

\* The positions behind a removed one move up by one.
LEMMA RemoveAtProperties ==
  ASSUME NEW S, NEW s \in Seq(S), NEW v \in 1..Len(s)
  PROVE  /\ RemoveAt(s, v) \in Seq(S) /\ Len(RemoveAt(s, v)) = Len(s) - 1
         /\ \A k \in 1..(Len(s) - 1) : RemoveAt(s, v)[k] = s[IF k < v THEN k ELSE k + 1]
<1>1. Len(s) \in Nat /\ \A k \in 1..Len(s) : s[k] \in S
  BY LenProperties, ElementOfSeq
<1> DEFINE a == SubSeq(s, 1, v - 1)
           z == SubSeq(s, v + 1, Len(s))
<1>2. /\ a \in Seq(S) /\ Len(a) = v - 1 /\ \A k \in 1..(v - 1) : a[k] = s[k]
      /\ z \in Seq(S) /\ Len(z) = Len(s) - v /\ \A k \in 1..(Len(s) - v) : z[k] = s[v + k]
  BY <1>1
<1>3. RemoveAt(s, v) = a \o z
  BY DEF RemoveAt
<1> HIDE DEF a, z
<1>4. /\ a \o z \in Seq(S) /\ Len(a \o z) = Len(a) + Len(z)
      /\ \A i \in 1..(Len(a) + Len(z)) : (a \o z)[i] = IF i <= Len(a) THEN a[i] ELSE z[i - Len(a)]
  BY <1>2, ConcatProperties
<1>5. ASSUME NEW k \in 1..(Len(s) - 1)
      PROVE  (a \o z)[k] = s[IF k < v THEN k ELSE k + 1]
  <2>1. CASE k < v
    BY <1>1, <1>2, <1>4, <2>1
  <2>2. CASE ~(k < v)
    <3>1. k - (v - 1) \in 1..(Len(s) - v) /\ (a \o z)[k] = z[k - (v - 1)]
      BY <1>1, <1>2, <1>4, <2>2
    <3>2. z[k - (v - 1)] = s[v + (k - (v - 1))] /\ v + (k - (v - 1)) = k + 1
      BY <1>1, <1>2, <3>1
    <3> QED BY <2>2, <3>1, <3>2
  <2> QED BY <2>1, <2>2
<1> QED BY <1>1, <1>2, <1>3, <1>4, <1>5

\* The queue with an item appended and at most one unit displaced, whose
\* identity is forgotten and whose loss is counted.
Queued(cells, ids, dropped, item) ==
    /\ cells \in Seq(Items) /\ Len(cells) \in 1..QueueCount
    /\ cells[Len(cells)] = item
    /\ \E lost \in SUBSET OnTheWay :
          /\ IsFiniteSet(lost) /\ Cardinality(lost) = dropped /\ dropped \in Nat
          /\ DOMAIN ids = DOMAIN identities \ {queue[v].id : v \in lost}
          /\ Range(ids) \subseteq Bodies
          /\ \E at \in [1..(Len(cells) - 1) -> DOMAIN queue \ lost] :
                /\ \A k \in 1..(Len(cells) - 1) : cells[k] = queue[at[k]]
                /\ \A j, k \in 1..(Len(cells) - 1) : j # k => at[j] # at[k]
                /\ \A n \in DOMAIN queue \ lost : \E k \in 1..(Len(cells) - 1) : at[k] = n

\* _queue_locked does that when it takes the item.
LEMMA QueueLockedEffect ==
  ASSUME Types, NEW o \in Observations, NEW b \in BOOLEAN, QueueLocked(o, b).ok
  PROVE  LET q == QueueLocked(o, b) IN Queued(q.queue, q.ids, q.dropped, Item(o, b))
<1> DEFINE it == Item(o, b)
           n == Len(queue)
<1>1. /\ queue \in Seq(Items) /\ n \in Nat /\ DOMAIN queue = 1..n
      /\ n <= QueueCount /\ QueueCount \in Nat \ {0}
  BY LenProperties, LimitsPositive DEF Types
<1>2. it \in Items
  BY ItemTyped
<1>3. Range(identities) \subseteq Bodies
  BY DEF Types
<1> HIDE DEF it
<1>4. CASE Fits
  <2> DEFINE new == Append(queue, it)
  <2>1. QueueLocked(o, b) = [ok |-> TRUE, queue |-> new, ids |-> identities, dropped |-> 0]
    BY <1>4 DEF QueueLocked, it
  <2>2. new \in Seq(Items) /\ Len(new) = n + 1 /\ new[n + 1] = it /\ \A k \in 1..n : new[k] = queue[k]
    BY <1>1, <1>2, AppendProperties
  <2> DEFINE at == [k \in 1..n |-> k]
  <2>3. Len(new) \in 1..QueueCount
    BY <1>1, <1>4, <2>2 DEF Fits
  <2> HIDE DEF new, n
  <2>4. /\ at \in [1..(Len(new) - 1) -> DOMAIN queue \ {}]
        /\ \A k \in 1..(Len(new) - 1) : new[k] = queue[at[k]]
        /\ \A j, k \in 1..(Len(new) - 1) : j # k => at[j] # at[k]
        /\ \A m \in DOMAIN queue \ {} : \E k \in 1..(Len(new) - 1) : at[k] = m
    BY <1>1, <2>2
  <2>5. IsFiniteSet({}) /\ Cardinality({}) = 0 /\ {} \in SUBSET OnTheWay
    BY FS_EmptySet
  <2>6. DOMAIN identities = DOMAIN identities \ {queue[v].id : v \in {}}
    OBVIOUS
  <2> HIDE DEF at
  <2>7. new[Len(new)] = it
    BY <1>1, <2>2
  <2>8. 0 \in Nat
    OBVIOUS
  <2>9. \E f \in [1..(Len(new) - 1) -> DOMAIN queue \ {}] :
            /\ \A k \in 1..(Len(new) - 1) : new[k] = queue[f[k]]
            /\ \A j, k \in 1..(Len(new) - 1) : j # k => f[j] # f[k]
            /\ \A m \in DOMAIN queue \ {} : \E k \in 1..(Len(new) - 1) : f[k] = m
    BY <2>4, Zenon
  <2>10. Queued(new, identities, 0, it)
    BY <1>3, <2>2, <2>3, <2>5, <2>6, <2>7, <2>8, <2>9 DEF Queued
  <2> QED BY <2>1, <2>10 DEF it
<1>5. CASE ~Fits
  <2> DEFINE v == Victim
             rest == RemoveAt(queue, v)
             new == Append(rest, it)
             ids == Without(identities, queue[v].id)
  <2>1. /\ Lowly # {}
        /\ QueueLocked(o, b) = [ok |-> TRUE, queue |-> new, ids |-> ids, dropped |-> 1]
    BY <1>5 DEF QueueLocked, it
  <2>2. v \in Lowly
    <3>1. Lowly \in SUBSET Nat /\ Lowly # {}
      BY <1>1, <2>1 DEF Lowly
    <3>2. \E m \in Lowly : \A j \in Lowly : m <= j
      BY <3>1, LeastOf
    <3> QED BY <3>2 DEF Victim
  <2>3. v \in 1..n /\ v \in OnTheWay
    BY <1>1, <2>2 DEF Lowly, OnTheWay
  <2> HIDE DEF v
  <2>4. /\ rest \in Seq(Items) /\ Len(rest) = n - 1
        /\ \A k \in 1..(n - 1) : rest[k] = queue[IF k < v THEN k ELSE k + 1]
    BY <1>1, <2>3, RemoveAtProperties
  <2> HIDE DEF rest
  <2>5. new \in Seq(Items) /\ Len(new) = n /\ new[n] = it /\ \A k \in 1..(n - 1) : new[k] = rest[k]
    <3>1. /\ new \in Seq(Items) /\ Len(new) = Len(rest) + 1
          /\ \A k \in 1..Len(rest) : new[k] = rest[k]
          /\ new[Len(rest) + 1] = it
      BY <1>2, <2>4, AppendProperties
    <3>2. Len(rest) + 1 = n
      BY <1>1, <2>4
    <3> QED BY <2>4, <3>1, <3>2
  <2>6. Len(new) \in 1..QueueCount
    BY <1>1, <2>3, <2>5
  <2> HIDE DEF new, n
  <2> DEFINE at == [k \in 1..(n - 1) |-> IF k < v THEN k ELSE k + 1]
  <2>7. at \in [1..(n - 1) -> DOMAIN queue \ {v}]
    BY <1>1, <2>3
  <2>8. \A k \in 1..(n - 1) : new[k] = queue[at[k]]
    BY <2>4, <2>5
  <2>9. \A j, k \in 1..(n - 1) : j # k => at[j] # at[k]
    BY <1>1, <2>3
  <2>10. \A m \in DOMAIN queue \ {v} : \E k \in 1..(n - 1) : at[k] = m
    <3> SUFFICES ASSUME NEW m \in 1..n, m # v PROVE \E k \in 1..(n - 1) : at[k] = m
      BY <1>1
    <3>1. CASE m < v
      BY <1>1, <2>3, <3>1
    <3>2. CASE m > v
      <4>1. m - 1 \in 1..(n - 1) /\ at[m - 1] = m
        BY <1>1, <2>3, <3>2
      <4> QED BY <4>1
    <3> QED BY <1>1, <2>3, <3>1, <3>2
  <2> HIDE DEF at
  <2>11. IsFiniteSet({v}) /\ Cardinality({v}) = 1 /\ {v} \in SUBSET OnTheWay
    BY <2>3, FS_Singleton
  <2>12. /\ DOMAIN ids = DOMAIN identities \ {queue[m].id : m \in {v}}
         /\ Range(ids) \subseteq Bodies
    BY <1>3 DEF Without, Range
  <2> HIDE DEF ids
  <2>13. Len(new) = n /\ new[Len(new)] = it /\ 1 \in Nat
    BY <2>5
  <2>14. \E f \in [1..(Len(new) - 1) -> DOMAIN queue \ {v}] :
            /\ \A k \in 1..(Len(new) - 1) : new[k] = queue[f[k]]
            /\ \A j, k \in 1..(Len(new) - 1) : j # k => f[j] # f[k]
            /\ \A m \in DOMAIN queue \ {v} : \E k \in 1..(Len(new) - 1) : f[k] = m
    BY <2>7, <2>8, <2>9, <2>10, <2>13
  <2>15. Queued(new, ids, 1, it)
    BY <2>5, <2>6, <2>11, <2>12, <2>13, <2>14 DEF Queued
  <2> QED BY <2>1, <2>15 DEF it
<1> QED BY <1>4, <1>5

----------------------------------------------------------------------------
(* What the larger actions do                                              *)

\* The line a torn append leaves has no identity, and tearing is a kind of fault.
LEMMA TornLine ==
  /\ Torn.id = NoId /\ NoId \notin Ids
  /\ "torn" \in FaultKinds
BY ObservationShape DEF Torn, Ids, FaultKinds

\* The thread at rest and the state of a new log have their types.
LEMMA IdleTyped ==
  /\ Idle \in PubStates /\ Idle.pc = "wait" /\ Idle.lines = <<>> /\ Idle.waiters = FALSE
  /\ [Idle EXCEPT !.pc = "ended"] \in PubStates /\ [Idle EXCEPT !.pc = "ended"].pc = "ended"
  /\ [Idle EXCEPT !.pc = "ended"].lines = <<>> /\ [Idle EXCEPT !.pc = "ended"].waiters = FALSE
  /\ FreshState(0) \in State
<1>1. FreshState(0) \in State
  BY DEF FreshState, State
<1>2. <<>> \in Seq(Items) /\ <<>> \in Seq(Lines)
  OBVIOUS
<1> QED BY <1>1, <1>2 DEF Idle, PubStates

\* A prefix of a log.
LEMMA PrefixOf ==
  ASSUME NEW S, NEW s \in Seq(S), NEW k \in Nat, k <= Len(s)
  PROVE  /\ SubSeq(s, 1, k) \in Seq(S) /\ Len(SubSeq(s, 1, k)) = k
         /\ \A n \in 1..k : SubSeq(s, 1, k)[n] = s[n]
<1>1. Len(s) \in Nat /\ \A k1 \in 1..Len(s) : s[k1] \in S
  BY LenProperties, ElementOfSeq
<1> QED BY <1>1, SubSeqProperties

\* What a start reads back when nothing in the log is torn: every line below the
\* watermark is a row.
LEMMA RowsReadable ==
  ASSUME NEW s \in State, NEW cells \in Seq(Lines), s.offset <= Len(cells)
  PROVE  /\ ReadableRows(s, cells) \in Seq(IndexRows)
         /\ Len(ReadableRows(s, cells)) = s.offset
         /\ \A n \in 1..s.offset :
               LET row == ReadableRows(s, cells)[n]
               IN  /\ row.id = cells[n].id /\ row.seq = cells[n].seq
                   /\ row.body = cells[n].body /\ row.loss = cells[n].loss
                   /\ row.offset = n - 1
<1>1. Len(cells) \in Nat /\ \A n \in 1..Len(cells) : cells[n] \in Lines
  BY LenProperties, ElementOfSeq
<1>2. s.offset \in Nat
  BY DEF State
<1> DEFINE upto == IF s.offset < Len(cells) THEN s.offset ELSE Len(cells)
           bad == {n \in 1..upto : cells[n].id = NoId}
           row(n) == [seq |-> cells[n].seq, id |-> cells[n].id, body |-> cells[n].body,
                      loss |-> cells[n].loss, offset |-> n - 1]
           rows == [n \in 1..s.offset |-> row(n)]
<1>3. upto = s.offset
  BY <1>1, <1>2
<1>4. bad = {}
  <2>1. \A n \in 1..s.offset : n \in 1..Len(cells) /\ cells[n].id \in Ids
    BY <1>1, <1>2 DEF Lines
  <2> QED BY <1>3, <2>1, TornLine
<1>5. ReadableRows(s, cells) = rows
  BY <1>3, <1>4 DEF ReadableRows
<1>6. \A n \in 1..s.offset : row(n) \in IndexRows
  BY <1>1, <1>2 DEF Lines, IndexRows
<1>7. \A n : /\ row(n).id = cells[n].id /\ row(n).seq = cells[n].seq /\ row(n).body = cells[n].body
            /\ row(n).loss = cells[n].loss /\ row(n).offset = n - 1
  OBVIOUS
<1> HIDE DEF row
<1>8. rows \in Seq(IndexRows) /\ Len(rows) = s.offset /\ \A n \in 1..s.offset : rows[n] = row(n)
  BY <1>2, <1>6
<1> HIDE DEF rows
<1>9. \A n \in 1..s.offset : /\ rows[n].id = cells[n].id /\ rows[n].seq = cells[n].seq
                             /\ rows[n].body = cells[n].body /\ rows[n].loss = cells[n].loss
                             /\ rows[n].offset = n - 1
  BY <1>7, <1>8
<1> QED BY <1>5, <1>8, <1>9

\* The identities a rebuilt index knows.
LEMMA IdentitiesKnown ==
  ASSUME NEW rows \in Seq(IndexRows)
  PROVE  /\ DOMAIN KnownIdentities(rows) = {rows[n].id : n \in {m \in DOMAIN rows : ~rows[m].loss}}
         /\ Range(KnownIdentities(rows)) \subseteq Bodies
<1> DEFINE kept == {n \in DOMAIN rows : ~rows[n].loss}
           ids == {rows[n].id : n \in kept}
           last(i) == CHOOSE n \in kept : /\ rows[n].id = i
                                          /\ \A m \in kept : rows[m].id = i => m <= n
<1>1. DOMAIN rows = 1..Len(rows) /\ Len(rows) \in Nat /\ \A n \in 1..Len(rows) : rows[n] \in IndexRows
  BY LenProperties, ElementOfSeq
<1>2. KnownIdentities(rows) = [i \in ids |-> rows[last(i)].body]
  BY DEF KnownIdentities
<1>3. ASSUME NEW i \in ids PROVE last(i) \in kept
  <2> DEFINE T == {Len(rows) - n : n \in {m \in kept : rows[m].id = i}}
  <2>1. T \in SUBSET Nat /\ T # {}
    BY <1>1
  <2>2. PICK t \in T : \A j \in T : t <= j
    BY <2>1, LeastOf
  <2>3. PICK n \in kept : rows[n].id = i /\ t = Len(rows) - n
    BY <2>2
  <2>4. ASSUME NEW m \in kept, rows[m].id = i PROVE m <= n
    <3>1. Len(rows) - m \in T
      BY <2>4
    <3>2. t <= Len(rows) - m
      BY <2>2, <3>1
    <3> QED BY <1>1, <2>3, <3>2
  <2> QED BY <2>3, <2>4
<1> HIDE DEF last
<1>4. \A i \in ids : rows[last(i)].body \in Bodies
  BY <1>1, <1>3 DEF IndexRows
<1> DEFINE f == [i \in ids |-> rows[last(i)].body]
<1>5. DOMAIN f = ids /\ Range(f) \subseteq Bodies
  BY <1>4 DEF Range
<1> HIDE DEF f
<1> QED BY <1>2, <1>5 DEF f

\* A start cuts the log at the watermark and rebuilds everything from what is left.
LEMMA StartEffect ==
  ASSUME Types, stateFile.offset <= Len(archiveLog), CollectorStart
  PROVE  /\ archiveLog' \in Seq(Lines) /\ Len(archiveLog') = stateFile.offset
         /\ \A n \in 1..stateFile.offset : archiveLog'[n] = archiveLog[n]
         /\ quarFile' \in Nat
         /\ mem' \in State /\ stateFile' = mem' /\ mem'.offset = stateFile.offset
         /\ ~mem'.clean /\ Counted(mem') = Counted(stateFile)
         /\ mem'.crashTail = "none" => stateFile.clean
         /\ owed' = IF mem'.crashTail = "unknown" THEN {} ELSE owed
         /\ told' = IF mem'.crashTail = "unknown" THEN Counted(mem') ELSE told
         /\ index' \in Seq(IndexRows) /\ Len(index') = stateFile.offset
         /\ \A n \in 1..stateFile.offset :
               /\ index'[n].id = archiveLog'[n].id /\ index'[n].seq = archiveLog'[n].seq
               /\ index'[n].body = archiveLog'[n].body /\ index'[n].offset = n - 1
         /\ DOMAIN identities' = {archiveLog'[n].id : n \in Lasting'}
         /\ Range(identities') \subseteq Bodies
<1> DEFINE epoch == MaxStarts - budget.starts + 1
           rec == Reconcile(stateFile)
           loaded == LoadState(stateFile, epoch, rec)
           rows == ReadableRows(loaded, rec.log)
           bad == Len(rows) < stateFile.offset
           state == [loaded EXCEPT !.storageFailure = @ \/ bad]
<1>1. /\ archiveLog' = rec.log /\ quarFile' = rec.quar
      /\ mem' = state /\ stateFile' = state
      /\ index' = rows /\ identities' = KnownIdentities(rows)
      /\ owed' = IF state.crashTail = "unknown" THEN {} ELSE owed
      /\ told' = IF state.crashTail = "unknown" THEN Counted(state) ELSE told
  BY DEF CollectorStart
<1>2. /\ archiveLog \in Seq(Lines) /\ quarFile \in Nat /\ stateFile \in State
      /\ stateFile.offset \in Nat /\ stateFile.quar \in Nat /\ Len(archiveLog) \in Nat
  BY LenProperties DEF Types, State
<1>3. epoch \in Nat
  BY BoundsAreNaturals DEF Types, Budgets
<1>4. /\ rec.log = SubSeq(archiveLog, 1, stateFile.offset)
      /\ rec.quar \in Nat /\ rec.tail \in BOOLEAN /\ rec.short \in BOOLEAN
  BY <1>2 DEF Reconcile
<1>5. /\ rec.log \in Seq(Lines) /\ Len(rec.log) = stateFile.offset
      /\ \A n \in 1..stateFile.offset : rec.log[n] = archiveLog[n]
  BY <1>2, <1>4, PrefixOf
<1> HIDE DEF epoch, rec
<1>6. /\ loaded \in State /\ loaded.offset = stateFile.offset /\ ~loaded.clean
      /\ Counted(loaded) = Counted(stateFile)
      /\ loaded.crashTail = "none" => stateFile.clean
  BY <1>2, <1>3, <1>4 DEF LoadState, State, Counted
<1> HIDE DEF loaded
<1>7. /\ rows \in Seq(IndexRows) /\ Len(rows) = stateFile.offset
      /\ \A n \in 1..stateFile.offset :
               /\ rows[n].id = rec.log[n].id /\ rows[n].seq = rec.log[n].seq
               /\ rows[n].body = rec.log[n].body /\ rows[n].loss = rec.log[n].loss
               /\ rows[n].offset = n - 1
  BY <1>5, <1>6, RowsReadable
<1> HIDE DEF rows
<1>8. bad \in BOOLEAN
  OBVIOUS
<1> HIDE DEF bad
<1>9. /\ state \in State /\ state.offset = stateFile.offset /\ ~state.clean
      /\ Counted(state) = Counted(stateFile)
      /\ state.crashTail = "none" => stateFile.clean
  BY <1>6, <1>8 DEF State, Counted
<1>10. /\ DOMAIN KnownIdentities(rows) = {rows[n].id : n \in {m \in DOMAIN rows : ~rows[m].loss}}
       /\ Range(KnownIdentities(rows)) \subseteq Bodies
  BY <1>7, IdentitiesKnown
<1>11. DOMAIN rows = 1..stateFile.offset /\ DOMAIN rec.log = 1..stateFile.offset
  BY <1>5, <1>7, LenProperties
<1>12. {rows[n].id : n \in {m \in DOMAIN rows : ~rows[m].loss}}
         = {rec.log[n].id : n \in {m \in DOMAIN rec.log : ~rec.log[m].loss}}
  BY <1>7, <1>11
<1>13. Lasting' = {m \in DOMAIN rec.log : ~rec.log[m].loss}
  BY <1>1, Zenon DEF Lasting
<1>14. DOMAIN identities' = {archiveLog'[n].id : n \in Lasting'}
  BY <1>1, <1>10, <1>12, <1>13
<1> HIDE DEF state
<1> QED BY <1>1, <1>4, <1>5, <1>7, <1>9, <1>10, <1>14

\* A segment of the queue.
LEMMA SegmentOf ==
  ASSUME NEW S, NEW s \in Seq(S), NEW a \in Nat, NEW k \in Nat, k <= Len(s), a <= k
  PROVE  /\ SubSeq(s, a + 1, k) \in Seq(S) /\ Len(SubSeq(s, a + 1, k)) = k - a
         /\ \A n \in 1..(k - a) : SubSeq(s, a + 1, k)[n] = s[a + n]
<1>1. Len(s) \in Nat /\ \A i \in 1..Len(s) : s[i] \in S
  BY LenProperties, ElementOfSeq
<1>2. a + 1 \in Int /\ k \in Int /\ \A i \in (a + 1)..k : s[i] \in S
  BY <1>1
<1>3. /\ SubSeq(s, a + 1, k) \in Seq(S)
      /\ Len(SubSeq(s, a + 1, k)) = IF a + 1 <= k THEN k - (a + 1) + 1 ELSE 0
      /\ \A i \in 1..(k - (a + 1) + 1) : SubSeq(s, a + 1, k)[i] = s[a + 1 + i - 1]
  BY <1>2, SubSeqProperties
<1>4. /\ k - (a + 1) + 1 = k - a /\ \A i \in Nat : a + 1 + i - 1 = a + i
      /\ (IF a + 1 <= k THEN k - (a + 1) + 1 ELSE 0) = k - a
  OBVIOUS
<1> QED BY <1>3, <1>4

\* The positions of a segment that are on their way to the log.
LiveOf(a, k) == {n \in (a + 1)..k : ~queue[n].quarantine}

\* What Observed keeps of a segment.
LEMMA ObservedProperties ==
  ASSUME Types, NEW a \in Nat, NEW k \in Nat, k <= Len(queue), a <= k,
         NEW items, items = SubSeq(queue, a + 1, k)
  PROVE  /\ Observed(items) \in Seq(Items) /\ Len(Observed(items)) <= k - a
         /\ Chosen(Observed(items), queue, LiveOf(a, k))
         /\ IdsOf(Observed(items)) = {queue[n].id : n \in LiveOf(a, k)}
<1>0. queue \in Seq(Items)
  BY DEF Types
<1>1. /\ items \in Seq(Items) /\ Len(items) = k - a
      /\ \A n \in 1..(k - a) : items[n] = queue[a + n]
  BY <1>0, SegmentOf
<1>2. DOMAIN items = 1..(k - a)
  BY <1>1, LenProperties
<1> DEFINE places == {n \in DOMAIN items : ~items[n].quarantine}
           seen == Picked(items, places)
<1>3. Observed(items) = seen /\ places \in SUBSET DOMAIN items
  BY DEF Observed
<1>6. \A n \in places : n \in 1..(k - a) /\ a + n \in LiveOf(a, k) /\ items[n] = queue[a + n]
  <2> SUFFICES ASSUME NEW n \in places
               PROVE  n \in 1..(k - a) /\ a + n \in LiveOf(a, k) /\ items[n] = queue[a + n]
    OBVIOUS
  <2>1. n \in 1..(k - a) /\ items[n] = queue[a + n] /\ ~queue[a + n].quarantine
    BY <1>1, <1>2
  <2>2. a + n \in (a + 1)..k
    BY <2>1
  <2> QED BY <2>1, <2>2 DEF LiveOf
<1>7. \A n \in LiveOf(a, k) : n - a \in places /\ a + (n - a) = n
  <2> SUFFICES ASSUME NEW n \in LiveOf(a, k) PROVE n - a \in places /\ a + (n - a) = n
    OBVIOUS
  <2>1. n \in (a + 1)..k /\ ~queue[n].quarantine
    BY DEF LiveOf
  <2>2. n - a \in 1..(k - a) /\ a + (n - a) = n
    BY <2>1
  <2>3. items[n - a] = queue[n]
    BY <1>1, <2>2
  <2> QED BY <1>2, <2>1, <2>2, <2>3
<1> HIDE DEF places
<1>15. items \in Seq(Items) /\ places \in SUBSET DOMAIN items
  BY <1>1, <1>3
<1>4. seen \in Seq(Items) /\ Len(seen) <= Len(items) /\ Chosen(seen, items, places)
  BY <1>15, PickedProperties
<1> HIDE DEF seen
<1>5. PICK f \in [1..Len(seen) -> places] :
            /\ \A n \in 1..Len(seen) : seen[n] = items[f[n]]
            /\ \A m, n \in 1..Len(seen) : m # n => f[m] # f[n]
            /\ \A n \in places : \E m \in 1..Len(seen) : f[m] = n
  BY <1>4 DEF Chosen
<1> DEFINE at == [n \in 1..Len(seen) |-> a + f[n]]
<1>8. at \in [1..Len(seen) -> LiveOf(a, k)] /\ \A n \in 1..Len(seen) : at[n] = a + f[n]
  BY <1>6
<1>9. /\ \A n \in 1..Len(seen) : seen[n] = queue[at[n]]
      /\ \A m, n \in 1..Len(seen) : m # n => at[m] # at[n]
  <2>1. \A n \in 1..Len(seen) : f[n] \in places /\ f[n] \in 1..(k - a)
    BY <1>6
  <2> HIDE DEF at
  <2>2. \A n \in 1..Len(seen) : seen[n] = queue[at[n]]
    BY <1>5, <1>6, <1>8, <2>1
  <2>3. ASSUME NEW m \in 1..Len(seen), NEW n \in 1..Len(seen), m # n PROVE at[m] # at[n]
    <3>1. f[m] \in 1..(k - a) /\ f[n] \in 1..(k - a) /\ f[m] # f[n]
      BY <1>5, <2>1, <2>3
    <3>2. at[m] = a + f[m] /\ at[n] = a + f[n]
      BY <1>8
    <3>3. f[m] \in Int /\ f[n] \in Int
      BY <3>1
    <3> HIDE DEF at
    <3> QED BY ONLY <3>1, <3>2, <3>3, a \in Nat
  <2> QED BY <2>2, <2>3
<1>10. \A n \in LiveOf(a, k) : \E m \in 1..Len(seen) : at[m] = n
  BY <1>5, <1>7
<1> HIDE DEF at
<1>11. DOMAIN seen = 1..Len(seen)
  BY <1>4, LenProperties
<1>12. IdsOf(seen) = {queue[n].id : n \in LiveOf(a, k)}
  <2>1. \A n \in DOMAIN seen : at[n] \in LiveOf(a, k) /\ seen[n].id = queue[at[n]].id
    BY <1>8, <1>9, <1>11
  <2>2. \A n \in LiveOf(a, k) : \E m \in DOMAIN seen : seen[m].id = queue[n].id
    BY <1>9, <1>10, <1>11
  <2>3. IdsOf(seen) \subseteq {queue[n].id : n \in LiveOf(a, k)}
    BY <2>1 DEF IdsOf
  <2>4. {queue[n].id : n \in LiveOf(a, k)} \subseteq IdsOf(seen)
    BY <2>2 DEF IdsOf
  <2> QED BY <2>3, <2>4
<1>13. Chosen(seen, queue, LiveOf(a, k))
  <2>1. \E h \in [1..Len(seen) -> LiveOf(a, k)] :
               /\ \A n \in 1..Len(seen) : seen[n] = queue[h[n]]
               /\ \A m, n \in 1..Len(seen) : m # n => h[m] # h[n]
               /\ \A n \in LiveOf(a, k) : \E m \in 1..Len(seen) : h[m] = n
    BY <1>8, <1>9, <1>10, Zenon
  <2> QED BY <2>1 DEF Chosen
<1>14. Len(seen) <= k - a
  BY <1>1, <1>4
<1> QED BY <1>3, <1>4, <1>12, <1>13, <1>14

\* Lines of the units of s at the chosen positions, each of them once.
Numbered(lines, s, places) ==
    \E at \in [1..Len(lines) -> places] :
       /\ \A n \in 1..Len(lines) : lines[n].id = s[at[n]].id /\ lines[n].body = s[at[n]].body
       /\ \A m, n \in 1..Len(lines) : m # n => at[m] # at[n]
       /\ \A n \in places : \E m \in 1..Len(lines) : at[m] = n

\* A batch of the first k units is taken; the capacity takes the first t of them.
Taking(k, t) ==
    /\ queue' \in Seq(Items) /\ Len(queue') = Len(queue) - k
    /\ \A n \in 1..Len(queue') : queue'[n] = queue[k + n]
    /\ pub' \in PubStates /\ pub'.pc = "append"
    /\ pub'.waiters <=> (checkpoint.state = "waiting" /\ Len(queue') = 0)
    /\ Numbered(pub'.lines, queue, LiveOf(0, t))
    /\ mem' \in State /\ Counted(mem') = Counted(mem) + (k - t)
    /\ mem'.offset = mem.offset /\ mem'.clean = mem.clean
    /\ mem'.storageFailure = mem.storageFailure /\ mem'.crashTail = mem.crashTail
    /\ DOMAIN identities' = DOMAIN identities \ {queue[n].id : n \in LiveOf(t, k)}
    /\ Range(identities') \subseteq Bodies

\* What taking a batch does: a prefix of the queue leaves it, a part of that is
\* staged as the lines to append.
LEMMA TakeBatchEffect ==
  ASSUME Types, TakeBatch
  PROVE  \E k \in 1..Len(queue) : \E t \in 0..k : Taking(k, t)
<1> DEFINE k == Len(Batch)
           taken == Taken(Batch)
           t == Len(taken)
           seen == Observed(taken)
           over == Overflow(Batch)
           lines == [n \in 1..Len(seen) |->
                       [id |-> seen[n].id, body |-> seen[n].body,
                        seq |-> mem.seq + n, loss |-> seen[n].loss]]
<1>1. /\ queue \in Seq(Items) /\ Len(queue) \in Nat /\ DOMAIN queue = 1..Len(queue)
      /\ mem \in State /\ mem.seq \in Nat /\ Room(mem) \in Nat /\ pub \in PubStates
      /\ Len(queue) # 0 /\ BatchSize \in Nat \ {0}
  <2>1. queue \in Seq(Items) /\ mem \in State /\ pub \in PubStates
    BY DEF Types
  <2>2. Len(queue) \in Nat /\ DOMAIN queue = 1..Len(queue) /\ Len(queue) # 0
    BY <2>1, LenProperties, EmptySeq DEF TakeBatch
  <2>3. mem.seq \in Nat /\ mem.offset \in Nat /\ mem.quar \in Nat /\ Room(mem) \in Nat
    BY <2>1, LimitsPositive DEF State, Room, Used
  <2> QED BY <2>1, <2>2, <2>3, LimitsPositive
<1>2. /\ k \in 1..Len(queue) /\ Batch = SubSeq(queue, 1, k) /\ Batch \in Seq(Items)
      /\ \A n \in 1..k : Batch[n] = queue[n]
  <2> DEFINE b == IF Len(queue) < BatchSize THEN Len(queue) ELSE BatchSize
  <2>1. b \in 1..Len(queue) /\ Batch = SubSeq(queue, 1, b)
    BY <1>1 DEF Batch
  <2> HIDE DEF b
  <2>2. Len(SubSeq(queue, 1, b)) = b
    BY <1>1, <2>1, PrefixOf
  <2>3. /\ SubSeq(queue, 1, b) \in Seq(Items)
        /\ \A n \in 1..b : SubSeq(queue, 1, b)[n] = queue[n]
    BY <1>1, <2>1, PrefixOf
  <2>4. k = b
    BY <2>1, <2>2
  <2> QED BY <2>1, <2>3, <2>4
<1> HIDE DEF k
<1>3. /\ t \in 0..k /\ taken = SubSeq(queue, 0 + 1, t)
      /\ over = SubSeq(queue, t + 1, k) /\ Len(over) = k - t
  <2> DEFINE m == IF Len(Batch) < Room(mem) THEN Len(Batch) ELSE Room(mem)
  <2>1. m \in 0..k /\ taken = SubSeq(Batch, 1, m) /\ Len(Batch) = k
    BY <1>1, <1>2 DEF Taken, k
  <2> HIDE DEF m
  <2>2. /\ taken \in Seq(Items) /\ Len(taken) = m /\ \A n \in 1..m : taken[n] = Batch[n]
    <3>1. m \in Nat /\ m <= Len(Batch) /\ Batch \in Seq(Items)
      BY <1>1, <1>2, <2>1
    <3> DEFINE start == SubSeq(Batch, 1, m)
    <3>2. /\ start \in Seq(Items) /\ Len(start) = m /\ \A n \in 1..m : start[n] = Batch[n]
      BY ONLY <3>1, PrefixOf
    <3>3. taken = start
      BY <2>1
    <3> HIDE DEF taken, start
    <3> QED BY <3>2, <3>3
  <2>3. /\ SubSeq(queue, 1, m) \in Seq(Items) /\ Len(SubSeq(queue, 1, m)) = m
        /\ \A n \in 1..m : SubSeq(queue, 1, m)[n] = queue[n]
    BY <1>1, <1>2, <2>1, PrefixOf
  <2>4. taken = SubSeq(queue, 1, m)
    <3>1. \A n \in 1..m : taken[n] = SubSeq(queue, 1, m)[n]
      BY <1>2, <2>1, <2>2, <2>3
    <3> QED BY <2>2, <2>3, <3>1, SeqEqual
  <2>5. over = SubSeq(Batch, m + 1, k)
    BY <2>1, <2>2 DEF Overflow
  <2>6. /\ over \in Seq(Items) /\ Len(over) = k - m /\ \A n \in 1..(k - m) : over[n] = Batch[m + n]
    <3>1. m \in Nat /\ k \in Nat /\ m <= k /\ k <= Len(Batch)
      BY <1>1, <1>2, <2>1
    <3>2. Batch \in Seq(Items)
      BY <1>2
    <3> DEFINE seg == SubSeq(Batch, m + 1, k)
    <3>3. /\ seg \in Seq(Items) /\ Len(seg) = k - m /\ \A n \in 1..(k - m) : seg[n] = Batch[m + n]
      BY ONLY <3>1, <3>2, SegmentOf
    <3>4. over = seg
      BY <2>5
    <3> HIDE DEF over, seg
    <3> QED BY <3>3, <3>4
  <2>7. /\ SubSeq(queue, m + 1, k) \in Seq(Items) /\ Len(SubSeq(queue, m + 1, k)) = k - m
        /\ \A n \in 1..(k - m) : SubSeq(queue, m + 1, k)[n] = queue[m + n]
    <3>1. m \in Nat /\ k \in Nat /\ m <= k /\ k <= Len(queue) /\ queue \in Seq(Items)
      BY <1>1, <1>2, <2>1
    <3> QED BY ONLY <3>1, SegmentOf
  <2>8. over = SubSeq(queue, m + 1, k)
    <3>1. \A n \in 1..(k - m) : over[n] = SubSeq(queue, m + 1, k)[n]
      BY <1>2, <2>1, <2>6, <2>7
    <3> QED BY <2>6, <2>7, <3>1, SeqEqual
  <2>9. t = m /\ 0 + 1 = 1
    BY <2>2
  <2> QED BY <2>1, <2>4, <2>6, <2>8, <2>9
<1> HIDE DEF t, taken, over
<1>18. 0 \in Nat /\ t \in Nat /\ k \in Nat /\ k <= Len(queue) /\ t <= k /\ 0 <= t /\ t <= Len(queue)
  BY <1>1, <1>2, <1>3
<1>4. seen \in Seq(Items) /\ Len(seen) <= t - 0 /\ Chosen(seen, queue, LiveOf(0, t))
  BY <1>3, <1>18, ObservedProperties
<1>5. IdsOf(Observed(over)) = {queue[n].id : n \in LiveOf(t, k)}
  BY <1>3, <1>18, ObservedProperties
<1> HIDE DEF seen
<1>6. Len(seen) \in Nat /\ \A n \in 1..Len(seen) : seen[n] \in Items
  BY <1>4, LenProperties, ElementOfSeq
<1>7. \A n \in 1..Len(seen) :
        [id |-> seen[n].id, body |-> seen[n].body, seq |-> mem.seq + n, loss |-> seen[n].loss] \in Lines
  BY <1>1, <1>6 DEF Items, Lines
<1>8. /\ lines \in Seq(Lines) /\ Len(lines) = Len(seen)
      /\ \A n \in 1..Len(seen) : lines[n].id = seen[n].id /\ lines[n].body = seen[n].body
  BY <1>6, <1>7
<1> HIDE DEF lines
<1> DEFINE quar == Len(taken) - Len(seen)
           rest == SubSeq(queue, k + 1, Len(queue))
<1>9. quar \in Nat
  BY <1>3, <1>4, <1>6 DEF t
<1>10. /\ rest \in Seq(Items) /\ Len(rest) = Len(queue) - k
       /\ \A n \in 1..Len(rest) : rest[n] = queue[k + n]
  <2>1. /\ queue \in Seq(Items) /\ k \in Nat /\ Len(queue) \in Nat
        /\ Len(queue) <= Len(queue) /\ k <= Len(queue)
    BY <1>1, <1>18
  <2>2. /\ rest \in Seq(Items) /\ Len(rest) = Len(queue) - k
        /\ \A n \in 1..(Len(queue) - k) : rest[n] = queue[k + n]
    BY ONLY <2>1, SegmentOf
  <2> QED BY <2>2
<1>11. Rest = rest /\ Releases \in BOOLEAN /\ (Releases <=> (checkpoint.state = "waiting" /\ Len(rest) = 0))
  <2>1. Rest = rest
    BY DEF Rest, k
  <2>2. rest = <<>> <=> Len(rest) = 0
    BY <1>10, EmptySeq
  <2> QED BY <2>1, <2>2 DEF Releases
<1> HIDE DEF quar, rest
<1>12. /\ pub' = [pub EXCEPT !.pc = "append", !.batch = Batch, !.waiters = Releases,
                              !.lines = lines, !.quar = quar]
       /\ mem' = [mem EXCEPT !.capacityStop = @ \/ over # <<>>, !.refused = @ + Len(over)]
       /\ identities' = [i \in DOMAIN identities \ IdsOf(Observed(over)) |-> identities[i]]
       /\ queue' = rest
  BY <1>11, Zenon DEF TakeBatch, lines, seen, taken, over, quar
<1>13. pub' \in PubStates /\ pub'.pc = "append" /\ pub'.waiters = Releases /\ pub'.lines = lines
  <2>1. pub \in PubStates /\ Batch \in Seq(Items) /\ Releases \in BOOLEAN /\ lines \in Seq(Lines) /\ quar \in Nat
    BY <1>1, <1>2, <1>8, <1>9, <1>11
  <2>2. pub' = [pub EXCEPT !.pc = "append", !.batch = Batch, !.waiters = Releases,
                           !.lines = lines, !.quar = quar]
    BY <1>12
  <2> QED BY ONLY <2>1, <2>2, pub \in PubStates DEF PubStates
<1>14. /\ mem' \in State /\ Counted(mem') = Counted(mem) + (k - t)
       /\ mem'.offset = mem.offset /\ mem'.clean = mem.clean
       /\ mem'.storageFailure = mem.storageFailure /\ mem'.crashTail = mem.crashTail
  <2> DEFINE full == mem.capacityStop \/ over # <<>>
             more == mem.refused + Len(over)
  <2>4. mem.refused \in Nat /\ mem.dropped \in Nat /\ mem.failed \in Nat
    BY <1>1 DEF State
  <2>1. full \in BOOLEAN /\ more \in Nat /\ more = mem.refused + (k - t)
    BY <1>3, <1>18, <2>4
  <2>2. mem' = [mem EXCEPT !.capacityStop = full, !.refused = more]
    BY <1>12
  <2> HIDE DEF full, more
  <2>6. mem \in State
    BY <1>1
  <2>3. /\ mem' \in State /\ mem'.refused = more
        /\ mem'.dropped = mem.dropped /\ mem'.failed = mem.failed
        /\ mem'.offset = mem.offset /\ mem'.clean = mem.clean
        /\ mem'.storageFailure = mem.storageFailure /\ mem'.crashTail = mem.crashTail
    BY ONLY <2>1, <2>2, <2>6 DEF State
  <2>5. Counted(mem') = Counted(mem) + (k - t)
    BY <1>18, <2>1, <2>3, <2>4 DEF Counted
  <2> QED BY <2>3, <2>5
<1>15. /\ DOMAIN identities' = DOMAIN identities \ {queue[n].id : n \in LiveOf(t, k)}
       /\ Range(identities') \subseteq Bodies
  <2>1. Range(identities) \subseteq Bodies
    BY DEF Types
  <2> QED BY <1>5, <1>12, <2>1 DEF Range
<1>16. Numbered(lines, queue, LiveOf(0, t))
  <2>1. PICK at \in [1..Len(seen) -> LiveOf(0, t)] :
          /\ \A n \in 1..Len(seen) : seen[n] = queue[at[n]]
          /\ \A m, n \in 1..Len(seen) : m # n => at[m] # at[n]
          /\ \A n \in LiveOf(0, t) : \E m \in 1..Len(seen) : at[m] = n
    BY <1>4 DEF Chosen
  <2>2. \A n \in 1..Len(seen) : lines[n].id = queue[at[n]].id /\ lines[n].body = queue[at[n]].body
    BY <1>8, <2>1
  <2> DEFINE I == 1..Len(seen)
  <2>3. 1..Len(lines) = I
    BY <1>8
  <2> HIDE DEF I
  <2>4. \E f \in [I -> LiveOf(0, t)] :
          /\ \A n \in I : lines[n].id = queue[f[n]].id /\ lines[n].body = queue[f[n]].body
          /\ \A m, n \in I : m # n => f[m] # f[n]
          /\ \A n \in LiveOf(0, t) : \E m \in I : f[m] = n
    BY <2>1, <2>2, Zenon DEF I
  <2> QED BY <2>3, <2>4, Zenon DEF Numbered
<1>17. Taking(k, t)
  <2>1. queue' = rest /\ pub'.lines = lines
    BY <1>12, <1>13
  <2>2. /\ queue' \in Seq(Items) /\ Len(queue') = Len(queue) - k
        /\ \A n \in 1..Len(queue') : queue'[n] = queue[k + n]
    BY <1>10, <2>1
  <2>3. pub'.waiters <=> (checkpoint.state = "waiting" /\ Len(queue') = 0)
    BY <1>11, <1>13, <2>1
  <2>4. Numbered(pub'.lines, queue, LiveOf(0, t))
    BY <1>16, <2>1
  <2> QED BY <1>13, <1>14, <1>15, <2>2, <2>3, <2>4, Zenon DEF Taking
<1> QED BY <1>2, <1>3, <1>17


----------------------------------------------------------------------------
(* What the other actions do                                               *)

\* The state keeps everything but its counters and the capacity stop.
MemKept ==
    /\ mem' \in State
    /\ mem'.offset = mem.offset /\ mem'.clean = mem.clean
    /\ mem'.storageFailure = mem.storageFailure /\ mem'.crashTail = mem.crashTail

\* What the fields of a state are.
LEMMA StateFields ==
  ASSUME NEW s \in State
  PROVE  /\ s.dropped \in Nat /\ s.failed \in Nat /\ s.refused \in Nat /\ Counted(s) \in Nat
         /\ s.seq \in Nat /\ s.offset \in Nat /\ s.quar \in Nat
         /\ s.capacityStop \in BOOLEAN /\ s.clean \in BOOLEAN /\ s.storageFailure \in BOOLEAN
         /\ s.crashTail \in {"none", "unknown"}
BY DEF State, Counted

\* A spent allowance leaves the budget natural.
LEMMA SpendTyped ==
  ASSUME budget \in Budgets, NEW what \in {"admissions", "policies", "faults", "starts"}, Spend(what)
  PROVE  budget' \in Budgets
<1>1. /\ budget.admissions \in Nat /\ budget.policies \in Nat /\ budget.faults \in Nat
      /\ budget.starts \in 0..MaxStarts /\ MaxStarts \in Nat
  BY BoundsAreNaturals DEF Budgets
<1>2. budget[what] > 0 /\ budget' = [budget EXCEPT ![what] = budget[what] - 1]
  BY DEF Spend
<1>3. CASE what = "admissions" BY <1>1, <1>2, <1>3 DEF Budgets
<1>4. CASE what = "policies" BY <1>1, <1>2, <1>4 DEF Budgets
<1>5. CASE what = "faults" BY <1>1, <1>2, <1>5 DEF Budgets
<1>6. CASE what = "starts" BY <1>1, <1>2, <1>6 DEF Budgets
<1> QED BY <1>3, <1>4, <1>5, <1>6

\* A refusal tells the producer at most what it counts.
LEMMA RefuseEffect ==
  ASSUME Types, NEW o \in Observations, Refuse(o)
  PROVE  /\ MemKept /\ told' \in Nat /\ Counted(mem) - told <= Counted(mem') - told'
         /\ stopping => told' = told
<1>1. mem \in State /\ told \in Nat
  BY DEF Types
<1>2. mem.refused \in Nat /\ mem.dropped \in Nat /\ mem.failed \in Nat
  BY <1>1, StateFields
<1>3. Heard \in {told, told + 1} /\ (stopping => Heard = told)
  BY DEF Heard
<1>4. CASE UNCHANGED <<mem, told>>
  <2>1. mem' = mem /\ told' = told
    BY <1>4
  <2>2. MemKept /\ Counted(mem') = Counted(mem)
    BY ONLY <1>1, <2>1, Zenon DEF MemKept
  <2>3. Counted(mem) \in Nat
    BY <1>1, StateFields
  <2> QED BY ONLY <1>1, <2>1, <2>2, <2>3
<1>5. CASE mem' = [mem EXCEPT !.refused = @ + 1] /\ told' = Heard
  <2> DEFINE more == mem.refused + 1
  <2>1. more \in Nat /\ mem' = [mem EXCEPT !.refused = more] /\ told' = Heard
    BY <1>2, <1>5
  <2> HIDE DEF more
  <2>2. /\ mem' \in State /\ mem'.refused = more
        /\ mem'.dropped = mem.dropped /\ mem'.failed = mem.failed
        /\ mem'.offset = mem.offset /\ mem'.clean = mem.clean
        /\ mem'.storageFailure = mem.storageFailure /\ mem'.crashTail = mem.crashTail
    BY ONLY <1>1, <2>1 DEF State
  <2>3. MemKept
    BY <2>2 DEF MemKept
  <2>4. Counted(mem') = Counted(mem) + 1
    BY ONLY <1>2, <2>2 DEF Counted, more
  <2>5. Counted(mem) \in Nat
    BY <1>1, StateFields
  <2>6. told' \in Nat /\ told' <= told + 1 /\ (stopping => told' = told)
    BY <1>1, <1>3, <2>1
  <2> QED BY ONLY <1>1, <2>3, <2>4, <2>5, <2>6
<1>6. CASE mem' = [mem EXCEPT !.dropped = @ + 1] /\ told' = Heard
  <2> DEFINE more == mem.dropped + 1
  <2>1. more \in Nat /\ mem' = [mem EXCEPT !.dropped = more] /\ told' = Heard
    BY <1>2, <1>6
  <2> HIDE DEF more
  <2>2. /\ mem' \in State /\ mem'.dropped = more
        /\ mem'.refused = mem.refused /\ mem'.failed = mem.failed
        /\ mem'.offset = mem.offset /\ mem'.clean = mem.clean
        /\ mem'.storageFailure = mem.storageFailure /\ mem'.crashTail = mem.crashTail
    BY ONLY <1>1, <2>1 DEF State
  <2>3. MemKept
    BY <2>2 DEF MemKept
  <2>4. Counted(mem') = Counted(mem) + 1
    BY ONLY <1>2, <2>2 DEF Counted, more
  <2>5. Counted(mem) \in Nat
    BY <1>1, StateFields
  <2>6. told' \in Nat /\ told' <= told + 1 /\ (stopping => told' = told)
    BY <1>1, <1>3, <2>1
  <2> QED BY ONLY <1>1, <2>3, <2>4, <2>5, <2>6
<1> QED BY <1>4, <1>5, <1>6 DEF Refuse

\* Counting displaced units.
LEMMA MemDrops ==
  ASSUME mem \in State, NEW dropped \in Nat, mem' = [mem EXCEPT !.dropped = @ + dropped]
  PROVE  MemKept /\ Counted(mem') = Counted(mem) + dropped
<1>1. mem.refused \in Nat /\ mem.dropped \in Nat /\ mem.failed \in Nat
  BY DEF State
<1>2. /\ mem' \in State /\ mem'.dropped = mem.dropped + dropped
      /\ mem'.refused = mem.refused /\ mem'.failed = mem.failed
      /\ mem'.offset = mem.offset /\ mem'.clean = mem.clean
      /\ mem'.storageFailure = mem.storageFailure /\ mem'.crashTail = mem.crashTail
  BY <1>1 DEF State
<1> QED BY <1>1, <1>2 DEF MemKept, Counted

\* What a conflicting body does: one item for the quarantine file.
LEMMA QuarantineEffect ==
  ASSUME Types, NEW o \in Observations, Quarantine(o)
  PROVE  \E dropped \in Nat :
            /\ Queued(queue', identities', dropped, Item(o, TRUE))
            /\ MemKept /\ Counted(mem') = Counted(mem) + dropped
<1> DEFINE q == QueueLocked(o, TRUE)
<1>1. q.ok /\ queue' = q.queue /\ identities' = q.ids /\ mem' = [mem EXCEPT !.dropped = @ + q.dropped]
  BY DEF Quarantine
<1>2. Queued(q.queue, q.ids, q.dropped, Item(o, TRUE))
  BY <1>1, QueueLockedEffect
<1> HIDE DEF q
<1>3. Queued(queue', identities', q.dropped, Item(o, TRUE))
  BY <1>1, <1>2
<1>4. q.dropped \in Nat
  BY <1>2 DEF Queued
<1>5. mem \in State
  BY DEF Types
<1>6. MemKept /\ Counted(mem') = Counted(mem) + q.dropped
  BY <1>1, <1>4, <1>5, MemDrops
<1> QED BY <1>3, <1>4, <1>6

\* What an admission does: one queued item under its identity.
LEMMA AdmitEffect ==
  ASSUME Types, NEW o \in Observations, Admit(o)
  PROVE  \E dropped \in Nat : \E ids :
            /\ Queued(queue', ids, dropped, Item(o, FALSE))
            /\ DOMAIN identities' = DOMAIN ids \cup {o.id} /\ Range(identities') \subseteq Bodies
            /\ MemKept /\ Counted(mem') = Counted(mem) + dropped
<1> DEFINE q == QueueLocked(o, FALSE)
<1>1. /\ q.ok /\ queue' = q.queue /\ identities' = With(q.ids, o.id, o.body)
      /\ mem' = [mem EXCEPT !.dropped = @ + q.dropped]
  BY DEF Admit
<1>2. Queued(q.queue, q.ids, q.dropped, Item(o, FALSE))
  BY <1>1, QueueLockedEffect
<1> HIDE DEF q
<1> DEFINE ids == q.ids
           dropped == q.dropped
<1>3. Queued(queue', ids, dropped, Item(o, FALSE))
  BY <1>1, <1>2
<1>4. dropped \in Nat /\ Range(ids) \subseteq Bodies
  BY <1>2 DEF Queued
<1>5. mem \in State
  BY DEF Types
<1>6. MemKept /\ Counted(mem') = Counted(mem) + dropped
  BY <1>1, <1>4, <1>5, MemDrops
<1>7. identities' = [j \in DOMAIN ids \cup {o.id} |-> IF j = o.id THEN o.body ELSE ids[j]]
  BY <1>1 DEF With
<1> HIDE DEF ids, dropped
<1>8. o.body \in Bodies
  BY DEF Bodies
<1>9. DOMAIN identities' = DOMAIN ids \cup {o.id} /\ Range(identities') \subseteq Bodies
  BY <1>4, <1>7, <1>8 DEF Range
<1> QED BY <1>3, <1>4, <1>6, <1>9

\* What was staged in the log, before anything of it is visible.
LEMMA AppendEffect ==
  ASSUME Types, AppendLines
  PROVE  /\ archiveLog' \in Seq(Lines) /\ Len(archiveLog') = Len(archiveLog) + Len(pub.lines)
         /\ \A n \in 1..Len(archiveLog) : archiveLog'[n] = archiveLog[n]
         /\ \A n \in 1..Len(pub.lines) : archiveLog'[Len(archiveLog) + n] = pub.lines[n]
         /\ quarFile' \in Nat
         /\ pub' \in PubStates /\ pub'.pc = "watermark" /\ pub'.lines = pub.lines
         /\ pub'.waiters = pub.waiters
         /\ pub'.pending.offset = mem.offset + Len(pub.lines) /\ pub'.pending.clean = mem.clean
<1>1. /\ archiveLog \in Seq(Lines) /\ pub \in PubStates /\ mem \in State /\ quarFile \in Nat
      /\ pub.lines \in Seq(Lines) /\ pub.quar \in Nat
      /\ mem.offset \in Nat /\ mem.quar \in Nat /\ mem.seq \in Nat
  BY DEF Types, PubStates, State
<1>2. Len(pub.lines) \in Nat /\ Len(archiveLog) \in Nat
  BY <1>1, LenProperties
<1> DEFINE cells == archiveLog \o pub.lines
<1>3. /\ cells \in Seq(Lines) /\ Len(cells) = Len(archiveLog) + Len(pub.lines)
      /\ \A n \in 1..Len(archiveLog) : cells[n] = archiveLog[n]
      /\ \A n \in 1..Len(pub.lines) : cells[Len(archiveLog) + n] = pub.lines[n]
  BY <1>1, <1>2
<1> HIDE DEF cells
<1> DEFINE s == [mem EXCEPT !.offset = @ + Len(pub.lines), !.quar = @ + pub.quar,
                            !.seq = @ + Len(pub.lines)]
           full == s.capacityStop \/ Used(s) >= CapacityCells
<1>4. s \in State /\ s.offset = mem.offset + Len(pub.lines) /\ s.clean = mem.clean
  <2> DEFINE off == mem.offset + Len(pub.lines)
             quar == mem.quar + pub.quar
             seq == mem.seq + Len(pub.lines)
  <2>4. /\ mem.offset \in Nat /\ mem.quar \in Nat /\ mem.seq \in Nat
        /\ Len(pub.lines) \in Nat /\ pub.quar \in Nat
    BY <1>1, <1>2
  <2>5. \A i, j \in Nat : i + j \in Nat
    OBVIOUS
  <2>1. off \in Nat /\ quar \in Nat /\ seq \in Nat /\ mem \in State
    BY <1>1, <2>4, <2>5, Zenon
  <2>2. s = [mem EXCEPT !.offset = off, !.quar = quar, !.seq = seq]
    OBVIOUS
  <2> HIDE DEF off, quar, seq, s
  <2>3. s \in State /\ s.offset = off /\ s.clean = mem.clean
    BY ONLY <2>1, <2>2 DEF State
  <2> QED BY <2>3 DEF off
<1>5. full \in BOOLEAN
  BY <1>4 DEF State
<1>6. Staged = [s EXCEPT !.capacityStop = full]
  BY DEF Staged
<1> HIDE DEF s, full
<1>7. Staged \in State /\ Staged.offset = mem.offset + Len(pub.lines) /\ Staged.clean = mem.clean
  BY <1>4, <1>5, <1>6 DEF State
<1> DEFINE st == Staged
<1>8. /\ archiveLog' = cells /\ quarFile' = quarFile + pub.quar
      /\ pub' = [pub EXCEPT !.pc = "watermark", !.pending = st]
  BY DEF AppendLines, cells
<1> HIDE DEF st
<1>9. st \in State /\ st.offset = mem.offset + Len(pub.lines) /\ st.clean = mem.clean
  BY <1>7 DEF st
<1>10. /\ pub' \in PubStates /\ pub'.pc = "watermark" /\ pub'.lines = pub.lines
       /\ pub'.waiters = pub.waiters /\ pub'.pending = st
  BY <1>1, <1>8, <1>9 DEF PubStates
<1> QED BY <1>1, <1>3, <1>8, <1>9, <1>10

\* What a failed append leaves: the log as it was, its lines counted as failed.
LEMMA AppendFailsEffect ==
  ASSUME NoTornAppend, Types, AppendFails
  PROVE  /\ UNCHANGED archiveLog /\ quarFile' \in Nat
         /\ mem' \in State /\ stateFile' = mem' /\ mem'.offset = mem.offset
         /\ mem'.storageFailure /\ mem'.crashTail = mem.crashTail /\ mem'.clean = mem.clean
         /\ Counted(mem) + Len(pub.lines) <= Counted(mem')
         /\ DOMAIN identities' = DOMAIN identities \ {pub.lines[n].id : n \in DOMAIN pub.lines}
         /\ Range(identities') \subseteq Bodies
<1>1. /\ pub \in PubStates /\ mem \in State /\ quarFile \in Nat
      /\ pub.lines \in Seq(Lines) /\ pub.quar \in Nat
      /\ mem.refused \in Nat /\ mem.dropped \in Nat /\ mem.failed \in Nat
      /\ Range(identities) \subseteq Bodies
  BY DEF Types, PubStates, State
<1>2. Len(pub.lines) \in Nat
  BY <1>1, LenProperties
<1>3. UNCHANGED archiveLog /\ quarFile' \in {quarFile, quarFile + pub.quar}
  BY DEF AppendFails, NoTornAppend
<1>4. /\ mem' = [mem EXCEPT !.storageFailure = TRUE, !.failed = @ + Len(pub.lines) + pub.quar]
      /\ stateFile' = mem'
  BY DEF AppendFails
<1> DEFINE more == mem.failed + Len(pub.lines) + pub.quar
<1>9. more \in Nat /\ mem' = [mem EXCEPT !.storageFailure = TRUE, !.failed = more] /\ mem \in State
  BY <1>1, <1>2, <1>4
<1> HIDE DEF more
<1>5. /\ mem' \in State /\ mem'.failed = more
      /\ mem'.refused = mem.refused /\ mem'.dropped = mem.dropped
      /\ mem'.offset = mem.offset /\ mem'.clean = mem.clean
      /\ mem'.storageFailure /\ mem'.crashTail = mem.crashTail
  BY ONLY <1>9 DEF State
<1>10. /\ mem.refused \in Nat /\ mem.dropped \in Nat /\ mem.failed \in Nat
       /\ pub.quar \in Nat /\ Len(pub.lines) \in Nat
  BY <1>1, <1>2
<1>6. Counted(mem) + Len(pub.lines) <= Counted(mem')
  BY ONLY <1>5, <1>10 DEF Counted, more
<1>7. identities' = [i \in DOMAIN identities \ IdsOf(pub.lines) |-> identities[i]]
  BY DEF AppendFails
<1>8. /\ DOMAIN identities' = DOMAIN identities \ {pub.lines[n].id : n \in DOMAIN pub.lines}
      /\ Range(identities') \subseteq Bodies
  BY <1>1, <1>7 DEF Range, IdsOf
<1> QED BY <1>1, <1>3, <1>4, <1>5, <1>6, <1>8

\* The rows of a batch join the index and the state takes its watermark.
LEMMA InstallEffect ==
  ASSUME Types, Install
  PROVE  /\ index' \in Seq(IndexRows) /\ Len(index') = Len(index) + Len(pub.lines)
         /\ \A n \in 1..Len(index) : index'[n] = index[n]
         /\ \A n \in 1..Len(pub.lines) :
               LET row == index'[Len(index) + n]
               IN  /\ row.id = pub.lines[n].id /\ row.seq = pub.lines[n].seq
                   /\ row.body = pub.lines[n].body /\ row.offset = mem.offset + n - 1
         /\ mem' \in State /\ mem'.offset = pub.pending.offset /\ mem'.clean = mem.clean
         /\ mem'.storageFailure = mem.storageFailure /\ mem'.crashTail = mem.crashTail
         /\ Counted(mem') = Counted(mem)
<1>1. /\ index \in Seq(IndexRows) /\ pub \in PubStates /\ mem \in State
      /\ pub.lines \in Seq(Lines) /\ pub.pending \in State /\ mem.offset \in Nat
      /\ pub.pending.seq \in Nat /\ pub.pending.offset \in Nat /\ pub.pending.quar \in Nat
  BY DEF Types, PubStates, State
<1>2. Len(pub.lines) \in Nat /\ Len(index) \in Nat /\ \A n \in 1..Len(pub.lines) : pub.lines[n] \in Lines
  BY <1>1, LenProperties, ElementOfSeq
<1> DEFINE rows == StagedRows
<1>3. \A n \in 1..Len(pub.lines) :
         /\ pub.lines[n].seq \in Nat /\ pub.lines[n].id \in Ids /\ pub.lines[n].body \in Bodies
         /\ pub.lines[n].loss \in BOOLEAN /\ mem.offset + n - 1 \in Nat
  <2> SUFFICES ASSUME NEW n \in 1..Len(pub.lines)
               PROVE  /\ pub.lines[n].seq \in Nat /\ pub.lines[n].id \in Ids /\ pub.lines[n].body \in Bodies
                      /\ pub.lines[n].loss \in BOOLEAN /\ mem.offset + n - 1 \in Nat
    OBVIOUS
  <2>1. pub.lines[n] \in Lines
    BY <1>2
  <2>2. mem.offset + n - 1 \in Nat
    BY <1>1, <1>2
  <2> QED BY <2>1, <2>2 DEF Lines
<1>4. \A n \in 1..Len(pub.lines) :
        [seq |-> pub.lines[n].seq, id |-> pub.lines[n].id, body |-> pub.lines[n].body,
         loss |-> pub.lines[n].loss, offset |-> mem.offset + n - 1] \in IndexRows
  BY <1>3 DEF IndexRows
<1>5. /\ rows \in Seq(IndexRows) /\ Len(rows) = Len(pub.lines)
      /\ \A n \in 1..Len(pub.lines) :
            /\ rows[n].id = pub.lines[n].id /\ rows[n].seq = pub.lines[n].seq
            /\ rows[n].body = pub.lines[n].body /\ rows[n].offset = mem.offset + n - 1
  BY <1>2, <1>4 DEF StagedRows
<1> HIDE DEF rows
<1> DEFINE new == index \o rows
<1>6. /\ new \in Seq(IndexRows) /\ Len(new) = Len(index) + Len(pub.lines)
      /\ \A n \in 1..Len(index) : new[n] = index[n]
      /\ \A n \in 1..Len(pub.lines) : new[Len(index) + n] = rows[n]
  <2> DEFINE k == Len(pub.lines)
  <2>1. index \in Seq(IndexRows) /\ rows \in Seq(IndexRows) /\ k \in Nat /\ Len(rows) = k
    BY <1>1, <1>2, <1>5
  <2> HIDE DEF k
  <2>2. /\ new \in Seq(IndexRows) /\ Len(new) = Len(index) + k
        /\ \A n \in 1..Len(index) : new[n] = index[n]
        /\ \A n \in 1..k : new[Len(index) + n] = rows[n]
    BY ONLY <2>1
  <2> QED BY <2>2 DEF k
<1>7. index' = new
  BY DEF Install, rows
<1> HIDE DEF new
<1> DEFINE full == mem.capacityStop \/ pub.pending.capacityStop
<1>8. full \in BOOLEAN
  OBVIOUS
<1>9. mem' = [mem EXCEPT !.seq = pub.pending.seq, !.offset = pub.pending.offset,
                         !.quar = pub.pending.quar, !.capacityStop = full]
  BY DEF Install
<1> HIDE DEF full
<1>10. /\ mem' \in State /\ mem'.offset = pub.pending.offset /\ mem'.clean = mem.clean
       /\ mem'.storageFailure = mem.storageFailure /\ mem'.crashTail = mem.crashTail
       /\ mem'.dropped = mem.dropped /\ mem'.failed = mem.failed /\ mem'.refused = mem.refused
  BY <1>1, <1>8, <1>9 DEF State
<1> QED BY <1>5, <1>6, <1>7, <1>10 DEF Counted

----------------------------------------------------------------------------
(* Every part of the invariant survives a step                             *)

Step == CollectorNext \/ UNCHANGED collectorVars

\* What the fields of the publication thread are.
LEMMA PubTyped ==
  ASSUME pub \in PubStates
  PROVE  /\ pub.lines \in Seq(Lines) /\ pub.pending \in State /\ pub.waiters \in BOOLEAN
         /\ Len(pub.lines) \in Nat /\ DOMAIN pub.lines = 1..Len(pub.lines)
         /\ pub.pc \in {"wait", "append", "watermark", "install", "ended"}
<1>1. pub.lines \in Seq(Lines)
  BY DEF PubStates
<1> QED BY <1>1, LenProperties DEF PubStates

\* Checkpoints keep their type whatever answers them.
LEMMA CheckpointTyped ==
  ASSUME checkpoint \in Checkpoints
  PROVE  /\ Answered \in Checkpoints /\ Answered.covers = checkpoint.covers
         /\ Answered.state = IF pub.waiters THEN "answered" ELSE checkpoint.state
         /\ \A s \in {"waiting", "held", "answered"} :
               /\ [checkpoint EXCEPT !.state = s] \in Checkpoints
               /\ [checkpoint EXCEPT !.state = s].covers = checkpoint.covers
               /\ [checkpoint EXCEPT !.state = s].state = s
         /\ NoCheckpoint \in Checkpoints
BY DEF Answered, Checkpoints, NoCheckpoint

\* Files, memory and histories keep their types.
LEMMA TypesStep ==
  ASSUME NoTornAppend, Types, Stages, LogInv, Step
  PROVE  Types'
<1>0. /\ archiveLog \in Seq(Lines) /\ quarFile \in Nat /\ stateFile \in State /\ mem \in State
      /\ policyFile \in [desired : Policies, rev : Nat] /\ policy \in [desired : Policies, rev : Nat]
      /\ proc \in {"down", "serving", "joining", "marked"} /\ stopping \in BOOLEAN
      /\ queue \in Seq(Items) /\ Len(queue) <= QueueCount
      /\ DOMAIN identities \subseteq Ids /\ Range(identities) \subseteq Bodies
      /\ index \in Seq(IndexRows) /\ pub \in PubStates /\ checkpoint \in Checkpoints
      /\ owed \in SUBSET Units /\ IsFiniteSet(owed) /\ told \in Nat /\ budget \in Budgets
  BY DEF Types
<1>1. CASE CollectorStart
  <2>1. /\ archiveLog' \in Seq(Lines) /\ quarFile' \in Nat /\ mem' \in State /\ stateFile' = mem'
        /\ owed' = (IF mem'.crashTail = "unknown" THEN {} ELSE owed)
        /\ told' = (IF mem'.crashTail = "unknown" THEN Counted(mem') ELSE told)
        /\ index' \in Seq(IndexRows)
        /\ DOMAIN identities' = {archiveLog'[n].id : n \in Lasting'} /\ Range(identities') \subseteq Bodies
    BY <1>1, StartEffect DEF LogInv
  <2>2. \A n \in Lasting' : archiveLog'[n].id \in Ids
    <3>1. \A n \in DOMAIN archiveLog' : archiveLog'[n] \in Lines
      BY <2>1, LenProperties, ElementOfSeq
    <3> QED BY <3>1 DEF Lasting, Lines
  <2>3. owed' \in SUBSET Units /\ IsFiniteSet(owed') /\ told' \in Nat
    BY <1>0, <2>1, StateFields, FS_EmptySet
  <2>4. /\ policyFile' = policyFile /\ policy' = policyFile /\ proc' = "serving" /\ stopping' = FALSE
        /\ queue' = <<>> /\ pub' = Idle /\ checkpoint' = NoCheckpoint
    BY <1>1 DEF CollectorStart
  <2>5. budget' \in Budgets
    BY <1>0, <1>1, SpendTyped DEF CollectorStart
  <2>6. queue' \in Seq(Items) /\ Len(queue') <= QueueCount
    BY <2>4, LimitsPositive
  <2>7. pub' \in PubStates /\ checkpoint' \in Checkpoints
    BY <1>0, <2>4, IdleTyped, CheckpointTyped
  <2> QED BY <1>0, <2>1, <2>2, <2>3, <2>4, <2>5, <2>6, <2>7 DEF Types
<1>2. CASE Shutdown
  BY <1>0, <1>2 DEF Types, Shutdown, disk
<1>3. CASE MarkClean
  <2> DEFINE c == CleanStop
  <2>1. c \in BOOLEAN
    BY DEF CleanStop
  <2>2. mem' \in {mem, [mem EXCEPT !.clean = c]} /\ stateFile' \in {stateFile, mem'}
    BY <1>3 DEF MarkClean
  <2> HIDE DEF c
  <2>4. mem \in State /\ stateFile \in State
    BY <1>0
  <2>5. [mem EXCEPT !.clean = c] \in State
    BY ONLY <2>1, <2>4 DEF State
  <2>3. mem' \in State /\ stateFile' \in State
    BY ONLY <2>2, <2>4, <2>5
  <2> QED BY <1>0, <1>3, <2>3 DEF Types, MarkClean
<1>4. CASE Exit \/ CollectorCrash
  <2>1. /\ Gone
        /\ budget' \in Budgets
    BY <1>0, <1>4, SpendTyped DEF Exit, CollectorCrash
  <2>2. /\ queue' = <<>> /\ identities' = <<>> /\ index' = <<>>
        /\ pub' = [Idle EXCEPT !.pc = "ended"] /\ checkpoint' = NoCheckpoint
        /\ mem' = FreshState(0)
    BY <2>1 DEF Gone
  <2>3. /\ queue' \in Seq(Items) /\ Len(queue') <= QueueCount /\ index' \in Seq(IndexRows)
        /\ DOMAIN identities' \subseteq Ids /\ Range(identities') \subseteq Bodies
    BY <2>2, LimitsPositive DEF Range
  <2>4. pub' \in PubStates /\ checkpoint' \in Checkpoints /\ mem' \in State
    BY <1>0, <2>2, IdleTyped, CheckpointTyped
  <2> QED BY <1>0, <2>1, <2>3, <2>4 DEF Types, Gone, disk
<1>5. ASSUME NEW o \in Observations, Refuse(o) PROVE Types'
  <2>1. mem' \in State /\ told' \in Nat
    BY <1>5, RefuseEffect DEF MemKept
  <2>2. budget' \in Budgets
    BY <1>0, <1>5, SpendTyped DEF Refuse
  <2> QED BY <1>0, <1>5, <2>1, <2>2 DEF Types, Refuse, disk
<1>6. ASSUME NEW o \in Observations, Quarantine(o) PROVE Types'
  <2>1. PICK dropped \in Nat : /\ Queued(queue', identities', dropped, Item(o, TRUE))
                               /\ MemKept
    BY <1>6, QuarantineEffect
  <2>2. /\ queue' \in Seq(Items) /\ Len(queue') <= QueueCount
        /\ DOMAIN identities' \subseteq Ids /\ Range(identities') \subseteq Bodies
    BY <1>0, <2>1, LimitsPositive DEF Queued
  <2>3. mem' \in State
    BY <2>1 DEF MemKept
  <2>4. budget' \in Budgets
    BY <1>0, <1>6, SpendTyped DEF Quarantine
  <2> QED BY <1>0, <1>6, <2>2, <2>3, <2>4 DEF Types, Quarantine, disk
<1>7. ASSUME NEW o \in Observations, Admit(o) PROVE Types'
  <2>1. PICK dropped \in Nat : \E ids :
           /\ Queued(queue', ids, dropped, Item(o, FALSE)) /\ MemKept
           /\ DOMAIN identities' = DOMAIN ids \cup {o.id} /\ Range(identities') \subseteq Bodies
    BY <1>7, AdmitEffect
  <2>2. PICK ids : /\ Queued(queue', ids, dropped, Item(o, FALSE)) /\ MemKept
                   /\ DOMAIN identities' = DOMAIN ids \cup {o.id}
                   /\ Range(identities') \subseteq Bodies
    BY <2>1
  <2>3. /\ queue' \in Seq(Items) /\ Len(queue') <= QueueCount
        /\ DOMAIN ids \subseteq Ids
    BY <1>0, <2>2, LimitsPositive DEF Queued
  <2>4. o.id \in Ids
    BY DEF Ids
  <2>5. DOMAIN identities' \subseteq Ids /\ Range(identities') \subseteq Bodies /\ mem' \in State
    BY <2>2, <2>3, <2>4 DEF MemKept
  <2>6. budget' \in Budgets
    BY <1>0, <1>7, SpendTyped DEF Admit
  <2>7. owed' \in SUBSET Units /\ IsFiniteSet(owed')
    <3>1. owed' \in {owed, owed \cup {Unit(o)}} /\ Unit(o) \in Units
      BY <1>7, ItemTyped DEF Admit
    <3>2. IsFiniteSet(owed \cup {Unit(o)})
      BY <1>0, FS_AddElement
    <3> QED BY <1>0, <3>1, <3>2
  <2> QED BY <1>0, <1>7, <2>3, <2>5, <2>6, <2>7 DEF Types, Admit, disk
<1>8. ASSUME NEW desired \in Wanted, SetPolicy(desired) PROVE Types'
  <2>1. desired \in Policies
    BY BoundsAreNaturals DEF Policies
  <2>2. /\ policyFile' \in [desired : Policies, rev : Nat] /\ policy' \in [desired : Policies, rev : Nat]
    BY <1>0, <1>8, <2>1 DEF SetPolicy
  <2>3. mem' \in {mem, [mem EXCEPT !.storageFailure = TRUE]}
    BY <1>8 DEF SetPolicy
  <2>6. mem \in State
    BY <1>0
  <2>7. [mem EXCEPT !.storageFailure = TRUE] \in State
    BY ONLY <2>6 DEF State
  <2>4. mem' \in State
    BY ONLY <2>3, <2>6, <2>7
  <2>5. budget' \in Budgets
    BY <1>0, <1>8, SpendTyped DEF SetPolicy
  <2> QED BY <1>0, <1>8, <2>2, <2>4, <2>5 DEF Types, SetPolicy
<1>9. CASE TakeBatch
  <2>0. PICK k \in 1..Len(queue) : \E t \in 0..k : Taking(k, t)
    BY <1>9, TakeBatchEffect
  <2>1. PICK t \in 0..k : Taking(k, t)
    BY <2>0
  <2>2. /\ queue' \in Seq(Items) /\ Len(queue') = Len(queue) - k /\ pub' \in PubStates /\ mem' \in State
        /\ DOMAIN identities' \subseteq DOMAIN identities /\ Range(identities') \subseteq Bodies
    BY <2>1 DEF Taking
  <2>3. Len(queue') <= QueueCount
    BY <1>0, <2>2, LenProperties, LimitsPositive
  <2>4. checkpoint' \in Checkpoints
    BY <1>0, <1>9, CheckpointTyped DEF TakeBatch
  <2> QED BY <1>0, <1>9, <2>2, <2>3, <2>4 DEF Types, TakeBatch, disk
<1>10. CASE AppendLines
  <2>1. archiveLog' \in Seq(Lines) /\ quarFile' \in Nat /\ pub' \in PubStates
    BY <1>10, AppendEffect
  <2> QED BY <1>0, <1>10, <2>1 DEF Types, AppendLines
<1>11. CASE AppendFails
  <2>1. /\ archiveLog' = archiveLog /\ quarFile' \in Nat /\ mem' \in State /\ stateFile' \in State
        /\ DOMAIN identities' \subseteq DOMAIN identities /\ Range(identities') \subseteq Bodies
    BY <1>11, AppendFailsEffect
  <2>2. pub' \in PubStates /\ checkpoint' \in Checkpoints
    BY <1>0, <1>11, IdleTyped, CheckpointTyped DEF AppendFails
  <2>3. budget' \in Budgets
    BY <1>0, <1>11, SpendTyped DEF AppendFails
  <2> QED BY <1>0, <1>11, <2>1, <2>2, <2>3 DEF Types, AppendFails
<1>12. CASE WriteWatermark
  <2>1. stateFile' \in State
    BY <1>0, <1>12, PubTyped DEF WriteWatermark
  <2>2. pub' \in PubStates
    BY <1>0, <1>12 DEF WriteWatermark, PubStates
  <2> QED BY <1>0, <1>12, <2>1, <2>2 DEF Types, WriteWatermark
<1>13. CASE WatermarkFails
  <2>1. stateFile' \in State
    BY <1>0, <1>13, PubTyped DEF WatermarkFails
  <2>2. mem' = [mem EXCEPT !.storageFailure = TRUE, !.crashTail = "unknown"]
    BY <1>13 DEF WatermarkFails
  <2>3. mem' \in State
    BY ONLY <1>0, <2>2 DEF State
  <2>4. pub' \in PubStates /\ checkpoint' \in Checkpoints
    BY <1>0, <1>13, IdleTyped, CheckpointTyped DEF WatermarkFails
  <2>5. budget' \in Budgets
    BY <1>0, <1>13, SpendTyped DEF WatermarkFails
  <2> QED BY <1>0, <1>13, <2>1, <2>3, <2>4, <2>5 DEF Types, WatermarkFails
<1>14. CASE Install
  <2>1. index' \in Seq(IndexRows) /\ mem' \in State
    BY <1>14, InstallEffect
  <2>2. pub' \in PubStates /\ checkpoint' \in Checkpoints
    BY <1>0, <1>14, IdleTyped, CheckpointTyped DEF Install
  <2> QED BY <1>0, <1>14, <2>1, <2>2 DEF Types, Install, disk
<1>15. CASE PersistForWaiter
  <2>1. stateFile' \in State /\ checkpoint' \in Checkpoints
    BY <1>0, <1>15, CheckpointTyped DEF PersistForWaiter
  <2> QED BY <1>0, <1>15, <2>1 DEF Types, PersistForWaiter
<1>16. CASE PublicationEnds
  <2>1. pub' \in PubStates
    BY <1>0, <1>16 DEF PublicationEnds, PubStates
  <2> QED BY <1>0, <1>16, <2>1 DEF Types, PublicationEnds, disk
<1>17. CASE RequestCheckpoint
  <2>1. checkpoint' \in Checkpoints
    BY <1>0, <1>17 DEF RequestCheckpoint, Checkpoints
  <2> QED BY <1>0, <1>17, <2>1 DEF Types, RequestCheckpoint, disk
<1>18. CASE Query \/ NextPage
  BY <1>0, <1>18 DEF Types, Query, NextPage, disk
<1>19. CASE UNCHANGED collectorVars
  BY <1>0, <1>19 DEF Types, collectorVars
<1> QED
  BY <1>1, <1>2, <1>3, <1>4, <1>5, <1>6, <1>7, <1>8, <1>9, <1>10, <1>11, <1>12, <1>13, <1>14,
     <1>15, <1>16, <1>17, <1>18, <1>19 DEF Step, CollectorNext

\* What an ending process leaves.
LEMMA GoneEffect ==
  ASSUME Exit \/ CollectorCrash
  PROVE  /\ Alive /\ proc' = "down" /\ stopping' = FALSE /\ queue' = <<>> /\ index' = <<>>
         /\ pub' = [Idle EXCEPT !.pc = "ended"] /\ pub'.pc = "ended" /\ pub'.lines = <<>>
         /\ pub'.waiters = FALSE /\ checkpoint' = NoCheckpoint
         /\ archiveLog' = archiveLog /\ stateFile' = stateFile /\ reader' = reader /\ owed' = owed /\ told' = told
         /\ ~Alive'
<1>1. Gone /\ Alive
  BY DEF Exit, CollectorCrash, Alive
<1>2. /\ pub' = [Idle EXCEPT !.pc = "ended"] /\ proc' = "down" /\ stopping' = FALSE /\ queue' = <<>>
      /\ index' = <<>> /\ checkpoint' = NoCheckpoint
      /\ archiveLog' = archiveLog /\ stateFile' = stateFile /\ reader' = reader /\ owed' = owed /\ told' = told
  BY <1>1 DEF Gone, disk
<1>3. pub'.pc = "ended" /\ pub'.lines = <<>> /\ pub'.waiters = FALSE
  BY <1>2, IdleTyped
<1> QED BY <1>1, <1>2, <1>3 DEF Alive

\* What the thread, the queue and the phases have to do with each other survives.
LEMMA StagesStep ==
  ASSUME NoTornAppend, Types, Stages, LogInv, Step
  PROVE  Stages'
<1>0. /\ pub \in PubStates /\ mem \in State /\ proc \in {"down", "serving", "joining", "marked"}
      /\ stopping <=> proc \in {"joining", "marked"}
      /\ ~Alive => pub.pc = "ended" /\ queue = <<>>
      /\ pub.pc \in {"wait", "ended"} => pub.lines = <<>>
      /\ Alive /\ pub.pc = "ended" => stopping \/ Unknown
  BY DEF Types, Stages
<1>1. CASE CollectorStart
  <2>1. proc' = "serving" /\ stopping' = FALSE /\ pub' = Idle
    BY <1>1 DEF CollectorStart
  <2> QED BY <2>1, IdleTyped DEF Stages, Alive
<1>2. CASE Shutdown
  <2>1. proc' = "joining" /\ stopping' = TRUE /\ UNCHANGED <<pub, queue, mem>>
    BY <1>2 DEF Shutdown
  <2> QED BY <1>0, <2>1 DEF Stages, Alive
<1>3. CASE MarkClean
  <2>1. /\ proc = "joining" /\ proc' = "marked" /\ UNCHANGED <<stopping, pub, queue>>
    BY <1>3 DEF MarkClean
  <2> QED BY <1>0, <2>1 DEF Stages, Alive
<1>4. CASE Exit \/ CollectorCrash
  BY <1>4, GoneEffect DEF Stages
<1>5. ASSUME NEW o \in Observations, Refuse(o) \/ Quarantine(o) \/ Admit(o) PROVE Stages'
  <2>1. UNCHANGED <<proc, stopping, pub>> /\ Alive
    BY <1>5 DEF Refuse, Quarantine, Admit
  <2>2. MemKept
    BY <1>5, RefuseEffect, QuarantineEffect, AdmitEffect
  <2> QED BY <1>0, <2>1, <2>2 DEF Stages, Alive, MemKept, Unknown
<1>6. ASSUME NEW desired \in Wanted, SetPolicy(desired) PROVE Stages'
  <2>1. /\ UNCHANGED <<proc, stopping, pub, queue>>
        /\ mem' \in {mem, [mem EXCEPT !.storageFailure = TRUE]}
    BY <1>6 DEF SetPolicy
  <2>2. Unknown => Unknown'
    BY <1>0, <2>1 DEF Unknown, State
  <2> QED BY <1>0, <2>1, <2>2 DEF Stages, Alive
<1>7. CASE TakeBatch
  <2>1. pub'.pc = "append" /\ UNCHANGED <<proc, stopping>>
    <3>1. PICK k \in 1..Len(queue) : \E t \in 0..k : Taking(k, t)
      BY <1>7, TakeBatchEffect
    <3> QED BY <1>7, <3>1 DEF Taking, TakeBatch
  <2>2. Alive
    BY <1>0, <1>7 DEF TakeBatch
  <2> QED BY <1>0, <2>1, <2>2 DEF Stages, Alive
<1>8. CASE AppendLines
  <2>1. pub'.pc = "watermark" /\ pub.pc = "append" /\ UNCHANGED <<proc, stopping>>
    BY <1>8, AppendEffect DEF AppendLines
  <2> QED BY <1>0, <2>1 DEF Stages, Alive
<1>9. CASE AppendFails \/ Install
  <2>1. pub' = Idle /\ pub.pc \in {"append", "install"} /\ UNCHANGED <<proc, stopping>>
    BY <1>9 DEF AppendFails, Install
  <2> QED BY <1>0, <2>1, IdleTyped DEF Stages, Alive
<1>10. CASE WriteWatermark
  <2>1. pub'.pc = "install" /\ pub.pc = "watermark" /\ UNCHANGED <<proc, stopping>>
    BY <1>0, <1>10 DEF WriteWatermark, PubStates
  <2> QED BY <1>0, <2>1 DEF Stages, Alive
<1>11. CASE WatermarkFails
  <2>1. /\ pub' = [Idle EXCEPT !.pc = "ended"] /\ pub.pc = "watermark" /\ UNCHANGED <<proc, stopping>>
        /\ mem' = [mem EXCEPT !.storageFailure = TRUE, !.crashTail = "unknown"]
    BY <1>11 DEF WatermarkFails
  <2>2. Unknown'
    BY <1>0, <2>1 DEF Unknown, State
  <2> QED BY <1>0, <2>1, <2>2, IdleTyped DEF Stages, Alive
<1>12. CASE PublicationEnds
  <2>1. pub'.pc = "ended" /\ pub'.lines = pub.lines /\ pub.pc = "wait" /\ stopping /\ UNCHANGED <<proc, stopping, queue>>
    BY <1>0, <1>12 DEF PublicationEnds, PubStates
  <2> QED BY <1>0, <2>1 DEF Stages, Alive
<1>13. CASE PersistForWaiter \/ RequestCheckpoint \/ Query \/ NextPage \/ UNCHANGED collectorVars
  <2>1. UNCHANGED <<proc, stopping, queue, pub, mem>>
    BY <1>13 DEF PersistForWaiter, RequestCheckpoint, Query, NextPage, collectorVars
  <2> QED BY <1>0, <2>1 DEF Stages, Alive, Unknown
<1> QED
  BY <1>1, <1>2, <1>3, <1>4, <1>5, <1>6, <1>7, <1>8, <1>9, <1>10, <1>11, <1>12, <1>13
     DEF Step, CollectorNext

\* A clean stop stays the last thing that is written.
LEMMA CleanStep ==
  ASSUME NoTornAppend, Types, Stages, LogInv, CleanInv, Step
  PROVE  CleanInv'
<1>0. /\ pub \in PubStates /\ mem \in State
      /\ ~Alive => pub.pc = "ended"
      /\ Alive /\ (mem.clean \/ stateFile.clean) => proc = "marked" /\ pub.pc = "ended"
      /\ pub.pc \in {"watermark", "install"} => ~pub.pending.clean
  BY DEF Types, Stages, CleanInv
<1>1. CASE CollectorStart
  <2>1. pub' = Idle /\ ~mem'.clean /\ stateFile' = mem'
    BY <1>1, StartEffect DEF CollectorStart, LogInv
  <2> QED BY <2>1, IdleTyped DEF CleanInv
<1>2. CASE Shutdown
  <2>1. proc = "serving" /\ proc' = "joining" /\ UNCHANGED <<pub, mem, stateFile>>
    BY <1>2 DEF Shutdown, disk
  <2> QED BY <1>0, <2>1 DEF CleanInv, Alive
<1>3. CASE MarkClean
  <2>1. proc = "joining" /\ proc' = "marked" /\ pub' = pub
    BY <1>3 DEF MarkClean
  <2>2. pub.pc # "ended" => mem' = mem /\ stateFile' = stateFile
    BY <1>3 DEF MarkClean
  <2> QED BY <1>0, <2>1, <2>2 DEF CleanInv, Alive
<1>4. CASE Exit \/ CollectorCrash
  BY <1>4, GoneEffect DEF CleanInv
<1>5. ASSUME NEW o \in Observations, Refuse(o) \/ Quarantine(o) \/ Admit(o) PROVE CleanInv'
  <2>1. UNCHANGED <<proc, pub, stateFile>>
    BY <1>5 DEF Refuse, Quarantine, Admit, disk
  <2>2. MemKept
    BY <1>5, RefuseEffect, QuarantineEffect, AdmitEffect
  <2> QED BY <1>0, <2>1, <2>2 DEF CleanInv, Alive, MemKept
<1>6. ASSUME NEW desired \in Wanted, SetPolicy(desired) PROVE CleanInv'
  <2>1. /\ UNCHANGED <<proc, pub, stateFile>>
        /\ mem' \in {mem, [mem EXCEPT !.storageFailure = TRUE]}
    BY <1>6 DEF SetPolicy
  <2>2. mem'.clean = mem.clean
    BY <1>0, <2>1 DEF State
  <2> QED BY <1>0, <2>1, <2>2 DEF CleanInv, Alive
<1>7. CASE TakeBatch
  <2>1. PICK k \in 1..Len(queue) : \E t \in 0..k : Taking(k, t)
    BY <1>7, TakeBatchEffect
  <2>2. pub'.pc = "append" /\ mem'.clean = mem.clean /\ UNCHANGED <<proc, stateFile>> /\ pub.pc = "wait"
    BY <1>7, <2>1 DEF Taking, TakeBatch, disk
  <2> QED BY <1>0, <2>2 DEF CleanInv, Alive
<1>8. CASE AppendLines
  <2>1. /\ pub'.pc = "watermark" /\ pub.pc = "append" /\ UNCHANGED <<proc, mem, stateFile>>
        /\ pub'.pending.clean = mem.clean
    BY <1>8, AppendEffect DEF AppendLines
  <2> QED BY <1>0, <2>1 DEF CleanInv, Alive
<1>9. CASE AppendFails
  <2>1. /\ pub' = Idle /\ pub.pc = "append" /\ UNCHANGED <<proc>>
        /\ mem'.clean = mem.clean /\ stateFile' = mem'
    BY <1>9, AppendFailsEffect DEF AppendFails
  <2> QED BY <1>0, <2>1, IdleTyped DEF CleanInv, Alive
<1>10. CASE WriteWatermark
  <2>1. /\ pub'.pc = "install" /\ pub.pc = "watermark" /\ pub'.pending = pub.pending
        /\ UNCHANGED <<proc, mem>> /\ stateFile' = pub.pending
    BY <1>0, <1>10 DEF WriteWatermark, PubStates
  <2> QED BY <1>0, <2>1 DEF CleanInv, Alive
<1>11. CASE WatermarkFails
  <2>1. /\ pub' = [Idle EXCEPT !.pc = "ended"] /\ pub.pc = "watermark" /\ UNCHANGED <<proc>>
        /\ mem' = [mem EXCEPT !.storageFailure = TRUE, !.crashTail = "unknown"]
        /\ stateFile' \in {stateFile, pub.pending}
    BY <1>11 DEF WatermarkFails
  <2>2. mem'.clean = mem.clean
    BY <1>0, <2>1 DEF State
  <2> QED BY <1>0, <2>1, <2>2, IdleTyped DEF CleanInv, Alive
<1>12. CASE Install
  <2>1. pub' = Idle /\ mem'.clean = mem.clean /\ UNCHANGED <<proc, stateFile>> /\ pub.pc = "install"
    BY <1>12, InstallEffect DEF Install, disk
  <2> QED BY <1>0, <2>1, IdleTyped DEF CleanInv, Alive
<1>13. CASE PublicationEnds
  <2>1. pub'.pc = "ended" /\ UNCHANGED <<proc, mem, stateFile>>
    BY <1>0, <1>13 DEF PublicationEnds, PubStates, disk
  <2> QED BY <1>0, <2>1 DEF CleanInv, Alive
<1>14. CASE PersistForWaiter
  <2>1. stateFile' = mem /\ UNCHANGED <<proc, mem, pub>>
    BY <1>14 DEF PersistForWaiter
  <2> QED BY <1>0, <2>1 DEF CleanInv, Alive
<1>15. CASE RequestCheckpoint \/ Query \/ NextPage \/ UNCHANGED collectorVars
  <2>1. UNCHANGED <<proc, stateFile, pub, mem>>
    BY <1>15 DEF RequestCheckpoint, Query, NextPage, collectorVars, disk
  <2> QED BY <1>0, <2>1 DEF CleanInv, Alive
<1> QED
  BY <1>1, <1>2, <1>3, <1>4, <1>5, <1>6, <1>7, <1>8, <1>9, <1>10, <1>11, <1>12, <1>13, <1>14, <1>15
     DEF Step, CollectorNext

\* Steps that leave the log and the publication alone.
LEMMA LogFrame ==
  ASSUME LogInv, UNCHANGED <<archiveLog, index, pub, stateFile>>, mem'.offset = mem.offset,
         Alive' <=> Alive, Unknown => Unknown'
  PROVE  LogInv'
BY DEF LogInv

\* Log, watermarks, staged lines and index keep agreeing.
LEMMA LogStep ==
  ASSUME NoTornAppend, Types, Stages, LogInv, Step
  PROVE  LogInv'
<1>0. /\ pub \in PubStates /\ mem \in State /\ stateFile \in State
      /\ mem.offset \in Nat /\ stateFile.offset \in Nat /\ Len(archiveLog) \in Nat
      /\ Len(pub.lines) \in Nat /\ Len(index) \in Nat /\ archiveLog \in Seq(Lines)
  <2>1. pub \in PubStates /\ mem \in State /\ stateFile \in State /\ archiveLog \in Seq(Lines) /\ index \in Seq(IndexRows)
    BY DEF Types
  <2> QED BY <2>1, StateFields, PubTyped, LenProperties
<1>1. /\ ~Alive => pub.pc = "ended"
      /\ stateFile.offset <= Len(archiveLog)
      /\ Alive => /\ Len(index) = mem.offset /\ mem.offset <= stateFile.offset
                  /\ \A n \in 1..mem.offset :
                        /\ index[n].id = archiveLog[n].id /\ index[n].seq = archiveLog[n].seq
                        /\ index[n].body = archiveLog[n].body /\ index[n].offset = n - 1
  BY DEF Stages, LogInv
<1>2. CASE CollectorStart
  <2>1. /\ Len(archiveLog') = stateFile.offset /\ stateFile' = mem' /\ mem'.offset = stateFile.offset
        /\ Len(index') = stateFile.offset
        /\ \A n \in 1..stateFile.offset :
              /\ index'[n].id = archiveLog'[n].id /\ index'[n].seq = archiveLog'[n].seq
              /\ index'[n].body = archiveLog'[n].body /\ index'[n].offset = n - 1
    BY <1>1, <1>2, StartEffect
  <2>2. pub'.pc = "wait"
    BY <1>2, IdleTyped DEF CollectorStart
  <2> QED BY <1>0, <2>1, <2>2 DEF LogInv
<1>3. CASE Shutdown
  <2>1. /\ UNCHANGED <<archiveLog, index, pub, stateFile, mem>> /\ proc = "serving" /\ proc' = "joining"
    BY <1>3 DEF Shutdown, disk
  <2>2. (Alive' <=> Alive) /\ (Unknown => Unknown') /\ mem'.offset = mem.offset
    BY <2>1 DEF Alive, Unknown
  <2> QED BY <2>1, <2>2, LogFrame
<1>4. CASE MarkClean
  <2>1. UNCHANGED <<archiveLog, index, pub>> /\ proc = "joining" /\ proc' = "marked"
    BY <1>4 DEF MarkClean
  <2>2. CASE pub.pc # "ended"
    <3>1. mem' = mem /\ stateFile' = stateFile
      BY <1>4, <2>2 DEF MarkClean
    <3>2. (Alive' <=> Alive) /\ (Unknown => Unknown') /\ mem'.offset = mem.offset
      BY <2>1, <3>1 DEF Alive, Unknown
    <3> QED BY <2>1, <3>1, <3>2, LogFrame
  <2>3. CASE pub.pc = "ended"
    <3>1. stateFile' = mem' /\ mem'.offset = mem.offset
      BY <1>0, <1>4, <2>3 DEF MarkClean, State
    <3> QED BY <1>0, <1>1, <2>1, <2>3, <3>1 DEF LogInv, Alive
  <2> QED BY <2>2, <2>3
<1>5. CASE Exit \/ CollectorCrash
  <2>1. ~Alive' /\ pub'.pc = "ended" /\ archiveLog' = archiveLog /\ stateFile' = stateFile
    BY <1>5, GoneEffect
  <2> QED BY <1>1, <2>1 DEF LogInv
<1>6. ASSUME NEW o \in Observations, Refuse(o) \/ Quarantine(o) \/ Admit(o) PROVE LogInv'
  <2>1. UNCHANGED <<archiveLog, index, pub, stateFile, proc>>
    BY <1>6 DEF Refuse, Quarantine, Admit, disk
  <2>2. MemKept
    BY <1>6, RefuseEffect, QuarantineEffect, AdmitEffect
  <2>3. (Alive' <=> Alive) /\ (Unknown => Unknown') /\ mem'.offset = mem.offset
    BY <2>1, <2>2 DEF Alive, Unknown, MemKept
  <2> QED BY <2>1, <2>3, LogFrame
<1>7. ASSUME NEW desired \in Wanted, SetPolicy(desired) PROVE LogInv'
  <2>1. /\ UNCHANGED <<archiveLog, index, pub, stateFile, proc>>
        /\ mem' \in {mem, [mem EXCEPT !.storageFailure = TRUE]}
    BY <1>7 DEF SetPolicy
  <2>2. (Alive' <=> Alive) /\ (Unknown => Unknown') /\ mem'.offset = mem.offset
    BY <1>0, <2>1 DEF Alive, Unknown, State
  <2> QED BY <2>1, <2>2, LogFrame
<1>8. CASE TakeBatch
  <2>1. PICK k \in 1..Len(queue) : \E t \in 0..k : Taking(k, t)
    BY <1>8, TakeBatchEffect
  <2>2. /\ pub'.pc = "append" /\ mem'.offset = mem.offset /\ UNCHANGED <<archiveLog, index, proc, stateFile>>
        /\ pub.pc = "wait"
    BY <1>8, <2>1 DEF Taking, TakeBatch, disk
  <2> QED BY <1>1, <2>2 DEF LogInv, Alive
<1>9. CASE AppendLines
  <2>1. /\ Len(archiveLog') = Len(archiveLog) + Len(pub.lines)
        /\ \A n \in 1..Len(archiveLog) : archiveLog'[n] = archiveLog[n]
        /\ \A n \in 1..Len(pub.lines) : archiveLog'[Len(archiveLog) + n] = pub.lines[n]
        /\ pub'.pc = "watermark" /\ pub'.lines = pub.lines
        /\ pub'.pending.offset = mem.offset + Len(pub.lines)
    BY <1>9, AppendEffect
  <2>2. pub.pc = "append" /\ UNCHANGED <<proc, mem, stateFile, index>>
    BY <1>9 DEF AppendLines
  <2>3. Len(archiveLog) = mem.offset /\ Alive /\ stateFile.offset = mem.offset
    BY <1>0, <1>1, <2>2 DEF LogInv
  <2>4. \A n \in 1..mem.offset : archiveLog'[n] = archiveLog[n]
    BY <2>1, <2>3
  <2>5. \A n \in 1..mem.offset :
           /\ index'[n].id = archiveLog'[n].id /\ index'[n].seq = archiveLog'[n].seq
           /\ index'[n].body = archiveLog'[n].body /\ index'[n].offset = n - 1
    BY <1>1, <2>2, <2>3, <2>4
  <2> QED BY <1>0, <1>1, <2>1, <2>2, <2>3, <2>5 DEF LogInv, Alive
<1>10. CASE AppendFails
  <2>1. archiveLog' = archiveLog /\ stateFile' = mem' /\ mem'.offset = mem.offset
    BY <1>10, AppendFailsEffect
  <2>2. pub' = Idle /\ pub'.pc = "wait" /\ pub.pc = "append" /\ UNCHANGED <<proc, index>>
    BY <1>10, IdleTyped DEF AppendFails
  <2>3. Len(archiveLog) = mem.offset /\ Alive
    BY <1>1, <2>2 DEF LogInv
  <2> QED BY <1>0, <1>1, <2>1, <2>2, <2>3 DEF LogInv, Alive
<1>11. CASE WriteWatermark
  <2>1. /\ pub'.pc = "install" /\ pub.pc = "watermark" /\ pub'.pending = pub.pending
        /\ pub'.lines = pub.lines
        /\ UNCHANGED <<proc, mem, archiveLog, index>> /\ stateFile' = pub.pending
    BY <1>0, <1>11 DEF WriteWatermark, PubStates
  <2>2. /\ Len(archiveLog) = mem.offset + Len(pub.lines) /\ pub.pending.offset = Len(archiveLog)
        /\ \A n \in 1..Len(pub.lines) : archiveLog[mem.offset + n] = pub.lines[n]
    BY <2>1 DEF LogInv
  <2>3. stateFile'.offset = Len(archiveLog) /\ mem.offset <= Len(archiveLog)
    BY <1>0, <2>1, <2>2
  <2> QED BY <1>0, <1>1, <2>1, <2>2, <2>3 DEF LogInv, Alive
<1>12. CASE WatermarkFails
  <2>1. /\ pub' = [Idle EXCEPT !.pc = "ended"] /\ pub.pc = "watermark" /\ UNCHANGED <<proc, archiveLog, index>>
        /\ mem' = [mem EXCEPT !.storageFailure = TRUE, !.crashTail = "unknown"]
        /\ stateFile' \in {stateFile, pub.pending}
    BY <1>12 DEF WatermarkFails
  <2>2. mem'.offset = mem.offset /\ Unknown' /\ pub'.pc = "ended"
    BY <1>0, <2>1, IdleTyped DEF State, Unknown
  <2>3. /\ Len(archiveLog) = mem.offset + Len(pub.lines) /\ pub.pending.offset = Len(archiveLog)
    BY <2>1 DEF LogInv
  <2>4. stateFile'.offset <= Len(archiveLog) /\ (Alive => mem.offset <= stateFile'.offset)
    BY <1>0, <1>1, <2>1, <2>3
  <2> QED BY <1>0, <1>1, <2>1, <2>2, <2>4 DEF LogInv, Alive
<1>13. CASE Install
  <2>1. /\ Len(index') = Len(index) + Len(pub.lines)
        /\ \A n \in 1..Len(index) : index'[n] = index[n]
        /\ \A n \in 1..Len(pub.lines) :
              LET row == index'[Len(index) + n]
              IN  /\ row.id = pub.lines[n].id /\ row.seq = pub.lines[n].seq
                  /\ row.body = pub.lines[n].body /\ row.offset = mem.offset + n - 1
        /\ mem'.offset = pub.pending.offset
    BY <1>13, InstallEffect
  <2>2. pub' = Idle /\ pub'.pc = "wait" /\ pub.pc = "install" /\ UNCHANGED <<proc, archiveLog, stateFile>> /\ Alive
    BY <1>1, <1>13, IdleTyped DEF Install, disk
  <2>3. /\ Len(archiveLog) = mem.offset + Len(pub.lines) /\ pub.pending.offset = Len(archiveLog)
        /\ \A n \in 1..Len(pub.lines) : archiveLog[mem.offset + n] = pub.lines[n]
        /\ stateFile.offset = Len(archiveLog) /\ Len(index) = mem.offset
    BY <1>1, <2>2 DEF LogInv
  <2>4. ASSUME NEW n \in 1..mem'.offset
        PROVE  /\ index'[n].id = archiveLog[n].id /\ index'[n].seq = archiveLog[n].seq
               /\ index'[n].body = archiveLog[n].body /\ index'[n].offset = n - 1
    <3>1. CASE n <= mem.offset
      <4>1. n \in 1..mem.offset /\ n \in 1..Len(index)
        BY <1>0, <2>1, <2>3, <3>1
      <4> QED BY <1>1, <2>1, <2>2, <4>1
    <3>2. CASE n > mem.offset
      <4> DEFINE m == n - mem.offset
      <4>1. m \in 1..Len(pub.lines) /\ mem.offset + m = n /\ Len(index) + m = n /\ mem.offset + m - 1 = n - 1
        BY <1>0, <2>1, <2>3, <3>2
      <4> HIDE DEF m
      <4>2. /\ index'[n].id = pub.lines[m].id /\ index'[n].seq = pub.lines[m].seq
            /\ index'[n].body = pub.lines[m].body /\ index'[n].offset = n - 1
        BY <2>1, <4>1
      <4> QED BY <2>3, <4>1, <4>2
    <3> QED BY <1>0, <2>1, <2>3, <3>1, <3>2
  <2> QED BY <1>0, <1>1, <2>1, <2>2, <2>3, <2>4 DEF LogInv
<1>14. CASE PersistForWaiter
  <2>1. stateFile' = mem /\ UNCHANGED <<proc, mem, pub, archiveLog, index>> /\ pub.pc = "wait"
    BY <1>14 DEF PersistForWaiter
  <2>2. Len(archiveLog) = mem.offset
    BY <2>1 DEF LogInv
  <2> QED BY <1>0, <1>1, <2>1, <2>2 DEF LogInv, Alive
<1>15. CASE PublicationEnds
  <2>1. pub'.pc = "ended" /\ pub.pc = "wait" /\ UNCHANGED <<proc, mem, stateFile, archiveLog, index>>
    BY <1>0, <1>15 DEF PublicationEnds, PubStates, disk
  <2>2. Len(archiveLog) = mem.offset
    BY <2>1 DEF LogInv
  <2> QED BY <1>0, <1>1, <2>1, <2>2 DEF LogInv, Alive
<1>16. CASE RequestCheckpoint \/ Query \/ NextPage \/ UNCHANGED collectorVars
  <2>1. UNCHANGED <<proc, stateFile, pub, mem, archiveLog, index>>
    BY <1>16 DEF RequestCheckpoint, Query, NextPage, collectorVars, disk
  <2>2. (Alive' <=> Alive) /\ (Unknown => Unknown') /\ mem'.offset = mem.offset
    BY <2>1 DEF Alive, Unknown
  <2> QED BY <2>1, <2>2, LogFrame
<1> QED
  BY <1>2, <1>3, <1>4, <1>5, <1>6, <1>7, <1>8, <1>9, <1>10, <1>11, <1>12, <1>13, <1>14, <1>15, <1>16
     DEF Step, CollectorNext

\* A page holds rows of the index.
LEMMA PageRows ==
  ASSUME Types, NEW asOf, NEW from
  PROVE  Range(PageAt(asOf, from)) \subseteq Range(index)
<1> DEFINE places == {n \in DOMAIN index : index[n].seq <= asOf /\ index[n].seq > from}
           rows == Picked(index, places)
           k == IF Len(rows) < PageCells THEN Len(rows) ELSE PageCells
           page == SubSeq(rows, 1, k)
<1>1. index \in Seq(IndexRows) /\ places \in SUBSET DOMAIN index /\ PageCells \in Nat
  BY LimitsPositive DEF Types
<1>2. rows \in Seq(IndexRows) /\ Chosen(rows, index, places)
  BY <1>1, PickedProperties
<1>3. PageAt(asOf, from) = page
  BY DEF PageAt, Rows
<1> HIDE DEF places, rows
<1>4. k \in Nat /\ k <= Len(rows)
  BY <1>1, <1>2, LenProperties
<1> HIDE DEF k
<1>5. page \in Seq(IndexRows) /\ Len(page) = k /\ \A n \in 1..k : page[n] = rows[n]
  BY <1>2, <1>4, PrefixOf
<1>6. DOMAIN page = 1..k /\ \A n \in 1..k : n \in 1..Len(rows)
  BY <1>2, <1>4, <1>5, LenProperties
<1> HIDE DEF page
<1>7. \A n \in 1..Len(rows) : \E m \in places : rows[n] = index[m]
  BY <1>2 DEF Chosen
<1>8. \A n \in DOMAIN page : \E m \in DOMAIN index : page[n] = index[m]
  BY <1>1, <1>5, <1>6, <1>7
<1> QED BY <1>3, <1>8 DEF Range

\* What was shown stays where it is.
LEMMA ShownStep ==
  ASSUME NoTornAppend, Types, Stages, LogInv, ShownInv, LogInv', Types', Step
  PROVE  ShownInv'
<1>0. /\ mem.offset \in Nat /\ stateFile.offset \in Nat /\ Len(archiveLog) \in Nat
      /\ mem'.offset \in Nat /\ stateFile'.offset \in Nat /\ Len(archiveLog') \in Nat
      /\ archiveLog \in Seq(Lines) /\ index \in Seq(IndexRows) /\ pub \in PubStates
  BY StateFields, LenProperties DEF Types
<1>1. /\ stateFile.offset <= Len(archiveLog) /\ (Alive => mem.offset <= stateFile.offset)
      /\ ~Alive => pub.pc = "ended"
  BY DEF LogInv, Stages
<1> DEFINE top == IF Alive THEN mem.offset ELSE stateFile.offset
           topN == IF Alive' THEN mem'.offset ELSE stateFile'.offset
<1>2. \A r \in reader.shown : /\ r.offset \in Nat /\ r.offset < top
                              /\ archiveLog[r.offset + 1].id = r.id /\ archiveLog[r.offset + 1].seq = r.seq
  BY DEF ShownInv
<1>3. top \in Nat /\ top <= Len(archiveLog)
  BY <1>0, <1>1
<1>4. ASSUME reader' = reader, topN \in Nat, top <= topN, \A n \in 1..top : archiveLog'[n] = archiveLog[n]
      PROVE  ShownInv'
  <2> HIDE DEF top, topN
  <2>1. ASSUME NEW r \in reader.shown
        PROVE  /\ r.offset \in Nat /\ r.offset < topN
               /\ archiveLog'[r.offset + 1].id = r.id /\ archiveLog'[r.offset + 1].seq = r.seq
    <3>1. r.offset \in Nat /\ r.offset < top /\ r.offset + 1 \in 1..top /\ top \in Nat
      BY <1>2, <1>3
    <3>2. archiveLog'[r.offset + 1] = archiveLog[r.offset + 1]
      BY <1>4, <3>1
    <3>3. r.offset < topN
      BY <1>4, <3>1
    <3> QED BY <1>2, <3>1, <3>2, <3>3
  <2> QED BY <1>4, <2>1 DEF ShownInv, topN
<1>5. CASE CollectorStart
  <2>1. /\ \A n \in 1..stateFile.offset : archiveLog'[n] = archiveLog[n]
        /\ mem'.offset = stateFile.offset /\ proc = "down" /\ proc' = "serving" /\ reader' = reader
    BY <1>1, <1>5, StartEffect DEF CollectorStart
  <2>2. top = stateFile.offset /\ topN = stateFile.offset
    BY <2>1 DEF Alive
  <2> QED BY <1>0, <1>4, <2>1, <2>2
<1>6. CASE MarkClean
  <2>1. UNCHANGED <<archiveLog, reader>> /\ proc = "joining" /\ proc' = "marked"
    BY <1>6 DEF MarkClean
  <2>2. mem'.offset = mem.offset
    BY <1>6 DEF MarkClean, Types, State
  <2>3. top = mem.offset /\ topN = mem.offset
    BY <2>1, <2>2 DEF Alive
  <2> QED BY <1>0, <1>4, <2>1, <2>3
<1>7. CASE Exit \/ CollectorCrash
  <2>1. Alive /\ ~Alive' /\ archiveLog' = archiveLog /\ stateFile' = stateFile /\ reader' = reader
    BY <1>7, GoneEffect
  <2> QED BY <1>0, <1>1, <1>4, <2>1
<1>8. CASE AppendLines
  <2>1. /\ \A n \in 1..Len(archiveLog) : archiveLog'[n] = archiveLog[n]
        /\ UNCHANGED <<proc, mem, stateFile, reader>>
    BY <1>8, AppendEffect DEF AppendLines
  <2>2. topN = top
    BY <2>1 DEF Alive
  <2>3. \A n \in 1..top : archiveLog'[n] = archiveLog[n]
    BY <1>0, <1>3, <2>1
  <2> HIDE DEF top, topN
  <2> QED BY <1>3, <1>4, <2>1, <2>2, <2>3
<1>9. ASSUME UNCHANGED <<archiveLog, reader>>, Alive' <=> Alive, mem.offset <= mem'.offset,
             ~Alive => stateFile' = stateFile
      PROVE  ShownInv'
  <2>1. topN \in Nat /\ top <= topN
    BY <1>0, <1>9
  <2> QED BY <1>4, <1>9, <2>1
<1>10. ASSUME NEW o \in Observations, Refuse(o) \/ Quarantine(o) \/ Admit(o) PROVE ShownInv'
  <2>1. UNCHANGED <<archiveLog, reader, proc, stateFile>>
    BY <1>10 DEF Refuse, Quarantine, Admit, disk
  <2>2. MemKept
    BY <1>10, RefuseEffect, QuarantineEffect, AdmitEffect
  <2> QED BY <1>0, <1>9, <2>1, <2>2 DEF Alive, MemKept
<1>11. ASSUME NEW desired \in Wanted, SetPolicy(desired) PROVE ShownInv'
  <2>1. /\ UNCHANGED <<archiveLog, reader, stateFile, proc>> /\ mem'.offset = mem.offset
    BY <1>11 DEF SetPolicy, Types, State
  <2> QED BY <1>0, <1>9, <2>1 DEF Alive
<1>12. CASE TakeBatch
  <2>1. PICK k \in 1..Len(queue) : \E t \in 0..k : Taking(k, t)
    BY <1>12, TakeBatchEffect
  <2>2. mem'.offset = mem.offset /\ UNCHANGED <<archiveLog, reader, proc, stateFile>>
    BY <1>12, <2>1 DEF Taking, TakeBatch, disk
  <2> QED BY <1>0, <1>9, <2>2 DEF Alive
<1>13. CASE AppendFails
  <2>1. UNCHANGED <<archiveLog, reader, proc>> /\ mem'.offset = mem.offset /\ pub.pc = "append"
    BY <1>13, AppendFailsEffect DEF AppendFails
  <2> QED BY <1>0, <1>1, <1>9, <2>1 DEF Alive
<1>14. CASE WriteWatermark
  <2>1. UNCHANGED <<archiveLog, reader, proc, mem>> /\ pub.pc = "watermark"
    BY <1>14 DEF WriteWatermark
  <2> QED BY <1>0, <1>1, <1>9, <2>1 DEF Alive
<1>15. CASE WatermarkFails
  <2>1. UNCHANGED <<archiveLog, reader, proc>> /\ pub.pc = "watermark" /\ mem'.offset = mem.offset
    BY <1>15 DEF WatermarkFails, Types, State
  <2> QED BY <1>0, <1>1, <1>9, <2>1 DEF Alive
<1>16. CASE Install
  <2>1. UNCHANGED <<archiveLog, reader, proc, stateFile>> /\ mem'.offset = pub.pending.offset /\ pub.pc = "install"
    BY <1>16, InstallEffect DEF Install, disk
  <2>2. pub.pending.offset = Len(archiveLog)
    BY <2>1 DEF LogInv
  <2>3. mem.offset <= mem'.offset
    BY <1>0, <1>1, <2>1, <2>2
  <2> QED BY <1>9, <2>1, <2>3 DEF Alive
<1>17. CASE PersistForWaiter
  <2>1. UNCHANGED <<archiveLog, reader, proc, mem>> /\ pub.pc = "wait"
    BY <1>17 DEF PersistForWaiter
  <2> QED BY <1>0, <1>1, <1>9, <2>1 DEF Alive
<1>18. CASE Shutdown \/ PublicationEnds \/ RequestCheckpoint \/ UNCHANGED collectorVars
  <2>1. UNCHANGED <<archiveLog, reader, mem, stateFile>> /\ (Alive' <=> Alive)
    BY <1>18 DEF Shutdown, PublicationEnds, RequestCheckpoint, collectorVars, disk, Alive
  <2> QED BY <1>0, <1>9, <2>1
<1>19. CASE Query \/ NextPage
  <2>1. Alive /\ UNCHANGED <<archiveLog, mem, index, stateFile, proc>>
    BY <1>19 DEF Query, NextPage, disk
  <2>2. PICK asOf, from : Show(asOf, from)
    BY <1>19 DEF Query, NextPage
  <2>3. reader'.shown = reader.shown \cup Range(PageAt(asOf, from))
    BY <2>2 DEF Show
  <2>4. \A r \in Range(index) : /\ r.offset \in Nat /\ r.offset < mem.offset
                                /\ archiveLog[r.offset + 1].id = r.id /\ archiveLog[r.offset + 1].seq = r.seq
    <3>1. DOMAIN index = 1..mem.offset
      BY <1>0, <2>1, LenProperties DEF LogInv
    <3>2. ASSUME NEW n \in 1..mem.offset
          PROVE  /\ index[n].offset \in Nat /\ index[n].offset < mem.offset
                 /\ archiveLog[index[n].offset + 1].id = index[n].id /\ archiveLog[index[n].offset + 1].seq = index[n].seq
      <4>1. index[n].id = archiveLog[n].id /\ index[n].seq = archiveLog[n].seq /\ index[n].offset = n - 1
        BY <2>1 DEF LogInv
      <4>2. n - 1 \in Nat /\ n - 1 < mem.offset /\ n - 1 + 1 = n
        BY <1>0
      <4> QED BY <4>1, <4>2
    <3> QED BY <3>1, <3>2 DEF Range
  <2>5. \A r \in reader'.shown : /\ r.offset \in Nat /\ r.offset < mem.offset
                                 /\ archiveLog[r.offset + 1].id = r.id /\ archiveLog[r.offset + 1].seq = r.seq
    BY <1>2, <2>1, <2>3, <2>4, PageRows
  <2>6. Alive'
    BY <2>1 DEF Alive
  <2> QED BY <2>1, <2>5, <2>6 DEF ShownInv
<1> QED
  BY <1>5, <1>6, <1>7, <1>8, <1>10, <1>11, <1>12, <1>13, <1>14, <1>15, <1>16, <1>17, <1>18, <1>19
     DEF Step, CollectorNext

\* Steps that leave identities, queue, staged lines and log alone.
LEMMA IdFrame ==
  ASSUME IdInv, UNCHANGED <<archiveLog, queue>>, DOMAIN identities' = DOMAIN identities,
         Alive' => Alive, pub'.pc = "append" => pub' = pub
  PROVE  IdInv'
<1>1. Lasting' = Lasting /\ OnTheWay' = OnTheWay
  BY DEF Lasting, OnTheWay
<1> QED BY <1>1 DEF IdInv

\* What a queued unit and its displaced one leave of the known identities.
LEMMA QueueIds ==
  ASSUME Types, IdInv, Types', Alive, NEW ids, NEW dropped, NEW item,
         Queued(queue', ids, dropped, item)
  PROVE  /\ DOMAIN ids \subseteq DOMAIN identities
         /\ \A n \in Lasting : archiveLog[n].id \in DOMAIN ids
         /\ \A n \in OnTheWay' : n # Len(queue') =>
               /\ queue'[n].id \in DOMAIN ids
               /\ \A m \in OnTheWay' : m # n /\ m # Len(queue') => queue'[m].id # queue'[n].id
               /\ \A m \in Lasting : archiveLog[m].id # queue'[n].id
         /\ pub.pc = "append" => \A n \in DOMAIN pub.lines :
               /\ pub.lines[n].id \in DOMAIN ids
               /\ \A m \in OnTheWay' : m # Len(queue') => queue'[m].id # pub.lines[n].id
<1> DEFINE k == Len(queue')
<1>1. PICK lost \in SUBSET OnTheWay :
          /\ DOMAIN ids = DOMAIN identities \ {queue[v].id : v \in lost}
          /\ \E at \in [1..(k - 1) -> DOMAIN queue \ lost] :
                /\ \A n \in 1..(k - 1) : queue'[n] = queue[at[n]]
                /\ \A m, n \in 1..(k - 1) : m # n => at[m] # at[n]
  BY DEF Queued
<1>2. PICK at \in [1..(k - 1) -> DOMAIN queue \ lost] :
                /\ \A n \in 1..(k - 1) : queue'[n] = queue[at[n]]
                /\ \A m, n \in 1..(k - 1) : m # n => at[m] # at[n]
  BY <1>1
<1>3. DOMAIN queue' = 1..k /\ k \in Nat
  BY LenProperties DEF Types
<1>4. \A n \in OnTheWay' : n # k =>
        /\ n \in 1..(k - 1) /\ at[n] \in OnTheWay /\ at[n] \notin lost /\ queue'[n] = queue[at[n]]
  <2> SUFFICES ASSUME NEW n \in OnTheWay', n # k
               PROVE  n \in 1..(k - 1) /\ at[n] \in OnTheWay /\ at[n] \notin lost /\ queue'[n] = queue[at[n]]
    OBVIOUS
  <2>1. n \in 1..k /\ ~queue'[n].quarantine
    BY <1>3 DEF OnTheWay
  <2> HIDE DEF k
  <2>2. n \in 1..(k - 1)
    BY ONLY <1>3, <2>1, n # k
  <2>3. queue'[n] = queue[at[n]] /\ at[n] \in DOMAIN queue \ lost
    BY <1>2, <2>2
  <2> QED BY <2>1, <2>2, <2>3 DEF OnTheWay
<1> HIDE DEF k
<1>5. /\ \A n \in Lasting : archiveLog[n].id \in DOMAIN identities
      /\ \A n \in OnTheWay :
          /\ queue[n].id \in DOMAIN identities
          /\ \A m \in OnTheWay : m # n => queue[m].id # queue[n].id
          /\ \A m \in Lasting : archiveLog[m].id # queue[n].id
      /\ pub.pc = "append" => \A n \in DOMAIN pub.lines :
            /\ pub.lines[n].id \in DOMAIN identities
            /\ \A m \in OnTheWay : queue[m].id # pub.lines[n].id
  BY DEF IdInv
<1>6. \A n \in Lasting : archiveLog[n].id \in DOMAIN ids
  BY <1>1, <1>5
<1>7. \A n \in OnTheWay' : n # k =>
         /\ queue'[n].id \in DOMAIN ids
         /\ \A m \in Lasting : archiveLog[m].id # queue'[n].id
  BY <1>1, <1>4, <1>5
<1>8. \A m, n \in OnTheWay' : n # k /\ m # k /\ m # n => queue'[m].id # queue'[n].id
  <2> SUFFICES ASSUME NEW m \in OnTheWay', NEW n \in OnTheWay', n # k, m # k, m # n
               PROVE  queue'[m].id # queue'[n].id
    OBVIOUS
  <2>1. at[m] # at[n] /\ at[m] \in OnTheWay /\ at[n] \in OnTheWay
    BY <1>2, <1>4
  <2> QED BY <1>4, <1>5, <2>1
<1>9. pub.pc = "append" => \A n \in DOMAIN pub.lines :
         /\ pub.lines[n].id \in DOMAIN ids
         /\ \A m \in OnTheWay' : m # k => queue'[m].id # pub.lines[n].id
  BY <1>1, <1>4, <1>5
<1>10. DOMAIN ids \subseteq DOMAIN identities
  BY <1>1
<1> QED BY <1>6, <1>7, <1>8, <1>9, <1>10 DEF k

\* No identity is taken twice.
LEMMA IdStep ==
  ASSUME NoTornAppend, Types, Stages, LogInv, IdInv, Types', Step
  PROVE  IdInv'
<1>0. /\ \A m, n \in Lasting : m # n => archiveLog[m].id # archiveLog[n].id
      /\ Alive => \A n \in Lasting : archiveLog[n].id \in DOMAIN identities
      /\ \A n \in OnTheWay :
            /\ queue[n].id \in DOMAIN identities
            /\ \A m \in OnTheWay : m # n => queue[m].id # queue[n].id
            /\ \A m \in Lasting : archiveLog[m].id # queue[n].id
      /\ pub.pc = "append" => \A n \in DOMAIN pub.lines :
            /\ pub.lines[n].id \in DOMAIN identities
            /\ \A m \in DOMAIN pub.lines : m # n => pub.lines[m].id # pub.lines[n].id
            /\ \A m \in Lasting : archiveLog[m].id # pub.lines[n].id
            /\ \A m \in OnTheWay : queue[m].id # pub.lines[n].id
  BY DEF IdInv
<1>1. /\ DOMAIN archiveLog = 1..Len(archiveLog) /\ Len(archiveLog) \in Nat /\ DOMAIN archiveLog' = 1..Len(archiveLog') /\ Len(archiveLog') \in Nat
      /\ DOMAIN queue = 1..Len(queue) /\ Len(queue) \in Nat
      /\ DOMAIN queue' = 1..Len(queue') /\ Len(queue') \in Nat
      /\ stateFile.offset \in Nat /\ stateFile.offset <= Len(archiveLog)
      /\ ~Alive => pub.pc = "ended"
  BY LenProperties, StateFields DEF Types, LogInv, Stages
<1>2. CASE CollectorStart
  <2>1. /\ Len(archiveLog') = stateFile.offset /\ \A n \in 1..stateFile.offset : archiveLog'[n] = archiveLog[n]
        /\ DOMAIN identities' = {archiveLog'[n].id : n \in Lasting'}
    BY <1>1, <1>2, StartEffect
  <2>2. queue' = <<>> /\ pub'.pc = "wait"
    BY <1>2, IdleTyped DEF CollectorStart
  <2>3. \A n \in Lasting' : n \in Lasting /\ archiveLog'[n] = archiveLog[n]
    BY <1>1, <2>1 DEF Lasting
  <2>4. \A m, n \in Lasting' : m # n => archiveLog'[m].id # archiveLog'[n].id
    BY <1>0, <2>3
  <2>5. \A n \in Lasting' : archiveLog'[n].id \in DOMAIN identities'
    BY <2>1
  <2>6. OnTheWay' = {}
    BY <2>2 DEF OnTheWay
  <2> QED BY <2>2, <2>4, <2>5, <2>6 DEF IdInv
<1>3. CASE Exit \/ CollectorCrash
  <2>1. ~Alive' /\ archiveLog' = archiveLog /\ queue' = <<>> /\ pub'.pc = "ended"
    BY <1>3, GoneEffect
  <2>2. OnTheWay' = {} /\ Lasting' = Lasting
    BY <2>1 DEF OnTheWay, Lasting
  <2> QED BY <1>0, <2>1, <2>2 DEF IdInv
<1>4. ASSUME NEW o \in Observations, Refuse(o) PROVE IdInv'
  <2>1. UNCHANGED <<archiveLog, queue, identities, proc, pub>>
    BY <1>4 DEF Refuse, disk
  <2> QED BY <2>1, IdFrame DEF Alive
<1>5. ASSUME NEW o \in Observations, Quarantine(o) PROVE IdInv'
  <2>1. PICK dropped \in Nat : Queued(queue', identities', dropped, Item(o, TRUE))
    BY <1>5, QuarantineEffect
  <2>2. Alive /\ UNCHANGED <<archiveLog, pub, proc>>
    BY <1>5 DEF Quarantine, disk
  <2> DEFINE ids == identities'
             item == Item(o, TRUE)
  <2>3. Queued(queue', ids, dropped, item)
    BY <2>1
  <2> HIDE DEF ids, item
  <2>4. /\ \A n \in Lasting : archiveLog[n].id \in DOMAIN ids
        /\ \A n \in OnTheWay' : n # Len(queue') =>
               /\ queue'[n].id \in DOMAIN ids
               /\ \A m \in OnTheWay' : m # n /\ m # Len(queue') => queue'[m].id # queue'[n].id
               /\ \A m \in Lasting : archiveLog[m].id # queue'[n].id
        /\ pub.pc = "append" => \A n \in DOMAIN pub.lines :
               /\ pub.lines[n].id \in DOMAIN ids
               /\ \A m \in OnTheWay' : m # Len(queue') => queue'[m].id # pub.lines[n].id
    BY <2>2, <2>3, QueueIds
  <2>5. \A n \in OnTheWay' : n # Len(queue')
    <3>1. queue'[Len(queue')] = item /\ item.quarantine = TRUE
      BY <2>3, ItemTyped DEF Queued, item
    <3> QED BY <3>1 DEF OnTheWay
  <2>6. Lasting' = Lasting
    BY <2>2 DEF Lasting
  <2>7. /\ \A n \in OnTheWay' :
               /\ queue'[n].id \in DOMAIN ids
               /\ \A m \in OnTheWay' : m # n => queue'[m].id # queue'[n].id
               /\ \A m \in Lasting : archiveLog[m].id # queue'[n].id
        /\ pub.pc = "append" => \A n \in DOMAIN pub.lines :
               /\ pub.lines[n].id \in DOMAIN ids
               /\ \A m \in OnTheWay' : queue'[m].id # pub.lines[n].id
    BY <2>4, <2>5
  <2> QED BY <1>0, <2>2, <2>4, <2>6, <2>7 DEF IdInv, ids
<1>6. ASSUME NEW o \in Observations, Admit(o) PROVE IdInv'
  <2>1. PICK dropped \in Nat : \E ids :
            /\ Queued(queue', ids, dropped, Item(o, FALSE))
            /\ DOMAIN identities' = DOMAIN ids \cup {o.id}
    BY <1>6, AdmitEffect
  <2>2. PICK ids : /\ Queued(queue', ids, dropped, Item(o, FALSE))
                   /\ DOMAIN identities' = DOMAIN ids \cup {o.id}
    BY <2>1
  <2>3. Alive /\ UNCHANGED <<archiveLog, pub, proc>> /\ o.id \notin DOMAIN identities
    BY <1>6 DEF Admit, disk, Verdict
  <2> DEFINE item == Item(o, FALSE)
  <2>4. Queued(queue', ids, dropped, item)
    BY <2>2
  <2>5. item.id = o.id
    BY ItemTyped
  <2> HIDE DEF item
  <2>6. /\ DOMAIN ids \subseteq DOMAIN identities
        /\ \A n \in Lasting : archiveLog[n].id \in DOMAIN ids
        /\ \A n \in OnTheWay' : n # Len(queue') =>
               /\ queue'[n].id \in DOMAIN ids
               /\ \A m \in OnTheWay' : m # n /\ m # Len(queue') => queue'[m].id # queue'[n].id
               /\ \A m \in Lasting : archiveLog[m].id # queue'[n].id
        /\ pub.pc = "append" => \A n \in DOMAIN pub.lines :
               /\ pub.lines[n].id \in DOMAIN ids
               /\ \A m \in OnTheWay' : m # Len(queue') => queue'[m].id # pub.lines[n].id
    BY <2>3, <2>4, QueueIds
  <2>7. queue'[Len(queue')].id = o.id /\ o.id \notin DOMAIN ids
    BY <2>3, <2>4, <2>5, <2>6 DEF Queued
  <2>8. Lasting' = Lasting
    BY <2>3 DEF Lasting
  <2>9. \A n \in OnTheWay' :
               /\ queue'[n].id \in DOMAIN identities'
               /\ \A m \in OnTheWay' : m # n => queue'[m].id # queue'[n].id
               /\ \A m \in Lasting : archiveLog[m].id # queue'[n].id
    BY <2>2, <2>6, <2>7
  <2>10. pub.pc = "append" => \A n \in DOMAIN pub.lines :
               /\ pub.lines[n].id \in DOMAIN identities'
               /\ \A m \in OnTheWay' : queue'[m].id # pub.lines[n].id
    BY <2>2, <2>6, <2>7
  <2>11. \A n \in Lasting : archiveLog[n].id \in DOMAIN identities'
    BY <2>2, <2>6
  <2> QED BY <1>0, <2>3, <2>8, <2>9, <2>10, <2>11 DEF IdInv
<1>7. CASE TakeBatch
  <2>0. PICK k \in 1..Len(queue) : \E t \in 0..k : Taking(k, t)
    BY <1>7, TakeBatchEffect
  <2>1. PICK t \in 0..k : Taking(k, t)
    BY <2>0
  <2>2. /\ Len(queue') = Len(queue) - k /\ \A n \in 1..Len(queue') : queue'[n] = queue[k + n]
        /\ Numbered(pub'.lines, queue, LiveOf(0, t))
        /\ DOMAIN identities' = DOMAIN identities \ {queue[n].id : n \in LiveOf(t, k)}
        /\ pub'.lines \in Seq(Lines)
    BY <2>1, PubTyped DEF Taking, PubStates
  <2> DEFINE lines == pub'.lines
  <2>3. PICK at \in [1..Len(lines) -> LiveOf(0, t)] :
          /\ \A n \in 1..Len(lines) : lines[n].id = queue[at[n]].id
          /\ \A m, n \in 1..Len(lines) : m # n => at[m] # at[n]
    BY <2>2 DEF Numbered
  <2>4. DOMAIN lines = 1..Len(lines)
    BY <2>2, LenProperties
  <2>5. UNCHANGED <<archiveLog, proc>> /\ pub.pc = "wait" /\ Alive
    BY <1>1, <1>7 DEF TakeBatch, disk
  <2>6. Lasting' = Lasting
    BY <2>5 DEF Lasting
  <2>7. \A n \in LiveOf(0, t) : n \in OnTheWay /\ n <= t
    BY <1>1 DEF LiveOf, OnTheWay
  <2>8. \A n \in LiveOf(t, k) : n \in OnTheWay /\ n > t /\ n <= k
    BY <1>1 DEF LiveOf, OnTheWay
  <2>9. \A n \in OnTheWay' : k + n \in OnTheWay /\ k + n > k /\ n \in Nat /\ queue'[n] = queue[k + n]
    BY <1>1, <2>2 DEF OnTheWay
  <2>10. \A n \in OnTheWay' :
             /\ queue'[n].id \in DOMAIN identities'
             /\ \A m \in Lasting : archiveLog[m].id # queue'[n].id
    <3> SUFFICES ASSUME NEW n \in OnTheWay'
                 PROVE  /\ queue'[n].id \in DOMAIN identities'
                        /\ \A m \in Lasting : archiveLog[m].id # queue'[n].id
      OBVIOUS
    <3>1. \A m \in LiveOf(t, k) : m # k + n /\ m \in OnTheWay
      BY <2>8, <2>9
    <3> QED BY <1>0, <2>2, <2>9, <3>1
  <2>11. \A m, n \in OnTheWay' : m # n => queue'[m].id # queue'[n].id
    <3> SUFFICES ASSUME NEW m \in OnTheWay', NEW n \in OnTheWay', m # n
                 PROVE  queue'[m].id # queue'[n].id
      OBVIOUS
    <3>1. k + m # k + n /\ k + m \in OnTheWay /\ k + n \in OnTheWay
      BY <2>9
    <3> QED BY <1>0, <2>9, <3>1
  <2> HIDE DEF lines
  <2>12. ASSUME NEW n \in DOMAIN lines
         PROVE  /\ lines[n].id \in DOMAIN identities'
                /\ \A m \in DOMAIN lines : m # n => lines[m].id # lines[n].id
                /\ \A m \in Lasting : archiveLog[m].id # lines[n].id
                /\ \A m \in OnTheWay' : queue'[m].id # lines[n].id
    <3>1. at[n] \in OnTheWay /\ at[n] <= t /\ lines[n].id = queue[at[n]].id /\ at[n] \in Nat
      BY <1>1, <2>3, <2>4, <2>7 DEF OnTheWay
    <3>2. \A m \in LiveOf(t, k) : m # at[n] /\ m \in OnTheWay
      BY <2>8, <3>1
    <3>3. lines[n].id \in DOMAIN identities'
      BY <1>0, <2>2, <3>1, <3>2
    <3>4. \A m \in DOMAIN lines : m # n => at[m] # at[n] /\ at[m] \in OnTheWay
      BY <2>3, <2>4, <2>7
    <3>5. \A m \in DOMAIN lines : m # n => lines[m].id # lines[n].id
      BY <1>0, <2>3, <2>4, <3>1, <3>4
    <3>6. \A m \in OnTheWay' : k + m # at[n]
      BY <2>9, <3>1
    <3>7. \A m \in OnTheWay' : queue'[m].id # lines[n].id
      BY <1>0, <2>9, <3>1, <3>6
    <3> QED BY <1>0, <3>1, <3>3, <3>5, <3>7
  <2>13. \A n \in Lasting : archiveLog[n].id \in DOMAIN identities'
    BY <1>0, <2>2, <2>5, <2>8
  <2> QED BY <1>0, <2>5, <2>6, <2>10, <2>11, <2>12, <2>13 DEF IdInv, lines
<1>8. CASE AppendLines
  <2>1. /\ Len(archiveLog') = Len(archiveLog) + Len(pub.lines)
        /\ \A n \in 1..Len(archiveLog) : archiveLog'[n] = archiveLog[n]
        /\ \A n \in 1..Len(pub.lines) : archiveLog'[Len(archiveLog) + n] = pub.lines[n]
        /\ pub'.pc = "watermark" /\ pub'.lines = pub.lines
    BY <1>8, AppendEffect
  <2>2. pub.pc = "append" /\ UNCHANGED <<proc, queue, identities>> /\ Alive
    BY <1>1, <1>8 DEF AppendLines
  <2>3. DOMAIN pub.lines = 1..Len(pub.lines) /\ Len(pub.lines) \in Nat
    BY PubTyped DEF Types
  <2>4. \A n \in Lasting' : \/ n \in Lasting /\ archiveLog'[n] = archiveLog[n] /\ n \in 1..Len(archiveLog)
                            \/ \E m \in DOMAIN pub.lines : n = Len(archiveLog) + m /\ archiveLog'[n] = pub.lines[m]
    <3> SUFFICES ASSUME NEW n \in Lasting'
                 PROVE  \/ n \in Lasting /\ archiveLog'[n] = archiveLog[n] /\ n \in 1..Len(archiveLog)
                        \/ \E m \in DOMAIN pub.lines : n = Len(archiveLog) + m /\ archiveLog'[n] = pub.lines[m]
      OBVIOUS
    <3>1. n \in 1..(Len(archiveLog) + Len(pub.lines)) /\ ~archiveLog'[n].loss
      BY <1>1, <2>1 DEF Lasting
    <3>2. CASE n <= Len(archiveLog)
      <4>1. n \in 1..Len(archiveLog)
        BY <1>1, <3>1, <3>2
      <4> QED BY <1>1, <2>1, <3>1, <4>1 DEF Lasting
    <3>3. CASE n > Len(archiveLog)
      <4>1. n - Len(archiveLog) \in 1..Len(pub.lines) /\ n = Len(archiveLog) + (n - Len(archiveLog))
        BY <1>1, <2>3, <3>1, <3>3
      <4> QED BY <2>1, <2>3, <4>1
    <3> QED BY <1>1, <2>3, <3>1, <3>2, <3>3
  <2>5. \A m, n \in Lasting' : m # n => archiveLog'[m].id # archiveLog'[n].id
    <3> SUFFICES ASSUME NEW m \in Lasting', NEW n \in Lasting', m # n
                 PROVE  archiveLog'[m].id # archiveLog'[n].id
      OBVIOUS
    <3>1. CASE m \in Lasting /\ archiveLog'[m] = archiveLog[m]
      BY <1>0, <2>2, <2>4, <3>1
    <3>2. CASE \E i \in DOMAIN pub.lines : m = Len(archiveLog) + i /\ archiveLog'[m] = pub.lines[i]
      <4>1. PICK i \in DOMAIN pub.lines : m = Len(archiveLog) + i /\ archiveLog'[m] = pub.lines[i]
        BY <3>2
      <4>2. CASE n \in Lasting /\ archiveLog'[n] = archiveLog[n]
        BY <1>0, <2>2, <4>1, <4>2
      <4>3. CASE \E j \in DOMAIN pub.lines : n = Len(archiveLog) + j /\ archiveLog'[n] = pub.lines[j]
        <5>1. PICK j \in DOMAIN pub.lines : n = Len(archiveLog) + j /\ archiveLog'[n] = pub.lines[j]
          BY <4>3
        <5>2. i # j
          BY <4>1, <5>1
        <5> QED BY <1>0, <2>2, <4>1, <5>1, <5>2
      <4> QED BY <2>4, <4>2, <4>3
    <3> QED BY <2>4, <3>1, <3>2
  <2>6. \A n \in Lasting' : archiveLog'[n].id \in DOMAIN identities
    BY <1>0, <2>2, <2>4
  <2>7. OnTheWay' = OnTheWay
    BY <2>2 DEF OnTheWay
  <2>8. \A n \in OnTheWay : \A m \in Lasting' : archiveLog'[m].id # queue[n].id
    BY <1>0, <2>2, <2>4
  <2> QED BY <1>0, <2>1, <2>2, <2>5, <2>6, <2>7, <2>8 DEF IdInv
<1>9. CASE AppendFails
  <2>1. /\ archiveLog' = archiveLog
        /\ DOMAIN identities' = DOMAIN identities \ {pub.lines[n].id : n \in DOMAIN pub.lines}
    BY <1>9, AppendFailsEffect
  <2>2. pub' = Idle /\ pub'.pc = "wait" /\ pub.pc = "append" /\ UNCHANGED <<proc, queue>> /\ Alive
    BY <1>1, <1>9, IdleTyped DEF AppendFails
  <2>3. Lasting' = Lasting /\ OnTheWay' = OnTheWay
    BY <2>1, <2>2 DEF Lasting, OnTheWay
  <2>4. \A n \in Lasting : archiveLog[n].id \in DOMAIN identities'
    BY <1>0, <2>1, <2>2
  <2>5. \A n \in OnTheWay : queue[n].id \in DOMAIN identities'
    BY <1>0, <2>1, <2>2
  <2> QED BY <1>0, <2>1, <2>2, <2>3, <2>4, <2>5 DEF IdInv
<1>10. CASE Shutdown \/ MarkClean
  <2>1. UNCHANGED <<archiveLog, queue, identities, pub>> /\ Alive
    BY <1>10 DEF Shutdown, MarkClean, disk, Alive
  <2> QED BY <2>1, IdFrame
<1>11. CASE WriteWatermark \/ WatermarkFails \/ Install \/ PublicationEnds
  <2>1. UNCHANGED <<archiveLog, queue, identities, proc>>
    BY <1>11 DEF WriteWatermark, WatermarkFails, Install, PublicationEnds, disk
  <2>2. pub'.pc # "append"
    BY <1>11, IdleTyped DEF WriteWatermark, WatermarkFails, Install, PublicationEnds, Types, PubStates
  <2> QED BY <2>1, <2>2, IdFrame DEF Alive
<1>12. CASE PersistForWaiter \/ RequestCheckpoint \/ Query \/ NextPage \/ UNCHANGED collectorVars
  <2>1. UNCHANGED <<archiveLog, queue, identities, proc, pub>>
    BY <1>12 DEF PersistForWaiter, RequestCheckpoint, Query, NextPage, collectorVars, disk
  <2> QED BY <2>1, IdFrame DEF Alive
<1>13. ASSUME NEW desired \in Wanted, SetPolicy(desired) PROVE IdInv'
  <2>1. UNCHANGED <<archiveLog, queue, identities, proc, pub>>
    BY <1>13 DEF SetPolicy
  <2> QED BY <2>1, IdFrame DEF Alive
<1> QED
  BY <1>2, <1>3, <1>4, <1>5, <1>6, <1>7, <1>8, <1>9, <1>10, <1>11, <1>12, <1>13
     DEF Step, CollectorNext

----------------------------------------------------------------------------
(* The accounts                                                            *)

\* What is published lies below the watermark, and the log reaches it.
LEMMA DurableIs ==
  ASSUME Types, LogInv
  PROVE  Durable = {UnitAt(archiveLog, n) : n \in 1..stateFile.offset}
<1>1. archiveLog \in Seq(Lines) /\ stateFile.offset \in Nat /\ stateFile.offset <= Len(archiveLog)
  BY StateFields DEF Types, LogInv
<1> QED BY <1>1, UnitsBelow DEF Durable

\* The durable units after a step, one by one.
LEMMA DurableIsNext ==
  ASSUME Types', LogInv'
  PROVE  Durable' = {UnitAt(archiveLog', n) : n \in 1..stateFile'.offset}
<1>1. archiveLog' \in Seq(Lines) /\ stateFile'.offset \in Nat /\ stateFile'.offset <= Len(archiveLog')
  BY StateFields DEF Types, LogInv
<1> QED BY <1>1, UnitsBelow DEF Durable

\* A watermark that does not fall keeps what is below it.
LEMMA DurableKept ==
  ASSUME Types, LogInv, Types', LogInv', stateFile.offset <= stateFile'.offset,
         \A n \in 1..stateFile.offset : archiveLog'[n] = archiveLog[n]
  PROVE  Durable \subseteq Durable'
<1>1. stateFile.offset \in Nat /\ stateFile'.offset \in Nat
  BY StateFields DEF Types
<1>2. \A n \in 1..stateFile.offset : n \in 1..stateFile'.offset /\ UnitAt(archiveLog', n) = UnitAt(archiveLog, n)
  BY <1>1 DEF UnitAt
<1> QED BY <1>2, DurableIs, DurableIsNext

\* The units at some positions are no more than those positions.
LEMMA UnitsAtCounted ==
  ASSUME NEW cells, NEW T, IsFiniteSet(T)
  PROVE  /\ IsFiniteSet({UnitAt(cells, n) : n \in T})
         /\ Cardinality({UnitAt(cells, n) : n \in T}) <= Cardinality(T)
<1> DEFINE f == [n \in T |-> UnitAt(cells, n)]
           L == {UnitAt(cells, n) : n \in T}
<1>1. f \in Surjection(T, L)
  BY DEF Surjection
<1> HIDE DEF f, L
<1>2. IsFiniteSet(L) /\ Cardinality(L) <= Cardinality(T)
  BY <1>1, FS_Surjection
<1> QED BY <1>2 DEF L

\* A gap that closes or grows by what is counted stays within the account.
LEMMA WithinAccount ==
  ASSUME NEW A, NEW B, NEW L, IsFiniteSet(A), IsFiniteSet(L), B \subseteq A \cup L,
         NEW k \in Nat, Cardinality(L) <= k, NEW c \in Int, NEW d \in Int, c + k <= d,
         Cardinality(A) <= c
  PROVE  IsFiniteSet(B) /\ Cardinality(B) <= d
<1>1. /\ IsFiniteSet(B) /\ Cardinality(A) \in Nat /\ Cardinality(B) \in Nat
      /\ Cardinality(B) <= Cardinality(A) + k
  BY GapGrows
<1> QED BY <1>1

\* What is on its way, position by position.
LEMMA TravellingAt ==
  ASSUME NEW u
  PROVE  u \in Travelling <=> \/ \E n \in OnTheWay : u = UnitAt(queue, n)
                              \/ \E n \in DOMAIN pub.lines : u = UnitAt(pub.lines, n)
BY DEF Travelling, UnitsOf, UnitAt

\* The units on their way after a step, one by one.
LEMMA TravellingAtNext ==
  ASSUME NEW u
  PROVE  u \in Travelling' <=> \/ \E n \in OnTheWay' : u = UnitAt(queue', n)
                               \/ \E n \in DOMAIN pub'.lines : u = UnitAt(pub'.lines, n)
BY DEF Travelling, UnitsOf, UnitAt

\* A step that leaves the queue and the staged lines alone moves no unit.
LEMMA TravellingSame ==
  ASSUME queue' = queue, pub'.lines = pub.lines
  PROVE  Travelling' = Travelling
<1>1. OnTheWay' = OnTheWay
  BY DEF OnTheWay
<1>2. \A u : u \in Travelling' <=> u \in Travelling
  BY <1>1, TravellingAt, TravellingAtNext
<1> QED BY <1>2, Zenon DEF Travelling

\* A queued unit travels, and so does everything but the displaced one.
LEMMA QueueTravels ==
  ASSUME Types, Types', NEW ids, NEW dropped \in Nat, NEW item,
         Queued(queue', ids, dropped, item), pub'.lines = pub.lines
  PROVE  /\ \E L : /\ IsFiniteSet(L) /\ Cardinality(L) <= dropped
                   /\ Travelling \subseteq Travelling' \cup L
         /\ item.quarantine = FALSE => [id |-> item.id, body |-> item.body] \in Travelling'
<1> DEFINE k == Len(queue')
<1>1. PICK lost \in SUBSET OnTheWay :
          /\ IsFiniteSet(lost) /\ Cardinality(lost) = dropped
          /\ \E at \in [1..(k - 1) -> DOMAIN queue \ lost] :
                /\ \A n \in 1..(k - 1) : queue'[n] = queue[at[n]]
                /\ \A n \in DOMAIN queue \ lost : \E j \in 1..(k - 1) : at[j] = n
  BY DEF Queued
<1>2. PICK at \in [1..(k - 1) -> DOMAIN queue \ lost] :
                /\ \A n \in 1..(k - 1) : queue'[n] = queue[at[n]]
                /\ \A n \in DOMAIN queue \ lost : \E j \in 1..(k - 1) : at[j] = n
  BY <1>1
<1>3. DOMAIN queue' = 1..k /\ k \in Nat /\ k >= 1 /\ queue'[k] = item
  BY LenProperties, LimitsPositive DEF Types, Queued
<1> HIDE DEF k
<1> DEFINE L == {UnitAt(queue, v) : v \in lost}
<1>4. IsFiniteSet(L) /\ Cardinality(L) <= dropped
  BY <1>1, UnitsAtCounted
<1>5. ASSUME NEW n \in OnTheWay, n \notin lost PROVE UnitAt(queue, n) \in Travelling'
  <2>1. n \in DOMAIN queue \ lost /\ ~queue[n].quarantine
    BY <1>5 DEF OnTheWay
  <2>2. PICK j \in 1..(k - 1) : at[j] = n
    BY <1>2, <2>1
  <2>3. j \in DOMAIN queue' /\ queue'[j] = queue[n]
    BY <1>2, <1>3, <2>2
  <2>4. j \in OnTheWay' /\ UnitAt(queue', j) = UnitAt(queue, n)
    BY <2>1, <2>3 DEF OnTheWay, UnitAt
  <2> QED BY <2>4, TravellingAtNext
<1>6. \A n \in DOMAIN pub.lines : UnitAt(pub.lines, n) \in Travelling'
  BY TravellingAtNext
<1>7. ASSUME NEW u \in Travelling PROVE u \in Travelling' \cup L
  <2>1. CASE \E n \in OnTheWay : u = UnitAt(queue, n)
    BY <1>5, <2>1
  <2>2. CASE \E n \in DOMAIN pub.lines : u = UnitAt(pub.lines, n)
    BY <1>6, <2>2
  <2> QED BY <2>1, <2>2, TravellingAt
<1>8. ASSUME item.quarantine = FALSE PROVE [id |-> item.id, body |-> item.body] \in Travelling'
  <2>1. k \in OnTheWay'
    BY <1>3, <1>8 DEF OnTheWay
  <2>2. UnitAt(queue', k) = [id |-> item.id, body |-> item.body]
    BY <1>3 DEF UnitAt
  <2> QED BY <2>1, <2>2, TravellingAtNext
<1> HIDE DEF L
<1>9. Travelling \subseteq Travelling' \cup L
  BY <1>7
<1> QED BY <1>4, <1>8, <1>9

\* A batch loses at most what the capacity refuses.
LEMMA BatchTravels ==
  ASSUME Types, Types', Stages, TakeBatch, NEW k \in 1..Len(queue), NEW t \in 0..k, Taking(k, t)
  PROVE  \E L : /\ IsFiniteSet(L) /\ Cardinality(L) <= k - t
                /\ Travelling \subseteq Travelling' \cup L
<1> DEFINE lines == pub'.lines
           L == {UnitAt(queue, n) : n \in LiveOf(t, k)}
<1>1. PICK at \in [1..Len(lines) -> LiveOf(0, t)] :
          /\ \A n \in 1..Len(lines) : lines[n].id = queue[at[n]].id /\ lines[n].body = queue[at[n]].body
          /\ \A n \in LiveOf(0, t) : \E m \in 1..Len(lines) : at[m] = n
  BY DEF Taking, Numbered
<1>2. DOMAIN lines = 1..Len(lines)
  BY PubTyped DEF Types
<1>3. /\ DOMAIN queue = 1..Len(queue) /\ Len(queue) \in Nat /\ DOMAIN queue' = 1..Len(queue')
      /\ Len(queue') = Len(queue) - k /\ \A n \in 1..Len(queue') : queue'[n] = queue[k + n]
  BY LenProperties DEF Types, Taking
<1>4. pub.lines = <<>>
  BY DEF TakeBatch, Stages
<1>5. IsFiniteSet((t + 1)..k) /\ Cardinality((t + 1)..k) = k - t
  <2>1. t + 1 \in Int /\ k \in Int /\ t <= k
    OBVIOUS
  <2>2. /\ IsFiniteSet((t + 1)..k)
        /\ Cardinality((t + 1)..k) = IF t + 1 > k THEN 0 ELSE k - (t + 1) + 1
    BY <2>1, FS_Interval
  <2> QED BY <2>1, <2>2
<1>6. LiveOf(t, k) \subseteq (t + 1)..k
  BY DEF LiveOf
<1>7. IsFiniteSet(L) /\ Cardinality(L) <= k - t
  <2>1. IsFiniteSet(LiveOf(t, k)) /\ Cardinality(LiveOf(t, k)) <= k - t
    BY <1>5, <1>6, FS_Subset
  <2>2. IsFiniteSet(L) /\ Cardinality(L) <= Cardinality(LiveOf(t, k))
    BY <2>1, UnitsAtCounted
  <2>3. Cardinality(L) \in Nat /\ Cardinality(LiveOf(t, k)) \in Nat
    BY <2>1, <2>2, FS_CardinalityType
  <2> HIDE DEF L
  <2> QED BY <2>1, <2>2, <2>3
<1>8. ASSUME NEW n \in OnTheWay PROVE UnitAt(queue, n) \in Travelling' \cup L
  <2>1. n \in 1..Len(queue) /\ ~queue[n].quarantine
    BY <1>3 DEF OnTheWay
  <2>2. CASE n <= t
    <3>1. n \in LiveOf(0, t)
      BY <2>1, <2>2 DEF LiveOf
    <3>2. PICK m \in 1..Len(lines) : at[m] = n
      BY <1>1, <3>1
    <3>3. UnitAt(lines, m) = UnitAt(queue, n) /\ m \in DOMAIN pub'.lines
      BY <1>1, <1>2, <3>2 DEF UnitAt
    <3> QED BY <3>3, TravellingAtNext
  <2>3. CASE n > t /\ n <= k
    <3>1. n \in LiveOf(t, k)
      BY <2>1, <2>3 DEF LiveOf
    <3> QED BY <3>1
  <2>4. CASE n > k
    <3>1. n - k \in 1..Len(queue') /\ k + (n - k) = n
      BY <1>3, <2>1, <2>4
    <3>2. n - k \in OnTheWay' /\ UnitAt(queue', n - k) = UnitAt(queue, n)
      BY <1>3, <2>1, <3>1 DEF OnTheWay, UnitAt
    <3> QED BY <3>2, TravellingAtNext
  <2> QED BY <2>1, <2>2, <2>3, <2>4
<1>9. Travelling \subseteq Travelling' \cup L
  BY <1>4, <1>8, TravellingAt
<1> HIDE DEF L
<1> QED BY <1>7, <1>9

\* Steps that owe nothing but what travels, and lose no more than they count.
LEMMA AccountStep ==
  ASSUME Types, Types', RunningAccount, NEW L, IsFiniteSet(L), NEW k \in Nat, Cardinality(L) <= k,
         owed' \subseteq owed \cup Travelling', Durable \subseteq Durable',
         Travelling \subseteq Travelling' \cup Durable' \cup L,
         Counted(mem) - told + k <= Counted(mem') - told',
         Alive' /\ ~Unknown' => Alive /\ ~Unknown,
         pub'.pc = "ended" => pub.pc = "ended" /\ (owed' = owed \/ Unknown')
  PROVE  RunningAccount'
<1>1. /\ Counted(mem) \in Nat /\ Counted(mem') \in Nat /\ told \in Nat /\ told' \in Nat
      /\ IsFiniteSet(owed)
  BY StateFields DEF Types
<1> SUFFICES ASSUME Alive', ~Unknown'
             PROVE  /\ Cardinality(owed' \ (Durable' \cup Travelling')) <= Counted(mem') - told'
                    /\ pub'.pc = "ended" => Cardinality(owed' \ Durable') <= Counted(mem') - told'
  BY DEF RunningAccount
<1>2. /\ Cardinality(owed \ (Durable \cup Travelling)) <= Counted(mem) - told
      /\ pub.pc = "ended" => Cardinality(owed \ Durable) <= Counted(mem) - told
  BY DEF RunningAccount
<1> DEFINE A == owed \ (Durable \cup Travelling)
           B == owed' \ (Durable' \cup Travelling')
           C == owed \ Durable
           D == owed' \ Durable'
           c == Counted(mem) - told
           d == Counted(mem') - told'
<1>3. IsFiniteSet(A) /\ IsFiniteSet(C) /\ B \subseteq A \cup L
  BY <1>1, FS_Difference
<1>4. pub'.pc = "ended" => D \subseteq C \cup L
  OBVIOUS
<1>5. c \in Int /\ d \in Int /\ c + k <= d
  BY <1>1
<1>6. Cardinality(A) <= c /\ (pub'.pc = "ended" => Cardinality(C) <= c)
  BY <1>2
<1> HIDE DEF A, B, C, D, c, d
<1>7. Cardinality(B) <= d
  BY <1>3, <1>5, <1>6, WithinAccount
<1>8. pub'.pc = "ended" => Cardinality(D) <= d
  BY <1>3, <1>4, <1>5, <1>6, WithinAccount
<1> QED BY <1>7, <1>8 DEF B, D, d

\* Steps that lose nothing.
LEMMA AccountFrame ==
  ASSUME Types, Types', RunningAccount, owed' = owed, Durable \subseteq Durable',
         Travelling \subseteq Travelling' \cup Durable',
         Counted(mem) - told <= Counted(mem') - told',
         Alive' /\ ~Unknown' => Alive /\ ~Unknown,
         pub'.pc = "ended" => pub.pc = "ended"
  PROVE  RunningAccount'
<1> DEFINE L == {}
<1>1. IsFiniteSet(L) /\ Cardinality(L) <= 0 /\ 0 \in Nat
  BY FS_EmptySet
<1>2. Travelling \subseteq Travelling' \cup Durable' \cup L
  OBVIOUS
<1>3. Counted(mem) - told + 0 <= Counted(mem') - told'
  <2>1. Counted(mem) \in Nat /\ told \in Nat
    BY StateFields DEF Types
  <2> QED BY <2>1
<1>4. owed' \subseteq owed \cup Travelling'
  OBVIOUS
<1> HIDE DEF L
<1> QED BY <1>1, <1>2, <1>3, <1>4, AccountStep

\* Units are published, travel, or are counted.
LEMMA RunningStep ==
  ASSUME NoTornAppend, Types, Stages, LogInv, RunningAccount, SealedAccount,
         Types', LogInv', Step
  PROVE  RunningAccount'
<1>0. /\ mem \in State /\ mem' \in State /\ told \in Nat /\ Counted(mem) \in Nat /\ Counted(mem') \in Nat
      /\ told' \in Nat /\ pub \in PubStates
      /\ mem.offset \in Nat /\ stateFile.offset \in Nat /\ stateFile'.offset \in Nat /\ Len(archiveLog) \in Nat
      /\ ~Alive => pub.pc = "ended"
      /\ stateFile.offset <= Len(archiveLog) /\ (Alive => mem.offset <= stateFile.offset)
      /\ IsFiniteSet(owed)
  BY StateFields, LenProperties DEF Types, Stages, LogInv
<1>1. ASSUME UNCHANGED archiveLog, stateFile.offset <= stateFile'.offset PROVE Durable \subseteq Durable'
  BY <1>1, DurableKept
<1>2. CASE CollectorStart
  <2>1. /\ stateFile' = mem' /\ mem'.offset = stateFile.offset
        /\ \A n \in 1..stateFile.offset : archiveLog'[n] = archiveLog[n]
        /\ Counted(mem') = Counted(stateFile)
        /\ mem'.crashTail = "none" => stateFile.clean
        /\ owed' = (IF mem'.crashTail = "unknown" THEN {} ELSE owed)
        /\ told' = (IF mem'.crashTail = "unknown" THEN Counted(mem') ELSE told)
    BY <1>0, <1>2, StartEffect
  <2>2. Durable \subseteq Durable'
    BY <1>0, <2>1, DurableKept
  <2>3. pub'.pc # "ended"
    BY <1>2, IdleTyped DEF CollectorStart
  <2>4. mem'.crashTail \in {"none", "unknown"}
    BY <1>0, StateFields
  <2>5. CASE mem'.crashTail = "unknown"
    <3> DEFINE B == owed' \ (Durable' \cup Travelling')
    <3>1. B = {} /\ Counted(mem') - told' = 0
      BY <1>0, <2>1, <2>5
    <3> HIDE DEF B
    <3>2. Cardinality(B) <= Counted(mem') - told'
      BY <3>1, FS_EmptySet
    <3> QED BY <2>3, <3>2 DEF RunningAccount, B
  <2>6. CASE mem'.crashTail = "none"
    <3> DEFINE A == owed \ Durable
               B == owed' \ (Durable' \cup Travelling')
    <3>1. owed' = owed /\ told' = told /\ stateFile.clean
      BY <2>1, <2>6
    <3>2. B \subseteq A /\ IsFiniteSet(A)
      BY <1>0, <2>2, <3>1, FS_Difference
    <3>3. Cardinality(A) <= Counted(mem') - told'
      BY <2>1, <3>1 DEF SealedAccount
    <3> HIDE DEF A, B
    <3>4. Cardinality(B) <= Counted(mem') - told'
      BY <1>0, <3>2, <3>3, GapShrinks
    <3> QED BY <2>3, <3>4 DEF RunningAccount, B
  <2> QED BY <2>4, <2>5, <2>6
<1>3. CASE Shutdown
  <2>1. UNCHANGED <<archiveLog, stateFile, queue, pub, mem, owed, told>> /\ Alive
    BY <1>3 DEF Shutdown, disk, Alive
  <2>2. Durable \subseteq Durable' /\ Travelling' = Travelling
    BY <1>0, <1>1, <2>1, TravellingSame
  <2> QED BY <1>0, <2>1, <2>2, AccountFrame DEF Unknown
<1>4. CASE MarkClean
  <2>1. UNCHANGED <<archiveLog, queue, pub, owed, told>> /\ Alive
    BY <1>4 DEF MarkClean, Alive
  <2>2. /\ mem'.offset = mem.offset /\ mem'.storageFailure = mem.storageFailure
        /\ mem'.crashTail = mem.crashTail /\ Counted(mem') = Counted(mem)
        /\ stateFile' = mem' \/ stateFile' = stateFile
        /\ pub.pc # "ended" => stateFile' = stateFile
    BY <1>0, <1>4 DEF MarkClean, State, Counted
  <2>3. CASE Unknown
    BY <2>2, <2>3 DEF Unknown, RunningAccount
  <2>4. CASE ~Unknown
    <3>1. stateFile.offset <= stateFile'.offset
      BY <1>0, <2>1, <2>2, <2>4 DEF LogInv
    <3>2. Durable \subseteq Durable' /\ Travelling' = Travelling
      BY <1>1, <2>1, <3>1, TravellingSame
    <3> QED BY <1>0, <2>1, <2>2, <2>4, <3>2, AccountFrame
  <2> QED BY <2>3, <2>4
<1>5. CASE Exit \/ CollectorCrash
  BY <1>5, GoneEffect DEF RunningAccount
<1>6. ASSUME NEW o \in Observations, Refuse(o) PROVE RunningAccount'
  <2>1. UNCHANGED <<archiveLog, stateFile, queue, pub, owed, proc>> /\ Alive
    BY <1>6 DEF Refuse, disk
  <2>2. MemKept /\ Counted(mem) - told <= Counted(mem') - told'
    BY <1>6, RefuseEffect
  <2>3. Durable \subseteq Durable' /\ Travelling' = Travelling
    BY <1>0, <1>1, <2>1, TravellingSame
  <2> QED BY <1>0, <2>1, <2>2, <2>3, AccountFrame DEF Unknown, MemKept
<1>7. ASSUME NEW o \in Observations, Quarantine(o) PROVE RunningAccount'
  <2>1. PICK dropped \in Nat : /\ Queued(queue', identities', dropped, Item(o, TRUE))
                               /\ MemKept /\ Counted(mem') = Counted(mem) + dropped
    BY <1>7, QuarantineEffect
  <2>2. Alive /\ UNCHANGED <<archiveLog, stateFile, pub, proc, owed, told>>
    BY <1>7 DEF Quarantine, disk
  <2>3. PICK L : /\ IsFiniteSet(L) /\ Cardinality(L) <= dropped
                 /\ Travelling \subseteq Travelling' \cup L
    BY <2>1, <2>2, QueueTravels
  <2>4. Durable \subseteq Durable'
    BY <1>0, <1>1, <2>2
  <2>5. /\ Travelling \subseteq Travelling' \cup Durable' \cup L
        /\ owed' \subseteq owed \cup Travelling'
        /\ Counted(mem) - told + dropped <= Counted(mem') - told'
        /\ (Unknown' => Unknown) /\ (Unknown => Unknown')
    BY <1>0, <2>1, <2>2, <2>3 DEF Unknown, MemKept
  <2>6. /\ Alive' /\ ~Unknown' => Alive /\ ~Unknown
        /\ pub'.pc = "ended" => pub.pc = "ended" /\ (owed' = owed \/ Unknown')
    BY <2>1, <2>2 DEF Unknown, MemKept
  <2> QED BY <2>3, <2>4, <2>5, <2>6, AccountStep
<1>8. ASSUME NEW o \in Observations, Admit(o) PROVE RunningAccount'
  <2>0. PICK dropped \in Nat : \E ids :
            /\ Queued(queue', ids, dropped, Item(o, FALSE))
            /\ MemKept /\ Counted(mem') = Counted(mem) + dropped
    BY <1>8, AdmitEffect
  <2>1. PICK ids : /\ Queued(queue', ids, dropped, Item(o, FALSE))
                   /\ MemKept /\ Counted(mem') = Counted(mem) + dropped
    BY <2>0
  <2>2. /\ Alive /\ UNCHANGED <<archiveLog, stateFile, pub, proc, stopping, told>>
        /\ owed' = (IF stopping THEN owed ELSE owed \cup {Unit(o)})
    BY <1>8 DEF Admit, disk
  <2> DEFINE item == Item(o, FALSE)
  <2>3. /\ Queued(queue', ids, dropped, item) /\ item.quarantine = FALSE
        /\ [id |-> item.id, body |-> item.body] = Unit(o)
    BY <2>1, ItemTyped DEF Unit
  <2> HIDE DEF item
  <2>4. /\ \E L : /\ IsFiniteSet(L) /\ Cardinality(L) <= dropped
                  /\ Travelling \subseteq Travelling' \cup L
        /\ item.quarantine = FALSE => [id |-> item.id, body |-> item.body] \in Travelling'
    BY <2>2, <2>3, QueueTravels
  <2>5. PICK L : /\ IsFiniteSet(L) /\ Cardinality(L) <= dropped
                 /\ Travelling \subseteq Travelling' \cup L
    BY <2>4
  <2>6. Unit(o) \in Travelling'
    BY <2>3, <2>4
  <2>7. Durable \subseteq Durable'
    BY <1>0, <1>1, <2>2
  <2>8. /\ Travelling \subseteq Travelling' \cup Durable' \cup L
        /\ owed' \subseteq owed \cup Travelling'
    BY <2>2, <2>5, <2>6
  <2>9. Counted(mem) - told + dropped <= Counted(mem') - told'
    BY <1>0, <2>1, <2>2
  <2>10. Unknown' <=> Unknown
    BY <2>1 DEF Unknown, MemKept
  <2>11. /\ Alive' /\ ~Unknown' => Alive /\ ~Unknown
         /\ pub'.pc = "ended" => pub.pc = "ended" /\ (owed' = owed \/ Unknown')
    BY <2>2, <2>10 DEF Stages
  <2> QED BY <2>5, <2>7, <2>8, <2>9, <2>11, AccountStep
<1>9. ASSUME NEW desired \in Wanted, SetPolicy(desired) PROVE RunningAccount'
  <2>1. /\ UNCHANGED <<archiveLog, stateFile, queue, pub, owed, told, proc>>
        /\ mem' \in {mem, [mem EXCEPT !.storageFailure = TRUE]}
    BY <1>9 DEF SetPolicy
  <2>2. Counted(mem') = Counted(mem) /\ (Unknown => Unknown')
    BY <1>0, <2>1 DEF State, Counted, Unknown
  <2>3. Durable \subseteq Durable' /\ Travelling' = Travelling
    BY <1>0, <1>1, <2>1, TravellingSame
  <2> QED BY <1>0, <2>1, <2>2, <2>3, AccountFrame DEF Alive
<1>10. CASE TakeBatch
  <2>0. PICK k \in 1..Len(queue) : \E t \in 0..k : Taking(k, t)
    BY <1>10, TakeBatchEffect
  <2>1. PICK t \in 0..k : Taking(k, t)
    BY <2>0
  <2>2. PICK L : /\ IsFiniteSet(L) /\ Cardinality(L) <= k - t
                 /\ Travelling \subseteq Travelling' \cup L
    BY <1>10, <2>1, BatchTravels
  <2>3. /\ pub'.pc = "append" /\ Counted(mem') = Counted(mem) + (k - t)
        /\ mem'.storageFailure = mem.storageFailure /\ mem'.crashTail = mem.crashTail
    BY <2>1 DEF Taking
  <2>4. UNCHANGED <<archiveLog, stateFile, proc, owed, told>>
    BY <1>10 DEF TakeBatch, disk
  <2>5. k - t \in Nat
    OBVIOUS
  <2>6. Durable \subseteq Durable'
    BY <1>0, <1>1, <2>4
  <2>7. /\ Travelling \subseteq Travelling' \cup Durable' \cup L
        /\ owed' \subseteq owed \cup Travelling'
    BY <2>2, <2>4
  <2>8. Counted(mem) - told + (k - t) <= Counted(mem') - told'
    BY <1>0, <2>3, <2>4, <2>5
  <2>9. Alive' /\ ~Unknown' => Alive /\ ~Unknown
    BY <2>3, <2>4 DEF Alive, Unknown
  <2>10. pub'.pc = "ended" => pub.pc = "ended" /\ (owed' = owed \/ Unknown')
    BY <2>3
  <2> QED BY <2>2, <2>5, <2>6, <2>7, <2>8, <2>9, <2>10, AccountStep
<1>11. CASE AppendLines
  <2>1. /\ \A n \in 1..Len(archiveLog) : archiveLog'[n] = archiveLog[n]
        /\ pub'.pc = "watermark" /\ pub'.lines = pub.lines
        /\ UNCHANGED <<stateFile, queue, mem, owed, told, proc>>
    BY <1>11, AppendEffect DEF AppendLines
  <2>2. Durable \subseteq Durable'
    BY <1>0, <2>1, DurableKept
  <2>3. Travelling' = Travelling
    BY <2>1, TravellingSame
  <2> QED BY <1>0, <2>1, <2>2, <2>3, AccountFrame DEF Alive, Unknown
<1>12. CASE AppendFails
  <2>1. /\ archiveLog' = archiveLog /\ stateFile' = mem' /\ mem'.offset = mem.offset
        /\ mem'.storageFailure /\ mem'.crashTail = mem.crashTail
        /\ Counted(mem) + Len(pub.lines) <= Counted(mem')
    BY <1>12, AppendFailsEffect
  <2>2. /\ pub'.pc = "wait" /\ pub.pc = "append" /\ UNCHANGED <<proc, queue, owed, told>>
    BY <1>12, IdleTyped DEF AppendFails
  <2>3. Len(archiveLog) = mem.offset
    BY <2>2 DEF LogInv
  <2>4. Durable \subseteq Durable'
    BY <1>0, <1>1, <2>1, <2>3
  <2> DEFINE L == UnitsOf(pub.lines)
             k == Len(pub.lines)
  <2>5. k \in Nat /\ IsFiniteSet(L) /\ Cardinality(L) <= k
    BY <1>0, PubTyped, UnitsCounted
  <2>6. OnTheWay' = OnTheWay
    BY <2>2 DEF OnTheWay
  <2>7. Travelling \subseteq Travelling' \cup Durable' \cup L
    BY <2>2, <2>6 DEF Travelling
  <2> HIDE DEF L, k
  <2>8. Counted(mem) - told + k <= Counted(mem') - told'
    BY <1>0, <2>1, <2>2, <2>5 DEF k
  <2>9. Alive' /\ ~Unknown' => Alive /\ ~Unknown
    BY <2>1, <2>2 DEF Alive, Unknown
  <2>10. /\ pub'.pc = "ended" => pub.pc = "ended" /\ (owed' = owed \/ Unknown')
         /\ owed' \subseteq owed \cup Travelling'
    BY <2>2
  <2> QED BY <2>4, <2>5, <2>7, <2>8, <2>9, <2>10, AccountStep
<1>13. CASE WriteWatermark
  <2>1. /\ pub.pc = "watermark" /\ pub'.pc = "install" /\ pub'.lines = pub.lines
        /\ stateFile' = pub.pending /\ UNCHANGED <<archiveLog, queue, mem, owed, told, proc>>
    BY <1>0, <1>13 DEF WriteWatermark, PubStates
  <2>2. pub.pending.offset = Len(archiveLog)
    BY <2>1 DEF LogInv
  <2>3. Durable \subseteq Durable'
    BY <1>0, <1>1, <2>1, <2>2
  <2>4. Travelling' = Travelling
    BY <2>1, TravellingSame
  <2> QED BY <1>0, <2>1, <2>3, <2>4, AccountFrame DEF Alive, Unknown
<1>14. CASE WatermarkFails
  <2>1. mem' = [mem EXCEPT !.storageFailure = TRUE, !.crashTail = "unknown"]
    BY <1>14 DEF WatermarkFails
  <2>2. Unknown'
    BY <1>0, <2>1 DEF State, Unknown
  <2> QED BY <2>2 DEF RunningAccount
<1>15. CASE Install
  <2>1. /\ mem'.storageFailure = mem.storageFailure /\ mem'.crashTail = mem.crashTail
        /\ Counted(mem') = Counted(mem)
    BY <1>15, InstallEffect
  <2>2. pub'.pc = "wait" /\ pub.pc = "install" /\ UNCHANGED <<archiveLog, stateFile, queue, owed, told, proc>>
    BY <1>15, IdleTyped DEF Install, disk
  <2>3. /\ Len(archiveLog) = mem.offset + Len(pub.lines) /\ stateFile.offset = Len(archiveLog)
        /\ \A n \in 1..Len(pub.lines) : archiveLog[mem.offset + n] = pub.lines[n]
    BY <2>2 DEF LogInv
  <2>4. DOMAIN pub.lines = 1..Len(pub.lines) /\ Len(pub.lines) \in Nat
    BY <1>0, PubTyped
  <2>5. ASSUME NEW n \in DOMAIN pub.lines PROVE UnitAt(pub.lines, n) \in Durable'
    <3>1. mem.offset + n \in 1..stateFile.offset
      BY <1>0, <2>3, <2>4
    <3>2. UnitAt(pub.lines, n) = UnitAt(archiveLog, mem.offset + n)
      BY <2>3, <2>4 DEF UnitAt
    <3> QED BY <2>2, <3>1, <3>2, DurableIsNext
  <2>6. OnTheWay' = OnTheWay
    BY <2>2 DEF OnTheWay
  <2>7. ASSUME NEW u \in Travelling PROVE u \in Travelling' \cup Durable'
    <3>1. CASE \E n \in OnTheWay : u = UnitAt(queue, n)
      BY <2>2, <2>6, <3>1, TravellingAtNext
    <3>2. CASE \E n \in DOMAIN pub.lines : u = UnitAt(pub.lines, n)
      BY <2>5, <3>2
    <3> QED BY <3>1, <3>2, TravellingAt
  <2>8. Travelling \subseteq Travelling' \cup Durable'
    BY <2>7
  <2>9. Durable \subseteq Durable'
    BY <1>0, <1>1, <2>2
  <2> QED BY <1>0, <2>1, <2>2, <2>8, <2>9, AccountFrame DEF Alive, Unknown
<1>16. CASE PersistForWaiter
  <2>1. /\ stateFile' = mem /\ pub.pc = "wait" /\ UNCHANGED <<archiveLog, queue, pub, mem, owed, told, proc>>
    BY <1>16 DEF PersistForWaiter
  <2>2. Len(archiveLog) = mem.offset
    BY <2>1 DEF LogInv
  <2>3. Durable \subseteq Durable' /\ Travelling' = Travelling
    BY <1>0, <1>1, <2>1, <2>2, TravellingSame
  <2> QED BY <1>0, <2>1, <2>3, AccountFrame DEF Alive, Unknown
<1>17. CASE PublicationEnds
  <2>1. /\ pub.pc = "wait" /\ queue = <<>> /\ pub'.lines = pub.lines
        /\ UNCHANGED <<archiveLog, stateFile, queue, mem, owed, told, proc>>
    BY <1>0, <1>17 DEF PublicationEnds, PubStates, disk
  <2>2. pub.lines = <<>>
    BY <2>1 DEF Stages
  <2>3. Travelling = {} /\ Travelling' = {}
    BY <2>1, <2>2, TravellingSame DEF Travelling, OnTheWay, UnitsOf
  <2>4. Durable' = Durable
    BY <2>1 DEF Durable
  <2>5. owed \ (Durable \cup Travelling) = owed \ Durable
    BY <2>3
  <2>6. owed' \ (Durable' \cup Travelling') = owed \ Durable /\ owed' \ Durable' = owed \ Durable
    BY <2>1, <2>3, <2>4
  <2> HIDE DEF Durable, Travelling
  <2>7. Alive /\ ~Unknown => Cardinality(owed \ Durable) <= Counted(mem) - told
    BY <2>5 DEF RunningAccount
  <2>8. (Alive' <=> Alive) /\ (Unknown' <=> Unknown) /\ Counted(mem') - told' = Counted(mem) - told
    BY <2>1 DEF Alive, Unknown
  <2> QED BY <2>6, <2>7, <2>8 DEF RunningAccount
<1>18. CASE RequestCheckpoint \/ Query \/ NextPage \/ UNCHANGED collectorVars
  <2>1. UNCHANGED <<archiveLog, stateFile, queue, pub, mem, owed, told, proc>>
    BY <1>18 DEF RequestCheckpoint, Query, NextPage, collectorVars, disk
  <2>2. Durable \subseteq Durable' /\ Travelling' = Travelling
    BY <1>0, <1>1, <2>1, TravellingSame
  <2> QED BY <1>0, <2>1, <2>2, AccountFrame DEF Alive, Unknown
<1> QED
  BY <1>2, <1>3, <1>4, <1>5, <1>6, <1>7, <1>8, <1>9, <1>10, <1>11, <1>12, <1>13, <1>14, <1>15,
     <1>16, <1>17, <1>18 DEF Step, CollectorNext

\* What a clean stop leaves is what its account says.
LEMMA SealedStep ==
  ASSUME NoTornAppend, Types, Stages, LogInv, CleanInv, RunningAccount, SealedAccount,
         Types', LogInv', Step
  PROVE  SealedAccount'
<1>0. /\ mem \in State /\ stateFile \in State /\ pub \in PubStates /\ IsFiniteSet(owed)
      /\ mem.offset \in Nat /\ stateFile.offset \in Nat /\ told \in Nat
      /\ pub.pc # "ended" => Alive /\ ~mem.clean /\ ~stateFile.clean
      /\ pub.pc \in {"watermark", "install"} => ~pub.pending.clean
      /\ Alive /\ stateFile.clean => proc = "marked" /\ stopping
  BY StateFields DEF Types, Stages, CleanInv
<1>1. ASSUME UNCHANGED <<archiveLog, stateFile, owed, told>> PROVE SealedAccount'
  BY <1>1 DEF SealedAccount, Durable
<1>2. CASE CollectorStart
  <2>1. stateFile' = mem' /\ ~mem'.clean
    BY <1>2, StartEffect DEF LogInv
  <2> QED BY <2>1 DEF SealedAccount
<1>3. CASE MarkClean
  <2>1. CASE pub.pc # "ended"
    <3>1. UNCHANGED <<archiveLog, stateFile, owed, told>>
      BY <1>3, <2>1 DEF MarkClean
    <3> QED BY <1>1, <3>1
  <2>2. CASE pub.pc = "ended"
    <3> DEFINE c == CleanStop
    <3>1. c \in BOOLEAN /\ (c => ~mem.storageFailure)
      BY DEF CleanStop
    <3>2. mem' = [mem EXCEPT !.clean = c] /\ stateFile' = mem' /\ UNCHANGED <<archiveLog, owed, told>> /\ Alive
      BY <1>3, <2>2 DEF MarkClean, Alive
    <3> HIDE DEF c
    <3>3. stateFile'.clean = c /\ stateFile'.offset = mem.offset /\ Counted(stateFile') = Counted(mem)
      BY <1>0, <3>1, <3>2 DEF State, Counted
    <3>4. CASE c
      <4>1. stateFile.offset = mem.offset
        BY <2>2, <3>1, <3>2, <3>4 DEF LogInv, Unknown
      <4>2. Durable \subseteq Durable'
        BY <1>0, <3>2, <3>3, <4>1, DurableKept
      <4>3. Cardinality(owed \ Durable) <= Counted(mem) - told
        BY <2>2, <3>1, <3>2, <3>4 DEF RunningAccount, Unknown
      <4> DEFINE A == owed \ Durable
                 B == owed' \ Durable'
      <4>4. IsFiniteSet(A) /\ B \subseteq A
        BY <1>0, <3>2, <4>2, FS_Difference
      <4>5. Cardinality(A) <= Counted(mem) - told /\ Counted(mem) \in Nat
        BY <1>0, <4>3, StateFields
      <4> HIDE DEF A, B
      <4>6. Cardinality(B) <= Counted(mem) - told
        BY <1>0, <4>4, <4>5, GapShrinks
      <4>7. Cardinality(B) <= Counted(stateFile') - told'
        BY <3>2, <3>3, <4>6
      <4> QED BY <4>7 DEF SealedAccount, B
    <3>5. CASE ~c
      BY <3>3, <3>5 DEF SealedAccount
    <3> QED BY <3>4, <3>5
  <2> QED BY <2>1, <2>2
<1>4. CASE Exit \/ CollectorCrash
  BY <1>1, <1>4, GoneEffect
<1>5. ASSUME NEW o \in Observations, Refuse(o) \/ Quarantine(o) \/ Admit(o) PROVE SealedAccount'
  <2>1. UNCHANGED <<archiveLog, stateFile>> /\ Alive
    BY <1>5 DEF Refuse, Quarantine, Admit, disk
  <2>2. stopping => told' = told /\ owed' = owed
    BY <1>5, RefuseEffect DEF Refuse, Quarantine, Admit
  <2>3. CASE stateFile.clean
    BY <1>0, <1>1, <2>1, <2>2, <2>3
  <2>4. CASE ~stateFile.clean
    BY <2>1, <2>4 DEF SealedAccount
  <2> QED BY <2>3, <2>4
<1>6. ASSUME NEW desired \in Wanted, SetPolicy(desired) PROVE SealedAccount'
  <2>1. UNCHANGED <<archiveLog, stateFile, owed, told>>
    BY <1>6 DEF SetPolicy
  <2> QED BY <1>1, <2>1
<1>7. CASE TakeBatch \/ AppendLines \/ Install \/ PublicationEnds
  <2>1. pub.pc # "ended" /\ stateFile' = stateFile
    BY <1>7 DEF TakeBatch, AppendLines, Install, PublicationEnds, disk
  <2> QED BY <1>0, <2>1 DEF SealedAccount
<1>8. CASE AppendFails
  <2>1. stateFile' = mem' /\ mem'.clean = mem.clean /\ pub.pc = "append"
    BY <1>8, AppendFailsEffect DEF AppendFails
  <2> QED BY <1>0, <2>1 DEF SealedAccount
<1>9. CASE WriteWatermark \/ WatermarkFails
  <2>1. stateFile' \in {stateFile, pub.pending} /\ pub.pc = "watermark"
    BY <1>9 DEF WriteWatermark, WatermarkFails
  <2> QED BY <1>0, <2>1 DEF SealedAccount
<1>10. CASE PersistForWaiter
  <2>1. stateFile' = mem /\ pub.pc = "wait"
    BY <1>10 DEF PersistForWaiter
  <2> QED BY <1>0, <2>1 DEF SealedAccount
<1>11. CASE Shutdown \/ RequestCheckpoint \/ Query \/ NextPage \/ UNCHANGED collectorVars
  <2>1. UNCHANGED <<archiveLog, stateFile, owed, told>>
    BY <1>11 DEF Shutdown, RequestCheckpoint, Query, NextPage, collectorVars, disk
  <2> QED BY <1>1, <2>1
<1> QED
  BY <1>2, <1>3, <1>4, <1>5, <1>6, <1>7, <1>8, <1>9, <1>10, <1>11 DEF Step, CollectorNext

\* What covers a checkpoint moves on, or is counted.
LEMMA WithinStep ==
  ASSUME Types, Types', IsFiniteSet(checkpoint.covers), checkpoint'.covers = checkpoint.covers,
         NEW X, NEW Y, NEW L, IsFiniteSet(L), NEW k \in Nat, Cardinality(L) <= k,
         UnitsOf(index) \cup X \subseteq UnitsOf(index') \cup Y \cup L,
         mem.storageFailure => mem'.storageFailure,
         Counted(mem) - told + k <= Counted(mem') - told', Within(X)
  PROVE  \/ mem'.storageFailure
         \/ Cardinality(checkpoint'.covers \ (UnitsOf(index') \cup Y)) <= Counted(mem') - told'
<1>1. CASE mem.storageFailure
  BY <1>1
<1>2. CASE ~mem.storageFailure
  <2> DEFINE A == checkpoint.covers \ (UnitsOf(index) \cup X)
             B == checkpoint'.covers \ (UnitsOf(index') \cup Y)
             c == Counted(mem) - told
             d == Counted(mem') - told'
  <2>1. IsFiniteSet(A) /\ B \subseteq A \cup L
    BY FS_Difference
  <2>2. c \in Int /\ d \in Int /\ c + k <= d
    <3>1. Counted(mem) \in Nat /\ Counted(mem') \in Nat
      BY StateFields DEF Types
    <3>2. told \in Nat /\ told' \in Nat
      BY DEF Types
    <3> QED BY <3>1, <3>2
  <2>3. Cardinality(A) <= c
    BY <1>2 DEF Within
  <2> HIDE DEF A, B, c, d
  <2>4. Cardinality(B) <= d
    BY <2>1, <2>2, <2>3, WithinAccount
  <2> QED BY <2>4 DEF B, d
<1> QED BY <1>1, <1>2

\* Steps that leave the checkpoint alone.
LEMMA CheckpointFrame ==
  ASSUME Types, Types', CheckpointAccount, UNCHANGED <<checkpoint, index>>, Alive' <=> Alive,
         NEW L, IsFiniteSet(L), NEW k \in Nat, Cardinality(L) <= k,
         Travelling \subseteq Travelling' \cup L, pub'.lines = pub.lines,
         pub'.waiters = pub.waiters, pub'.waiters => pub'.pc \in {"append", "watermark", "install"},
         mem.storageFailure => mem'.storageFailure,
         Counted(mem) - told + k <= Counted(mem') - told'
  PROVE  CheckpointAccount'
<1>1. IsFiniteSet(checkpoint.covers) /\ checkpoint'.covers = checkpoint.covers
  BY DEF CheckpointAccount
<1>2. checkpoint.state = "waiting" => Within(Travelling)'
  <2>1. UnitsOf(index) \cup Travelling \subseteq UnitsOf(index') \cup Travelling' \cup L
    OBVIOUS
  <2> DEFINE X == Travelling
             Y == Travelling'
  <2>2. UnitsOf(index) \cup X \subseteq UnitsOf(index') \cup Y \cup L
    BY <2>1
  <2>3. checkpoint.state = "waiting" => Within(X)
    BY DEF CheckpointAccount
  <2> HIDE DEF X, Y
  <2>4. checkpoint.state = "waiting" =>
           \/ mem'.storageFailure
           \/ Cardinality(checkpoint'.covers \ (UnitsOf(index') \cup Y)) <= Counted(mem') - told'
    BY <1>1, <2>2, <2>3, WithinStep
  <2> QED BY <2>4 DEF Within, Y
<1>3. checkpoint.state = "held" => Within(UnitsOf(pub.lines))'
  <2> DEFINE X == UnitsOf(pub.lines)
             Y == UnitsOf(pub'.lines)
  <2>2. UnitsOf(index) \cup X \subseteq UnitsOf(index') \cup Y \cup L
    OBVIOUS
  <2>3. checkpoint.state = "held" => Within(X)
    BY DEF CheckpointAccount
  <2> HIDE DEF X, Y
  <2>4. checkpoint.state = "held" =>
           \/ mem'.storageFailure
           \/ Cardinality(checkpoint'.covers \ (UnitsOf(index') \cup Y)) <= Counted(mem') - told'
    BY <1>1, <2>2, <2>3, WithinStep
  <2> QED BY <2>4 DEF Within, Y
<1>4. checkpoint.state = "answered" => Within({})'
  <2> DEFINE X == {}
  <2>2. UnitsOf(index) \cup X \subseteq UnitsOf(index') \cup X \cup L
    OBVIOUS
  <2>3. checkpoint.state = "answered" => Within(X)
    BY DEF CheckpointAccount
  <2> HIDE DEF X
  <2>4. checkpoint.state = "answered" =>
           \/ mem'.storageFailure
           \/ Cardinality(checkpoint'.covers \ (UnitsOf(index') \cup X)) <= Counted(mem') - told'
    BY <1>1, <2>2, <2>3, WithinStep
  <2> QED BY <2>4 DEF Within, X
<1>5. checkpoint' = checkpoint
  OBVIOUS
<1> QED BY <1>2, <1>3, <1>4, <1>5 DEF CheckpointAccount

\* The account of the waiting checkpoint is kept.
LEMMA CheckpointStep ==
  ASSUME NoTornAppend, Types, Stages, LogInv, RunningAccount, CheckpointAccount, Types', Step
  PROVE  CheckpointAccount'
<1>0. /\ mem \in State /\ mem' \in State /\ told \in Nat /\ told' \in Nat
      /\ Counted(mem) \in Nat /\ Counted(mem') \in Nat /\ pub \in PubStates /\ checkpoint \in Checkpoints
      /\ ~Alive => pub.pc = "ended"
  BY StateFields DEF Types, Stages
<1>1. /\ IsFiniteSet(checkpoint.covers) /\ IsFiniteSet(owed)
      /\ ~Alive => checkpoint.state = "none"
      /\ checkpoint.state = "held" <=> pub.waiters
      /\ pub.waiters => pub.pc \in {"append", "watermark", "install"}
      /\ checkpoint.state = "waiting" => Within(Travelling)
      /\ checkpoint.state = "held" => Within(UnitsOf(pub.lines))
      /\ checkpoint.state = "answered" => Within({})
  BY DEF CheckpointAccount, Types
<1>2. IsFiniteSet({}) /\ Cardinality({}) <= 0 /\ 0 \in Nat
  BY FS_EmptySet
<1>3. ASSUME UNCHANGED <<checkpoint, index>>, Alive' <=> Alive,
             queue' = queue, pub'.lines = pub.lines,
             pub'.waiters = pub.waiters, pub'.waiters => pub'.pc \in {"append", "watermark", "install"},
             mem.storageFailure => mem'.storageFailure,
             Counted(mem) - told <= Counted(mem') - told'
      PROVE  CheckpointAccount'
  <2>1. Travelling \subseteq Travelling' \cup {}
    BY <1>3, TravellingSame
  <2>2. Counted(mem) - told + 0 <= Counted(mem') - told'
    BY <1>0, <1>3
  <2> QED BY <1>2, <1>3, <2>1, <2>2, CheckpointFrame
<1>4. CASE CollectorStart
  <2>1. checkpoint' = NoCheckpoint /\ pub' = Idle
    BY <1>4 DEF CollectorStart
  <2> QED BY <1>2, <2>1, IdleTyped DEF CheckpointAccount, NoCheckpoint
<1>5. CASE Exit \/ CollectorCrash
  <2>1. checkpoint' = NoCheckpoint /\ pub'.waiters = FALSE
    BY <1>5, GoneEffect
  <2> QED BY <1>2, <2>1 DEF CheckpointAccount, NoCheckpoint
<1>6. ASSUME NEW o \in Observations, Refuse(o) PROVE CheckpointAccount'
  <2>1. UNCHANGED <<checkpoint, index, queue, pub, proc>>
    BY <1>6 DEF Refuse
  <2>2. MemKept /\ Counted(mem) - told <= Counted(mem') - told'
    BY <1>6, RefuseEffect
  <2> QED BY <1>1, <1>3, <2>1, <2>2 DEF Alive, MemKept
<1>7. ASSUME NEW o \in Observations, Quarantine(o) \/ Admit(o) PROVE CheckpointAccount'
  <2>1. UNCHANGED <<checkpoint, index, pub, proc, told>>
    BY <1>7 DEF Quarantine, Admit
  <2>2. \E dropped \in Nat : \E ids, item :
            /\ Queued(queue', ids, dropped, item)
            /\ MemKept /\ Counted(mem') = Counted(mem) + dropped
    BY <1>7, QuarantineEffect, AdmitEffect
  <2>3. PICK dropped \in Nat : \E ids, item :
            /\ Queued(queue', ids, dropped, item)
            /\ MemKept /\ Counted(mem') = Counted(mem) + dropped
    BY <2>2
  <2>4. PICK ids, item : /\ Queued(queue', ids, dropped, item)
                         /\ MemKept /\ Counted(mem') = Counted(mem) + dropped
    BY <2>3
  <2>5. PICK L : /\ IsFiniteSet(L) /\ Cardinality(L) <= dropped
                 /\ Travelling \subseteq Travelling' \cup L
    BY <2>1, <2>4, QueueTravels
  <2>6. /\ UNCHANGED <<checkpoint, index>> /\ (Alive' <=> Alive)
        /\ pub'.lines = pub.lines /\ pub'.waiters = pub.waiters
        /\ pub'.waiters => pub'.pc \in {"append", "watermark", "install"}
        /\ mem.storageFailure => mem'.storageFailure
    BY <1>1, <2>1, <2>4 DEF Alive, MemKept
  <2>7. Counted(mem) - told + dropped <= Counted(mem') - told'
    BY <1>0, <2>1, <2>4
  <2> QED BY <2>5, <2>6, <2>7, CheckpointFrame
<1>8. ASSUME NEW desired \in Wanted, SetPolicy(desired) PROVE CheckpointAccount'
  <2>1. /\ UNCHANGED <<checkpoint, index, queue, pub, told, proc>>
        /\ mem' \in {mem, [mem EXCEPT !.storageFailure = TRUE]}
    BY <1>8 DEF SetPolicy
  <2>2. Counted(mem') = Counted(mem) /\ (mem.storageFailure => mem'.storageFailure)
    BY <1>0, <2>1 DEF State, Counted
  <2> QED BY <1>0, <1>1, <1>3, <2>1, <2>2 DEF Alive
<1>9. CASE TakeBatch
  <2>0. PICK k \in 1..Len(queue) : \E t \in 0..k : Taking(k, t)
    BY <1>9, TakeBatchEffect
  <2>1. PICK t \in 0..k : Taking(k, t)
    BY <2>0
  <2>2. PICK L : /\ IsFiniteSet(L) /\ Cardinality(L) <= k - t
                 /\ Travelling \subseteq Travelling' \cup L
    BY <1>9, <2>1, BatchTravels DEF TakeBatch
  <2>3. /\ pub'.pc = "append" /\ Counted(mem') = Counted(mem) + (k - t)
        /\ mem'.storageFailure = mem.storageFailure
        /\ pub'.waiters <=> (checkpoint.state = "waiting" /\ Len(queue') = 0)
        /\ queue' \in Seq(Items)
    BY <2>1 DEF Taking
  <2>4. /\ UNCHANGED <<index, proc, told>> /\ queue' = Rest /\ pub.pc = "wait"
        /\ checkpoint' = IF Releases THEN [checkpoint EXCEPT !.state = "held"] ELSE checkpoint
    BY <1>9 DEF TakeBatch
  <2>5. Len(queue') = 0 <=> queue' = <<>>
    BY <2>3, EmptySeq
  <2>6. Releases <=> pub'.waiters
    BY <2>3, <2>4, <2>5 DEF Releases
  <2>7. ~pub.waiters /\ checkpoint.state # "held" /\ Alive /\ Alive'
    BY <1>0, <1>1, <2>4 DEF Alive
  <2>8. k - t \in Nat /\ Counted(mem) - told + (k - t) <= Counted(mem') - told'
    BY <1>0, <2>3, <2>4
  <2>9. checkpoint'.covers = checkpoint.covers
    BY <1>0, <2>4, CheckpointTyped
  <2> DEFINE X == Travelling
             Y == Travelling'
  <2>10. checkpoint.state = "waiting" => Within(Travelling)'
    <3>1. UnitsOf(index) \cup X \subseteq UnitsOf(index') \cup Y \cup L
      BY <2>2, <2>4
    <3>2. checkpoint.state = "waiting" => Within(X)
      BY <1>1
    <3> HIDE DEF X, Y
    <3>3. checkpoint.state = "waiting" =>
           \/ mem'.storageFailure
           \/ Cardinality(checkpoint'.covers \ (UnitsOf(index') \cup Y)) <= Counted(mem') - told'
      BY <1>1, <2>2, <2>3, <2>8, <2>9, <3>1, <3>2, WithinStep
    <3> QED BY <3>3 DEF Within, Y
  <2>11. CASE pub'.waiters
    <3>1. checkpoint.state = "waiting" /\ queue' = <<>>
      BY <2>3, <2>5, <2>11
    <3>2. checkpoint'.state = "held"
      BY <1>0, <2>4, <2>6, <2>11, CheckpointTyped
    <3>3. OnTheWay' = {}
      BY <3>1 DEF OnTheWay
    <3>4. Travelling' = UnitsOf(pub'.lines)
      BY <3>3 DEF Travelling
    <3>5. Within(UnitsOf(pub.lines))'
      BY <2>10, <3>1, <3>4 DEF Within
    <3> QED BY <1>1, <2>3, <2>7, <2>9, <2>11, <3>2, <3>5 DEF CheckpointAccount
  <2>12. CASE ~pub'.waiters
    <3>1. checkpoint' = checkpoint
      BY <2>4, <2>6, <2>12
    <3>2. checkpoint.state = "answered" => Within({})'
      <4>1. UnitsOf(index) \cup {} \subseteq UnitsOf(index') \cup {} \cup {}
        BY <2>4
      <4>2. Counted(mem) - told + 0 <= Counted(mem') - told'
        BY <1>0, <2>8
      <4>3. checkpoint.state = "answered" =>
             \/ mem'.storageFailure
             \/ Cardinality(checkpoint'.covers \ (UnitsOf(index') \cup {})) <= Counted(mem') - told'
        BY <1>1, <1>2, <2>3, <2>9, <4>1, <4>2, WithinStep
      <4> QED BY <4>3 DEF Within
    <3> QED BY <1>1, <2>7, <2>10, <2>12, <3>1, <3>2 DEF CheckpointAccount
  <2> QED BY <2>11, <2>12
<1>10. CASE AppendLines
  <2>1. /\ pub'.pc = "watermark" /\ pub'.lines = pub.lines /\ pub'.waiters = pub.waiters
        /\ UNCHANGED <<checkpoint, index, queue, mem, told, proc>>
    BY <1>10, AppendEffect DEF AppendLines
  <2> QED BY <1>0, <1>1, <1>3, <2>1 DEF Alive
<1>11. CASE AppendFails \/ WatermarkFails
  <2>1. mem'.storageFailure
    BY <1>0, <1>11, AppendFailsEffect DEF WatermarkFails, State
  <2>2. checkpoint' = Answered /\ pub'.waiters = FALSE /\ proc' = proc /\ pub.pc # "ended"
    BY <1>11, IdleTyped DEF AppendFails, WatermarkFails
  <2>3. /\ checkpoint'.covers = checkpoint.covers
        /\ checkpoint'.state = IF pub.waiters THEN "answered" ELSE checkpoint.state
    BY <1>0, <2>2, CheckpointTyped
  <2>4. Alive /\ Alive' /\ checkpoint'.state # "held"
    BY <1>0, <1>1, <2>2, <2>3 DEF Alive
  <2> QED BY <1>1, <2>1, <2>2, <2>3, <2>4 DEF CheckpointAccount, Within
<1>12. CASE WriteWatermark
  <2>1. /\ pub'.pc = "install" /\ pub'.lines = pub.lines /\ pub'.waiters = pub.waiters
        /\ UNCHANGED <<checkpoint, index, queue, mem, told, proc>>
    BY <1>0, <1>12 DEF WriteWatermark, PubStates
  <2> QED BY <1>0, <1>1, <1>3, <2>1 DEF Alive
<1>13. CASE Install
  <2>1. /\ Len(index') = Len(index) + Len(pub.lines)
        /\ \A n \in 1..Len(index) : index'[n] = index[n]
        /\ \A n \in 1..Len(pub.lines) : /\ index'[Len(index) + n].id = pub.lines[n].id
                                        /\ index'[Len(index) + n].body = pub.lines[n].body
        /\ mem'.storageFailure = mem.storageFailure /\ Counted(mem') = Counted(mem)
    BY <1>13, InstallEffect
  <2>2. /\ pub'.pc = "wait" /\ pub'.waiters = FALSE /\ pub.pc = "install"
        /\ UNCHANGED <<queue, proc, told>> /\ checkpoint' = Answered
    BY <1>13, IdleTyped DEF Install
  <2>3. /\ DOMAIN index = 1..Len(index) /\ Len(index) \in Nat /\ DOMAIN index' = 1..Len(index')
        /\ DOMAIN pub.lines = 1..Len(pub.lines) /\ Len(pub.lines) \in Nat
    BY LenProperties, PubTyped DEF Types
  <2>4. UnitsOf(index) \subseteq UnitsOf(index')
    <3>1. \A n \in DOMAIN index : n \in DOMAIN index' /\ index'[n] = index[n]
      BY <2>1, <2>3
    <3> QED BY <3>1 DEF UnitsOf
  <2>5. UnitsOf(pub.lines) \subseteq UnitsOf(index')
    <3>1. \A n \in DOMAIN pub.lines :
             /\ Len(index) + n \in DOMAIN index'
             /\ index'[Len(index) + n].id = pub.lines[n].id
             /\ index'[Len(index) + n].body = pub.lines[n].body
      BY <2>1, <2>3
    <3> QED BY <3>1 DEF UnitsOf
  <2>6. OnTheWay' = OnTheWay
    BY <2>2 DEF OnTheWay
  <2>7. Travelling \subseteq Travelling' \cup UnitsOf(index')
    BY <2>2, <2>5, <2>6 DEF Travelling
  <2>8. /\ checkpoint'.covers = checkpoint.covers
        /\ checkpoint'.state = IF pub.waiters THEN "answered" ELSE checkpoint.state
    BY <1>0, <2>2, CheckpointTyped
  <2>9. Counted(mem) - told + 0 <= Counted(mem') - told'
    BY <1>0, <2>1, <2>2
  <2> DEFINE X == Travelling
             Y == Travelling'
             Z == UnitsOf(pub.lines)
             N == {}
  <2>10. checkpoint.state = "waiting" => Within(Travelling)'
    <3>1. UnitsOf(index) \cup X \subseteq UnitsOf(index') \cup Y \cup {}
      BY <2>4, <2>7
    <3>2. checkpoint.state = "waiting" => Within(X)
      BY <1>1
    <3> HIDE DEF X, Y
    <3>3. checkpoint.state = "waiting" =>
           \/ mem'.storageFailure
           \/ Cardinality(checkpoint'.covers \ (UnitsOf(index') \cup Y)) <= Counted(mem') - told'
      BY <1>1, <1>2, <2>1, <2>8, <2>9, <3>1, <3>2, WithinStep
    <3> QED BY <3>3 DEF Within, Y
  <2>11. checkpoint.state \in {"held", "answered"} => Within({})'
    <3>1. UnitsOf(index) \cup Z \subseteq UnitsOf(index') \cup N \cup {}
      BY <2>4, <2>5
    <3>2. UnitsOf(index) \cup N \subseteq UnitsOf(index') \cup N \cup {}
      BY <2>4
    <3>3. (checkpoint.state = "held" => Within(Z)) /\ (checkpoint.state = "answered" => Within(N))
      BY <1>1
    <3> HIDE DEF Z, N
    <3>4. checkpoint.state = "held" =>
           \/ mem'.storageFailure
           \/ Cardinality(checkpoint'.covers \ (UnitsOf(index') \cup N)) <= Counted(mem') - told'
      BY <1>1, <1>2, <2>1, <2>8, <2>9, <3>1, <3>3, WithinStep
    <3>5. checkpoint.state = "answered" =>
           \/ mem'.storageFailure
           \/ Cardinality(checkpoint'.covers \ (UnitsOf(index') \cup N)) <= Counted(mem') - told'
      BY <1>1, <1>2, <2>1, <2>8, <2>9, <3>2, <3>3, WithinStep
    <3> QED BY <3>4, <3>5 DEF Within, N
  <2>12. Alive /\ Alive' /\ checkpoint'.state # "held"
    BY <1>0, <1>1, <2>2, <2>8 DEF Alive
  <2> QED BY <1>1, <2>2, <2>8, <2>10, <2>11, <2>12 DEF CheckpointAccount
<1>14. CASE PersistForWaiter
  <2>1. /\ UNCHANGED <<index, queue, pub, mem, told, proc>> /\ pub.pc = "wait" /\ queue = <<>>
        /\ checkpoint.state = "waiting" /\ checkpoint' = [checkpoint EXCEPT !.state = "answered"]
    BY <1>14 DEF PersistForWaiter
  <2>2. pub.lines = <<>> /\ OnTheWay = {}
    BY <2>1 DEF Stages, OnTheWay
  <2>3. Travelling = {}
    BY <2>2 DEF Travelling, UnitsOf
  <2>4. checkpoint'.covers = checkpoint.covers /\ checkpoint'.state = "answered"
    BY <1>0, <2>1, CheckpointTyped
  <2>5. Within({})'
    BY <1>1, <2>1, <2>3, <2>4 DEF Within
  <2>6. Alive' /\ ~pub'.waiters
    BY <1>0, <1>1, <2>1 DEF Alive
  <2> QED BY <1>1, <2>4, <2>5, <2>6 DEF CheckpointAccount
<1>15. CASE RequestCheckpoint
  <2>1. /\ UNCHANGED <<index, queue, pub, mem, told, proc>>
        /\ checkpoint.state \in {"none", "answered"} /\ Alive
        /\ checkpoint' = [state |-> "waiting", covers |-> owed]
    BY <1>15 DEF RequestCheckpoint, Alive
  <2>2. checkpoint'.state = "waiting" /\ checkpoint'.covers = owed
    BY <2>1
  <2>3. ~pub'.waiters /\ Alive'
    BY <1>1, <2>1 DEF Alive
  <2>4. Within(Travelling)'
    <3>1. CASE mem.storageFailure
      BY <2>1, <3>1 DEF Within
    <3>2. CASE ~mem.storageFailure
      <4>1. Cardinality(owed \ (Durable \cup Travelling)) <= Counted(mem) - told
        BY <2>1, <3>2 DEF RunningAccount, Unknown
      <4>2. Durable \subseteq UnitsOf(index) \cup Travelling
        <5>1. Durable = {UnitAt(archiveLog, n) : n \in 1..stateFile.offset}
          BY DurableIs
        <5>2. /\ Len(index) = mem.offset /\ mem.offset <= stateFile.offset /\ stateFile.offset <= Len(archiveLog)
              /\ \A n \in 1..mem.offset : index[n].id = archiveLog[n].id /\ index[n].body = archiveLog[n].body
          BY <2>1 DEF LogInv
        <5>3. /\ mem.offset \in Nat /\ stateFile.offset \in Nat /\ DOMAIN index = 1..Len(index)
              /\ Len(pub.lines) \in Nat /\ DOMAIN pub.lines = 1..Len(pub.lines) /\ Len(archiveLog) \in Nat
          BY StateFields, LenProperties, PubTyped DEF Types
        <5>4. \A n \in 1..mem.offset : UnitAt(archiveLog, n) \in UnitsOf(index)
          BY <5>2, <5>3 DEF UnitAt, UnitsOf
        <5>5. stateFile.offset = mem.offset \/ pub.pc = "install"
          BY <2>1, <3>2, <5>2, <5>3 DEF LogInv, Unknown, Types, PubStates
        <5>6. CASE stateFile.offset = mem.offset
          BY <5>1, <5>4, <5>6
        <5>7. CASE pub.pc = "install"
          <6>1. /\ Len(archiveLog) = mem.offset + Len(pub.lines) /\ stateFile.offset = Len(archiveLog)
                /\ \A n \in 1..Len(pub.lines) : archiveLog[mem.offset + n] = pub.lines[n]
            BY <5>7 DEF LogInv
          <6>2. ASSUME NEW n \in 1..stateFile.offset, n > mem.offset
                PROVE  UnitAt(archiveLog, n) \in Travelling
            <7>1. n - mem.offset \in 1..Len(pub.lines) /\ mem.offset + (n - mem.offset) = n
              BY <5>3, <6>1, <6>2
            <7>2. UnitAt(archiveLog, n) = UnitAt(pub.lines, n - mem.offset)
              BY <6>1, <7>1 DEF UnitAt
            <7> QED BY <5>3, <7>1, <7>2, TravellingAt
          <6>3. \A n \in 1..stateFile.offset : n \in 1..mem.offset \/ n > mem.offset
            BY <5>3
          <6> QED BY <5>1, <5>4, <6>2, <6>3
        <5> QED BY <5>5, <5>6, <5>7
      <4>3. Travelling' = Travelling
        BY <2>1, TravellingSame
      <4> DEFINE A == owed \ (Durable \cup Travelling)
                 B == checkpoint'.covers \ (UnitsOf(index') \cup Travelling')
                 c == Counted(mem) - told
      <4>4. IsFiniteSet(A) /\ B \subseteq A
        BY <1>1, <2>1, <2>2, <4>2, <4>3, FS_Difference
      <4>5. c \in Int /\ Cardinality(A) <= c
        BY <1>0, <4>1
      <4> HIDE DEF A, B, c
      <4>6. Cardinality(B) <= c
        BY <4>4, <4>5, GapShrinks
      <4>7. Counted(mem') - told' = c
        BY <2>1 DEF c
      <4> QED BY <4>6, <4>7 DEF Within, B
    <3> QED BY <3>1, <3>2
  <2> QED BY <1>1, <2>2, <2>3, <2>4 DEF CheckpointAccount
<1>16. CASE PublicationEnds
  <2>1. /\ pub.pc = "wait" /\ pub'.lines = pub.lines /\ pub'.waiters = pub.waiters
        /\ UNCHANGED <<checkpoint, index, queue, mem, told, proc>>
    BY <1>0, <1>16 DEF PublicationEnds, PubStates
  <2> QED BY <1>0, <1>1, <1>3, <2>1 DEF Alive
<1>17. CASE MarkClean
  <2>1. UNCHANGED <<checkpoint, index, queue, pub, told>> /\ Alive /\ Alive'
    BY <1>17 DEF MarkClean, Alive
  <2>2. mem'.storageFailure = mem.storageFailure /\ Counted(mem') = Counted(mem)
    BY <1>0, <1>17 DEF MarkClean, State, Counted
  <2> QED BY <1>0, <1>1, <1>3, <2>1, <2>2
<1>18. CASE Shutdown \/ Query \/ NextPage \/ UNCHANGED collectorVars
  <2>1. UNCHANGED <<checkpoint, index, queue, pub, told, mem>> /\ (Alive' <=> Alive)
    BY <1>18 DEF Shutdown, Query, NextPage, collectorVars, disk, Alive
  <2> QED BY <1>0, <1>1, <1>3, <2>1
<1> QED
  BY <1>4, <1>5, <1>6, <1>7, <1>8, <1>9, <1>10, <1>11, <1>12, <1>13, <1>14, <1>15, <1>16, <1>17,
     <1>18 DEF Step, CollectorNext

----------------------------------------------------------------------------
(* The theorems                                                            *)

\* A collector that has never run satisfies the invariant.
LEMMA InitInvariant ==
  ASSUME CollectorInit
  PROVE  IInv
<1>1. /\ archiveLog = <<>> /\ quarFile = 0 /\ stateFile = [FreshState(0) EXCEPT !.clean = TRUE]
      /\ policyFile = [desired |-> "off", rev |-> 0] /\ policy = policyFile
      /\ proc = "down" /\ stopping = FALSE /\ mem = FreshState(0)
      /\ queue = <<>> /\ identities = <<>> /\ index = <<>>
      /\ pub = [Idle EXCEPT !.pc = "ended"] /\ checkpoint = NoCheckpoint
      /\ reader.shown = {} /\ owed = {} /\ told = 0
      /\ budget = [admissions |-> MaxAdmissions, policies |-> MaxPolicies,
                   faults |-> MaxStorageFaults, starts |-> MaxStarts]
  BY DEF CollectorInit
<1>2. stateFile \in State /\ stateFile.offset = 0 /\ Counted(stateFile) = 0
  <2> DEFINE f == FreshState(0)
  <2>1. /\ f \in State /\ f.offset = 0
        /\ f.dropped = 0 /\ f.failed = 0 /\ f.refused = 0
    BY IdleTyped DEF FreshState
  <2>2. stateFile = [f EXCEPT !.clean = TRUE]
    BY <1>1
  <2> HIDE DEF f
  <2>3. /\ stateFile \in State /\ stateFile.offset = 0
        /\ stateFile.dropped = 0 /\ stateFile.failed = 0 /\ stateFile.refused = 0
    BY <2>1, <2>2 DEF State
  <2> QED BY <2>3 DEF Counted
<1>3. pub \in PubStates /\ pub.pc = "ended" /\ pub.lines = <<>> /\ pub.waiters = FALSE
  BY <1>1, IdleTyped
<1>4. checkpoint \in Checkpoints /\ checkpoint.state = "none" /\ checkpoint.covers = {}
  BY <1>1 DEF NoCheckpoint, Checkpoints
<1>5. ~Alive
  BY <1>1 DEF Alive
<1>6. IsFiniteSet({}) /\ Cardinality({}) = 0
  BY FS_EmptySet
<1>7. Types
  <2>1. mem \in State
    BY <1>1, IdleTyped
  <2>2. policyFile \in [desired : Policies, rev : Nat] /\ policy \in [desired : Policies, rev : Nat]
    BY <1>1 DEF Policies
  <2>3. DOMAIN identities \subseteq Ids /\ Range(identities) \subseteq Bodies
    BY <1>1 DEF Range
  <2>4. budget \in Budgets
    BY <1>1, BoundsAreNaturals DEF Budgets
  <2>5. queue \in Seq(Items) /\ Len(queue) <= QueueCount /\ archiveLog \in Seq(Lines) /\ index \in Seq(IndexRows)
    BY <1>1, LimitsPositive
  <2> QED BY <1>1, <1>2, <1>3, <1>4, <1>6, <2>1, <2>2, <2>3, <2>4, <2>5 DEF Types
<1>8. Stages /\ CleanInv
  BY <1>1, <1>3, <1>5 DEF Stages, CleanInv
<1>9. LogInv /\ ShownInv
  BY <1>1, <1>2, <1>3, <1>5 DEF LogInv, ShownInv
<1>10. IdInv
  <2>1. Lasting = {} /\ OnTheWay = {}
    BY <1>1 DEF Lasting, OnTheWay
  <2> QED BY <1>3, <1>5, <2>1 DEF IdInv
<1>11. RunningAccount /\ CheckpointAccount
  BY <1>3, <1>4, <1>5, <1>6 DEF RunningAccount, CheckpointAccount
<1>12. SealedAccount
  <2> DEFINE A == owed \ Durable
  <2>1. A = {} /\ Counted(stateFile) - told = 0
    BY <1>1, <1>2
  <2> HIDE DEF A
  <2>2. Cardinality(A) <= Counted(stateFile) - told
    BY <1>6, <2>1
  <2> QED BY <2>2 DEF SealedAccount, A
<1> QED BY <1>7, <1>8, <1>9, <1>10, <1>11, <1>12 DEF IInv

\* The parts of the invariant survive together.
LEMMA StepInvariant ==
  ASSUME NoTornAppend, IInv, [CollectorNext]_collectorVars
  PROVE  IInv'
<1>1. Step
  BY DEF Step
<1>2. /\ Types /\ Stages /\ LogInv /\ ShownInv /\ IdInv /\ CleanInv
      /\ RunningAccount /\ SealedAccount /\ CheckpointAccount
  BY DEF IInv
<1>3. Types' /\ Stages' /\ LogInv'
  BY <1>1, <1>2, TypesStep, StagesStep, LogStep
<1>4. ShownInv' /\ IdInv' /\ CleanInv'
  BY <1>1, <1>2, <1>3, ShownStep, IdStep, CleanStep
<1>5. RunningAccount' /\ SealedAccount' /\ CheckpointAccount'
  BY <1>1, <1>2, <1>3, RunningStep, SealedStep, CheckpointStep
<1> QED BY <1>3, <1>4, <1>5 DEF IInv

\* What the invariant says of the admitted units.
LEMMA InvariantAccounts ==
  ASSUME IInv
  PROVE  AdmittedAccounted
<1>0. /\ Types /\ LogInv /\ ShownInv /\ IdInv /\ RunningAccount /\ CheckpointAccount
  BY DEF IInv
<1>1. /\ mem.offset \in Nat /\ stateFile.offset \in Nat /\ Len(archiveLog) \in Nat /\ DOMAIN archiveLog = 1..Len(archiveLog)
      /\ Counted(mem) \in Nat /\ told \in Nat /\ IsFiniteSet(owed)
  BY <1>0, StateFields, LenProperties DEF Types
<1>2. LossDeclared
  <2> SUFFICES ASSUME Alive, ~Unknown
               PROVE  Cardinality(owed \ (Durable \cup Pending)) <= Counted(mem) - told
    BY DEF LossDeclared, Unknown
  <2> DEFINE A == owed \ (Durable \cup Travelling)
             B == owed \ (Durable \cup Pending)
  <2>1. Travelling \subseteq Pending
    BY DEF Travelling, Pending, UnitsOf, OnTheWay
  <2>2. IsFiniteSet(A) /\ B \subseteq A
    BY <1>1, <2>1, FS_Difference
  <2>3. Cardinality(A) <= Counted(mem) - told
    BY <1>0 DEF RunningAccount
  <2> HIDE DEF A, B
  <2>4. Cardinality(B) <= Counted(mem) - told
    BY <1>1, <2>2, <2>3, GapShrinks
  <2> QED BY <2>4 DEF B
<1>3. ShownStays
  <2> SUFFICES ASSUME NEW r \in reader.shown
               PROVE  /\ r.offset < stateFile.offset /\ r.offset < Len(archiveLog)
                      /\ archiveLog[r.offset + 1].id = r.id /\ archiveLog[r.offset + 1].seq = r.seq
    BY DEF ShownStays
  <2>1. /\ r.offset \in Nat
        /\ r.offset < IF Alive THEN mem.offset ELSE stateFile.offset
        /\ archiveLog[r.offset + 1].id = r.id /\ archiveLog[r.offset + 1].seq = r.seq
    BY <1>0 DEF ShownInv
  <2>2. stateFile.offset <= Len(archiveLog) /\ (Alive => mem.offset <= stateFile.offset)
    BY <1>0 DEF LogInv
  <2> QED BY <1>1, <2>1, <2>2
<1>4. PublishedOnce
  <2> SUFFICES ASSUME NEW m \in 1..stateFile.offset, NEW n \in 1..stateFile.offset,
                      m < n, n <= Len(archiveLog), archiveLog[m].id = archiveLog[n].id, ~archiveLog[m].loss, ~archiveLog[n].loss
               PROVE  FALSE
    BY DEF PublishedOnce
  <2>1. m \in Lasting /\ n \in Lasting /\ m # n
    BY <1>1 DEF Lasting
  <2> QED BY <1>0, <2>1 DEF IdInv
<1>5. CheckpointCovers
  <2>1. checkpoint.covers \ (UnitsOf(index) \cup {}) = checkpoint.covers \ UnitsOf(index)
    OBVIOUS
  <2> QED BY <1>0, <2>1 DEF CheckpointAccount, Within, CheckpointCovers
<1> QED BY <1>2, <1>3, <1>4, <1>5 DEF AdmittedAccounted

\* The invariant holds of every behaviour of the collector in which no failed
\* append leaves bytes behind.
THEOREM CollectorInvariant ==
  ASSUME NoTornAppend
  PROVE  CollectorSpec => []IInv
<1>1. CollectorInit => IInv
  BY InitInvariant
<1>2. IInv /\ [CollectorNext]_collectorVars => IInv'
  BY StepInvariant
<1> QED BY <1>1, <1>2, PTL DEF CollectorSpec

\* Every admitted unit is published once, shown for good once it was shown,
\* covered by its checkpoint or counted as lost: _accept_one, _queue_locked,
\* _publish_inner, _checkpoint_and_snapshot, _mark_clean and the restart.
THEOREM AdmittedIsAccounted ==
  ASSUME NoTornAppend
  PROVE  CollectorSpec => []AdmittedAccounted
<1>1. IInv => AdmittedAccounted
  BY InvariantAccounts
<1> QED BY <1>1, CollectorInvariant, PTL
\* A restart begins with every row that was ever shown: _reconcile_file and
\* _rebuild_index find the published prefix whole (docs/input-archive.md:799).
\* With a torn append it is false.
THEOREM PrefixIsKept ==
  ASSUME NoTornAppend
  PROVE  CollectorSpec => []PublishedPrefixKept
<1>1. IInv => PublishedPrefixKept
  <2> SUFFICES ASSUME IInv, Alive, NEW r \in reader.shown
               PROVE  \E n \in DOMAIN index : index[n].id = r.id /\ index[n].seq = r.seq
    BY DEF PublishedPrefixKept
  <2>1. /\ Types /\ LogInv /\ ShownInv
    BY DEF IInv
  <2>2. /\ r.offset \in Nat /\ r.offset < mem.offset
        /\ archiveLog[r.offset + 1].id = r.id /\ archiveLog[r.offset + 1].seq = r.seq
    BY <2>1 DEF ShownInv
  <2>3. mem.offset \in Nat /\ index \in Seq(IndexRows)
    BY <2>1 DEF Types, State
  <2>4. r.offset + 1 \in 1..mem.offset
    BY <2>2, <2>3
  <2>5. /\ Len(index) = mem.offset
        /\ index[r.offset + 1].id = archiveLog[r.offset + 1].id
        /\ index[r.offset + 1].seq = archiveLog[r.offset + 1].seq
    BY <2>1, <2>4 DEF LogInv
  <2>6. r.offset + 1 \in DOMAIN index
    BY <2>3, <2>4, <2>5
  <2> QED BY <2>2, <2>5, <2>6
<1> QED BY <1>1, CollectorInvariant, PTL

----------------------------------------------------------------------------
(* The restore of a backup (ArchiveManagement): its inductive invariant.   *)

\* A checkpoint never overlaps the switch of a restore.
NoOverlap == ~Overlap

ContentRecords == [rows : Seq(Sources), ann : Seq(Nat), mark : Nat, there : BOOLEAN]
JobStates == {"none", "pending", "running", "unknown", "succeeded", "failed", "cancelled"}
JobRecords == [kind : {"none", "backup", "restore"}, state : JobStates, copy : ContentRecords, from : Roots,
               cur : ContentRecords, keep : BOOLEAN, old : Roots, cleanup : {"not_started", "pending", "done", "residuals"}]
Memories == [up : BOOLEAN, root : Roots, seq : Nat, queue : Seq(Sources), publishing : Seq(Sources), transition : BOOLEAN,
             mutex : BOOLEAN, writer : BOOLEAN, readers : Int, active : Roots, cancel : BOOLEAN, failed : BOOLEAN,
             unavailable : BOOLEAN, uncertain : SUBSET Jobs, broken : BOOLEAN, poisoned : BOOLEAN]
Authorities == [gen : Nat, serving : Roots, committed : SUBSET Jobs, sources : [Sources -> Int]]

\* The steps of a restore while it holds the gate, and while admission is stopped.
Switching == {"switch", "reload", "finish", "cleanup"}
Holding == {"compare", "flag"} \cup Switching
\* The steps before and after the commit point.
Preparing == {"run", "commit", "gate", "compare", "flag", "switch"}
Installing == {"reload", "finish", "cleanup"}
Workers == [pc : {"idle"} \cup Preparing \cup Installing, job : Roots]

ManagementTypes ==
    /\ contents \in [Roots -> ContentRecords]
    /\ auth \in Authorities
    /\ jobs \in [Jobs -> JobRecords]
    /\ col \in Memories
    /\ wk \in Workers
    /\ plan \in [kind : {"none", "backup", "restore"}, from : Roots, cur : ContentRecords, gen : Nat]
    /\ edit \in [pc : {"none", "composed", "leased"}, gen : Nat, rev : Nat]
    /\ stateBytes \in Nat \cup {-1}
    /\ crashes \in Nat

\* The job of the thread.
WorkerInv ==
    /\ ~col.up => wk = IdleManager
    /\ wk.pc = "idle" => wk = IdleManager /\ (col.up => col.active = 0)
    /\ wk.pc # "idle" => wk.job \in Jobs /\ col.active = wk.job /\ ~col.unavailable /\ jobs[wk.job].kind # "none"
    /\ wk.pc = "run" => jobs[wk.job].state = "pending"
    /\ wk.pc \in (Preparing \cup Installing) \ {"run", "cleanup"} => jobs[wk.job].state = "running"
    /\ wk.pc = "cleanup" => jobs[wk.job].state = "succeeded"
    /\ wk.pc = "commit" => jobs[wk.job].kind = "backup"
    /\ wk.pc \in {"gate"} \cup Holding => jobs[wk.job].kind = "restore"
    /\ wk.pc \in Preparing => wk.job \notin auth.committed
    /\ wk.pc \in Installing => wk.job \in auth.committed
\* What the thread holds.
LockInv ==
    /\ col.up => /\ col.writer <=> wk.pc \in Holding
                 /\ col.mutex <=> wk.pc \in Holding
                 /\ col.transition <=> wk.pc \in Switching
                 /\ col.readers = IF edit.pc = "leased" THEN 1 ELSE 0
    /\ edit.pc = "leased" => col.up /\ ~col.writer
\* What the documents say of committed and of closed jobs.
OutcomeInv ==
    /\ plan.kind = "none" => plan = NoPlan
    /\ plan.kind = "restore" => plan.from \in Jobs
    /\ \A j \in Jobs : jobs[j].state = "none" <=> jobs[j] = NoJob
    /\ \A j \in Jobs : jobs[j].state # "none" => jobs[j].kind # "none"
    /\ \A j \in Jobs : jobs[j].kind = "restore" => jobs[j].from \in Jobs
    /\ \A j \in Jobs : jobs[j].state \in {"cancelled", "failed"} => j \notin auth.committed
    /\ \A j \in auth.committed : jobs[j].kind = "restore"
    /\ col.up => \A j \in auth.committed :
           jobs[j].state = "succeeded" \/ j \in col.uncertain \/ (wk.job = j /\ wk.pc \in {"reload", "finish"})
ControlInv == ManagementTypes /\ WorkerInv /\ LockInv /\ OutcomeInv

-----------------------------------------------------------------------------
\* The durable files name one content, of which every byte is covered; what was
\* replaced never serves again.
FilesInv ==
    /\ auth.serving = 0 <=> auth.gen = 0
    /\ auth.serving \in {0} \cup auth.committed
    /\ \A r \in Roots : contents[r].mark = Len(contents[r].rows)
    /\ contents[auth.serving].there
    /\ \A j \in auth.committed : jobs[j].old \in {0} \cup auth.committed /\ jobs[j].old # auth.serving
ServedInv == FilesInv /\ WrittenForServing /\ ReplacedAsConfirmed /\ RestoredWhole
\* Backups are whole, and restores are of backups.
BackupInv ==
    \A j \in Jobs :
        /\ jobs[j].copy.mark = Len(jobs[j].copy.rows)
        /\ jobs[j].kind # "none" => jobs[j].cur.there
        /\ jobs[j].kind = "backup" /\ jobs[j].state \in {"running", "succeeded"} => jobs[j].copy.there
        /\ jobs[j].kind = "restore" => jobs[jobs[j].from].kind = "backup" /\ jobs[jobs[j].from].state = "succeeded"
\* A collector that lost its authority or its content, with nothing under way.
Halted == col.unavailable /\ col.queue = <<>> /\ col.publishing = <<>> /\ stateBytes = -1 /\ edit.pc # "leased"
\* Memory and files agree about what serves.
MemoryInv ==
    /\ col.up => Halted \/ (col.root = auth.serving /\ (wk.pc # "reload" => col.seq = contents[col.root].mark))
    /\ wk.pc \in Installing => auth.serving = wk.job
    /\ wk.pc \in Switching => col.queue = <<>> /\ col.publishing = <<>>
    /\ stateBytes # -1 => col.up /\ col.publishing = <<>> /\ stateBytes = col.seq /\ wk.pc \notin Holding
\* What the thread has copied, confirmed and noted by the commit point.
RestoreInv ==
    /\ wk.pc \in {"gate", "compare", "flag", "switch"} => contents[wk.job] = RestoredFrom(wk.job)
    /\ wk.pc \in {"flag", "switch"} => contents[col.root] = jobs[wk.job].cur
    /\ wk.pc = "switch" => jobs[wk.job].old = col.root
\* What is on its way to the serving content was admitted or leased for it.
FenceInv ==
    /\ col.up => /\ \A i \in 1 .. Len(col.queue) : auth.sources[col.queue[i]] = auth.gen
                 /\ \A i \in 1 .. Len(col.publishing) : auth.sources[col.publishing[i]] = auth.gen
    /\ edit.pc = "leased" /\ auth.gen # 0 => edit.gen = auth.gen
ContentInv == ServedInv /\ BackupInv /\ MemoryInv /\ RestoreInv /\ FenceInv

-----------------------------------------------------------------------------
(* Types.                                                                  *)

LEMMA JobNumbers == Jobs \subseteq Nat /\ 0 \notin Jobs /\ Jobs \subseteq Roots /\ 0 \in Roots /\ Roots \subseteq Nat
  BY JobsAssumption, FS_CardinalityType DEF Roots

\* The fields that every action of the collector writes.
LEMMA ContentTypes ==
  ASSUME NEW c \in ContentRecords
  PROVE  /\ \A rows \in Seq(Sources), mark \in Nat : [c EXCEPT !.rows = rows, !.mark = mark] \in ContentRecords
         /\ \A mark \in Nat : [c EXCEPT !.mark = mark] \in ContentRecords
         /\ \A ann \in Seq(Nat) : [c EXCEPT !.ann = ann] \in ContentRecords
         /\ NoContent \in ContentRecords
<1>1. /\ \A rows \in Seq(Sources), mark \in Nat : [c EXCEPT !.rows = rows, !.mark = mark] \in ContentRecords
      /\ \A mark \in Nat : [c EXCEPT !.mark = mark] \in ContentRecords
  BY DEF ContentRecords
<1>2. \A ann \in Seq(Nat) : [c EXCEPT !.ann = ann] \in ContentRecords
  BY DEF ContentRecords
<1>3. NoContent \in ContentRecords
  BY DEF ContentRecords, NoContent
<1> QED
  BY <1>1, <1>2, <1>3

LEMMA ReconciledTypes ==
  ASSUME NEW c \in ContentRecords
  PROVE  Reconciled(c) \in ContentRecords
<1>1. c.rows \in Seq(Sources) /\ c.mark \in Nat
  BY DEF ContentRecords
<1>2. SubSeq(c.rows, 1, IF c.mark < Len(c.rows) THEN c.mark ELSE Len(c.rows)) \in Seq(Sources)
  BY <1>1
<1> QED
  BY <1>2 DEF Reconciled, ContentRecords

\* A copy of a field.
LEMMA FieldTypes ==
  ASSUME ManagementTypes
  PROVE  /\ \A r \in Roots : contents[r] \in ContentRecords
         /\ \A j \in Jobs : jobs[j] \in JobRecords /\ jobs[j].copy \in ContentRecords /\ jobs[j].cur \in ContentRecords
         /\ \A r \in Roots : contents[r].rows \in Seq(Sources) /\ contents[r].ann \in Seq(Nat) /\ contents[r].mark \in Nat
         /\ col.root \in Roots /\ col.seq \in Nat /\ col.queue \in Seq(Sources) /\ col.publishing \in Seq(Sources)
         /\ auth.gen \in Nat /\ auth.serving \in Roots /\ auth.committed \subseteq Jobs
         /\ auth.sources \in [Sources -> Int]
         /\ wk.job \in Roots
  BY DEF ManagementTypes, Memories, Authorities, JobRecords, ContentRecords, Workers

\* What an error leaves.
LEMMA FailTypes ==
  ASSUME ManagementTypes, NEW memory \in Memories, wk.job \in Jobs, NEW state \in JobStates, Fail(memory, state)
  PROVE  col' \in Memories /\ jobs' \in [Jobs -> JobRecords] /\ wk' \in Workers
<1>1. Released(memory) \in Memories
  BY DEF Released, Memories
<1> DEFINE m == Released(memory)
<1>2. wk' \in Workers
  BY JobNumbers DEF Fail, IdleManager, Workers
<1>3. \A u \in BOOLEAN : [m EXCEPT !.uncertain = @ \cup {wk.job}, !.active = 0, !.unavailable = @ \/ u] \in Memories
  BY <1>1, JobNumbers DEF Memories
<1>4. [m EXCEPT !.active = 0] \in Memories
  BY <1>1, JobNumbers DEF Memories
<1>5. [jobs EXCEPT ![wk.job].state = state] \in [Jobs -> JobRecords] /\ jobs \in [Jobs -> JobRecords]
  BY DEF ManagementTypes, JobRecords
<1>6. col' \in Memories
  <2>1. CASE jobs[wk.job].state = "succeeded" \/ wk.job \in auth'.committed \/ memory.failed
    <3> DEFINE u == Job.kind = "restore" /\ (memory.failed \/ wk.job \in auth'.committed)
    <3>1. u \in BOOLEAN
      OBVIOUS
    <3>2. col' = [m EXCEPT !.uncertain = @ \cup {wk.job}, !.active = 0, !.unavailable = @ \/ u]
      BY <2>1 DEF Fail
    <3> QED
      BY ONLY <3>1, <3>2, <1>3
  <2>2. CASE ~(jobs[wk.job].state = "succeeded" \/ wk.job \in auth'.committed \/ memory.failed)
    BY <2>2, <1>4 DEF Fail
  <2> QED
    BY <2>1, <2>2
<1>7. jobs' \in [Jobs -> JobRecords]
  BY <1>5 DEF Fail
<1> QED
  BY <1>2, <1>6, <1>7

\* What a start reads.
LEMMA LoadTypes ==
  ASSUME ManagementTypes, NEW root \in Roots
  PROVE  LoadLabels(LoadContentState(col, root)) \in Memories
<1>1. contents[root].mark \in Nat
  BY FieldTypes
<1>2. (contents[root].mark > Len(contents[root].rows)) \in BOOLEAN
  OBVIOUS
<1>3. LoadContentState(col, root) \in Memories
  BY <1>1, <1>2 DEF LoadContentState, ManagementTypes, Memories
<1> QED
  BY <1>3 DEF LoadLabels, Memories

\* The job a request reserves is one that was free.
LEMMA RequestedJob ==
  ASSUME NEW keep \in BOOLEAN, RequestJob(keep)
  PROVE  \E j \in FreeJobs :
            /\ jobs' = [jobs EXCEPT ![j] = [NoJob EXCEPT !.kind = plan.kind, !.state = "pending", !.from = plan.from,
                                               !.cur = plan.cur, !.keep = keep \/ plan.kind = "backup"]]
            /\ col' = [col EXCEPT !.active = j, !.cancel = FALSE]
            /\ wk' = [pc |-> "run", job |-> j]
<1>1. FreeJobs \subseteq Nat /\ FreeJobs # {}
  BY JobNumbers DEF FreeJobs, RequestJob
<1> DEFINE j == CHOOSE k \in FreeJobs : \A i \in FreeJobs : k <= i
<1>2. j \in FreeJobs
  <2>1. \E k \in FreeJobs : \A i \in FreeJobs : k <= i
    BY ONLY <1>1, LeastOf
  <2> QED
    BY ONLY <2>1
<1> QED
  BY <1>2 DEF RequestJob

\* A request writes typed documents.
LEMMA RequestTypes ==
  ASSUME ManagementTypes, NEW keep \in BOOLEAN, RequestJob(keep)
  PROVE  ManagementTypes'
<1>1. PICK j \in FreeJobs :
         /\ jobs' = [jobs EXCEPT ![j] = [NoJob EXCEPT !.kind = plan.kind, !.state = "pending", !.from = plan.from,
                                            !.cur = plan.cur, !.keep = keep \/ plan.kind = "backup"]]
         /\ col' = [col EXCEPT !.active = j, !.cancel = FALSE]
         /\ wk' = [pc |-> "run", job |-> j]
  BY RequestedJob
<1>2. j \in Jobs /\ j \in Roots
  BY JobNumbers DEF FreeJobs
<1>3. plan.kind \in {"none", "backup", "restore"} /\ plan.from \in Roots /\ plan.cur \in ContentRecords
  BY DEF ManagementTypes
<1>4. NoContent \in ContentRecords
  BY DEF NoContent, ContentRecords
<1>5. [NoJob EXCEPT !.kind = plan.kind, !.state = "pending", !.from = plan.from, !.cur = plan.cur,
                    !.keep = keep \/ plan.kind = "backup"] \in JobRecords
  BY <1>3, <1>4, JobNumbers DEF NoJob, JobRecords, JobStates
<1>6. jobs' \in [Jobs -> JobRecords]
  BY <1>1, <1>5 DEF ManagementTypes
<1>7. col' \in Memories /\ wk' \in Workers
  BY <1>1, <1>2 DEF ManagementTypes, Memories, Workers, Preparing
<1>8. plan' \in [kind : {"none", "backup", "restore"}, from : Roots, cur : ContentRecords, gen : Nat]
  BY <1>4, JobNumbers DEF RequestJob, NoPlan
<1> QED
  BY <1>6, <1>7, <1>8 DEF ManagementTypes, RequestJob

\* Leases are counted.
LEMMA ReaderTypes ==
  ASSUME ManagementTypes
  PROVE  /\ [col EXCEPT !.readers = @ + 1] \in Memories
         /\ [col EXCEPT !.readers = @ - 1] \in Memories
         /\ [col EXCEPT !.readers = @ - 1, !.poisoned = TRUE] \in Memories
<1>1. col \in Memories
  BY DEF ManagementTypes
<1>2. col.readers \in Int /\ col.readers + 1 \in Int /\ col.readers - 1 \in Int
  BY <1>1 DEF Memories
<1>3. \A n \in Int : [col EXCEPT !.readers = n] \in Memories
  BY <1>1 DEF Memories
<1>4. \A n \in Int : [col EXCEPT !.readers = n, !.poisoned = TRUE] \in Memories
  BY <1>1 DEF Memories
<1>5. /\ [col EXCEPT !.readers = @ + 1] = [col EXCEPT !.readers = col.readers + 1]
      /\ [col EXCEPT !.readers = @ - 1] = [col EXCEPT !.readers = col.readers - 1]
      /\ [col EXCEPT !.readers = @ - 1, !.poisoned = TRUE] = [col EXCEPT !.readers = col.readers - 1, !.poisoned = TRUE]
  OBVIOUS
<1> QED
  BY <1>2, <1>3, <1>4, <1>5

\* The producers, the publisher, the checkpoints and the annotations write typed values.
LEMMA ServingTypes ==
  ASSUME ManagementTypes,
         \/ \E s \in Sources : ObserveProducer(s) \/ AdmitRow(s)
         \/ TakeRow \/ Publish \/ CheckpointRead \/ CheckpointWrite
         \/ ReadLabels \/ BeginEdit \/ Mutate
  PROVE  ManagementTypes'
<1>1. ASSUME NEW s \in Sources, ObserveProducer(s)
      PROVE  ManagementTypes'
  <2>1. [auth EXCEPT !.sources[s] = auth.gen] \in Authorities
    BY DEF ManagementTypes, Authorities
  <2>2. [col EXCEPT !.failed = TRUE] \in Memories
    BY DEF ManagementTypes, Memories
  <2>3. auth' \in Authorities /\ col' \in Memories
    BY <1>1, <2>1, <2>2 DEF ObserveProducer, WriteAuthority, ManagementTypes
  <2> QED
    BY <1>1, <2>3 DEF ManagementTypes, ObserveProducer
<1>2. ASSUME NEW s \in Sources, AdmitRow(s)
      PROVE  ManagementTypes'
  <2>1. Append(col.queue, s) \in Seq(Sources)
    BY FieldTypes
  <2>2. col' \in Memories
    BY <1>2, <2>1 DEF ManagementTypes, Memories, AdmitRow
  <2> QED
    BY <1>2, <2>2 DEF ManagementTypes, AdmitRow
<1>3. CASE TakeRow
  <2>1. col' \in Memories
    BY <1>3 DEF ManagementTypes, Memories, TakeRow
  <2> QED
    BY <1>3, <2>1 DEF ManagementTypes, TakeRow
<1>4. CASE Publish
  <2>1. contents[col.root].rows \o col.publishing \in Seq(Sources) /\ col.seq + Len(col.publishing) \in Nat
    BY FieldTypes
  <2>2. contents' \in [Roots -> ContentRecords]
    <3>1. [contents[col.root] EXCEPT !.rows = contents[col.root].rows \o col.publishing,
                                     !.mark = col.seq + Len(col.publishing)] \in ContentRecords
      BY <2>1, FieldTypes, ContentTypes
    <3> QED
      BY <1>4, <3>1, FieldTypes DEF ManagementTypes, Publish
  <2>3. col' \in Memories
    <3>1. col' = [col EXCEPT !.publishing = <<>>, !.seq = col.seq + Len(col.publishing)]
      BY <1>4, FieldTypes DEF Publish
    <3>2. <<>> \in Seq(Sources) /\ col \in Memories
      BY DEF ManagementTypes
    <3> QED
      BY <2>1, <3>1, <3>2 DEF Memories
  <2> QED
    BY <1>4, <2>2, <2>3 DEF ManagementTypes, Publish
<1>5. CASE CheckpointRead
  BY <1>5, FieldTypes DEF ManagementTypes, CheckpointRead
<1>6. CASE CheckpointWrite
  <2>1. stateBytes \in Nat
    BY <1>6 DEF ManagementTypes, CheckpointWrite
  <2>2. [contents[col.root] EXCEPT !.mark = stateBytes] \in ContentRecords
    BY <2>1, FieldTypes, ContentTypes
  <2>3. contents' \in [Roots -> ContentRecords]
    BY <1>6, <2>2, FieldTypes DEF ManagementTypes, CheckpointWrite
  <2> QED
    BY <1>6, <2>3 DEF ManagementTypes, CheckpointWrite
<1>7. CASE ReadLabels
  <2>1. Len(contents[col.root].ann) \in Nat
    BY FieldTypes
  <2>2. edit' \in [pc : {"none", "composed", "leased"}, gen : Nat, rev : Nat]
    BY <1>7, <2>1, FieldTypes DEF ReadLabels
  <2> QED
    BY <1>7, <2>2 DEF ManagementTypes, ReadLabels
<1>8. CASE BeginEdit
  <2>1. col' \in Memories
    <3>1. [col EXCEPT !.readers = @ + 1] \in Memories /\ col \in Memories
      BY ReaderTypes DEF ManagementTypes
    <3> QED
      BY <1>8, <3>1 DEF BeginEdit
  <2>2. edit' \in [pc : {"none", "composed", "leased"}, gen : Nat, rev : Nat]
    BY <1>8 DEF ManagementTypes, BeginEdit, NoEdit
  <2> QED
    BY <1>8, <2>1, <2>2 DEF ManagementTypes, BeginEdit
<1>9. CASE Mutate
  <2>1. Append(contents[col.root].ann, edit.gen) \in Seq(Nat)
    BY FieldTypes DEF ManagementTypes
  <2>2. [contents EXCEPT ![col.root].ann = Append(@, edit.gen)] \in [Roots -> ContentRecords]
    <3>1. [contents[col.root] EXCEPT !.ann = Append(contents[col.root].ann, edit.gen)] \in ContentRecords
      BY <2>1, FieldTypes, ContentTypes
    <3> QED
      BY <3>1, FieldTypes DEF ManagementTypes
  <2>3. contents' \in [Roots -> ContentRecords]
    BY <1>9, <2>2 DEF ManagementTypes, Mutate
  <2>4. col' \in Memories
    <3>1. [col EXCEPT !.readers = @ - 1] \in Memories
      BY ReaderTypes
    <3>2. [col EXCEPT !.readers = @ - 1, !.poisoned = TRUE] \in Memories
      BY ReaderTypes
    <3> QED
      BY <1>9, <3>1, <3>2 DEF Mutate
  <2>5. edit' \in [pc : {"none", "composed", "leased"}, gen : Nat, rev : Nat]
    BY <1>9 DEF Mutate, NoEdit
  <2> QED
    BY <1>9, <2>3, <2>4, <2>5 DEF ManagementTypes, Mutate
<1> QED
  BY <1>1, <1>2, <1>3, <1>4, <1>5, <1>6, <1>7, <1>8, <1>9

\* Previews, requests and cancels write typed values.
LEMMA ClientTypes ==
  ASSUME ManagementTypes,
         \/ Preview \/ \E keep \in BOOLEAN : RequestJob(keep)
         \/ \E j \in Jobs : Cancel(j)
  PROVE  ManagementTypes'
<1>1. CASE Preview
  <2>1. Frontier \in ContentRecords /\ Backups \subseteq Roots
    BY FieldTypes, JobNumbers DEF Frontier, Backups
  <2>2. plan' \in [kind : {"none", "backup", "restore"}, from : Roots, cur : ContentRecords, gen : Nat]
    BY <1>1, <2>1, FieldTypes, JobNumbers DEF Preview
  <2> QED
    BY <1>1, <2>2 DEF ManagementTypes, Preview
<1>2. ASSUME NEW j \in Jobs, Cancel(j)
      PROVE  ManagementTypes'
  <2>1. col' \in Memories
    <3>1. [col EXCEPT !.cancel = TRUE] \in Memories /\ col \in Memories
      BY DEF ManagementTypes, Memories
    <3> QED
      BY <1>2, <3>1 DEF Cancel, CancelJob
  <2>2. [jobs EXCEPT ![j].state = "cancelled"] \in [Jobs -> JobRecords]
    BY DEF ManagementTypes, JobRecords, JobStates
  <2>3. jobs' \in [Jobs -> JobRecords]
    BY <1>2, <2>2 DEF Cancel, CancelJob, ManagementTypes
  <2> QED
    BY <1>2, <2>1, <2>3 DEF ManagementTypes, Cancel
<1> QED
  BY <1>1, <1>2, RequestTypes

\* The thread writes typed values up to the commit point.
LEMMA PreparingTypes ==
  ASSUME ManagementTypes, WorkerInv, OutcomeInv,
         CopyFiles \/ CommitBackup \/ AcquireGate \/ Compare \/ BeginTransition \/ SwitchAuthority
  PROVE  ManagementTypes'
<1>1. wk.job \in Jobs /\ jobs[wk.job] \in JobRecords
  BY FieldTypes DEF WorkerInv, Worker, CopyFiles, CommitBackup, AcquireGate, Compare, BeginTransition, SwitchAuthority
<1>2. jobs \in [Jobs -> JobRecords] /\ col \in Memories /\ wk \in Workers /\ contents \in [Roots -> ContentRecords] /\ auth \in Authorities
  BY DEF ManagementTypes
<1>3. \A p \in Preparing \cup Installing : [wk EXCEPT !.pc = p] \in Workers
  BY <1>2 DEF Workers
<1>4. ASSUME NEW state \in JobStates
      PROVE  [jobs EXCEPT ![wk.job].state = state] \in [Jobs -> JobRecords]
  BY <1>2 DEF JobRecords
<1>5. CASE CopyFiles
  <2> DEFINE copy == IF Job.kind = "backup" THEN [Job.cur EXCEPT !.mark = Len(Job.cur.rows)] ELSE jobs[Job.from].copy
             value == [jobs[wk.job] EXCEPT !.state = "running", !.copy = copy]
  <2>1. copy \in ContentRecords
    <3>1. CASE Job.kind = "backup"
      <4>1. Job.cur \in ContentRecords /\ Len(Job.cur.rows) \in Nat
        BY <1>1, FieldTypes DEF Job, ContentRecords
      <4> QED
        BY <3>1, <4>1, ContentTypes
    <3>2. CASE Job.kind # "backup"
      <4>1. Job.kind = "restore"
        BY <1>1, <1>5, <3>2 DEF Job, JobRecords, WorkerInv, CopyFiles, Worker
      <4>2. Job.from \in Jobs
        BY <1>1, <4>1 DEF Job, OutcomeInv
      <4> QED
        BY <3>2, <4>2, FieldTypes
    <3> QED
      BY <3>1, <3>2
  <2> HIDE DEF copy
  <2>2. value \in JobRecords
    BY <1>1, <2>1 DEF JobRecords, JobStates
  <2>3. [jobs EXCEPT ![wk.job] = value] \in [Jobs -> JobRecords]
    BY <1>1, <1>2, <2>2
  <2> HIDE DEF value
  <2>4. ASSUME ~col.cancel, UNCHANGED col, jobs' = [jobs EXCEPT ![wk.job] = value],
               contents' = IF Job.kind = "backup" THEN contents ELSE [contents EXCEPT ![wk.job] = jobs[Job.from].copy],
               wk' = [wk EXCEPT !.pc = IF Job.kind = "backup" THEN "commit" ELSE "gate"]
        PROVE  ManagementTypes'
    <3>1. contents' \in [Roots -> ContentRecords]
      <4>1. Job.kind # "backup" => copy = jobs[Job.from].copy
        BY DEF copy
      <4> QED
        BY <1>2, <2>1, <2>4, <4>1
    <3>2. wk' \in Workers
      <4>1. wk' = [wk EXCEPT !.pc = "commit"] \/ wk' = [wk EXCEPT !.pc = "gate"]
        BY <2>4
      <4> QED
        BY <1>3, <4>1 DEF Preparing
    <3> QED
      BY <1>2, <1>5, <2>3, <2>4, <3>1, <3>2 DEF ManagementTypes, CopyFiles
  <2>5. ASSUME UNCHANGED contents, Fail(col, "cancelled") \/ Fail(col, "failed")
        PROVE  ManagementTypes'
    <3>1. col' \in Memories /\ jobs' \in [Jobs -> JobRecords] /\ wk' \in Workers
      BY <1>1, <1>2, <2>5, FailTypes DEF JobStates
    <3> QED
      BY <1>2, <1>5, <2>5, <3>1 DEF ManagementTypes, CopyFiles
  <2>6. ASSUME ~(col.cancel /\ Fail(col, "cancelled") /\ UNCHANGED contents), ~(Fail(col, "failed") /\ UNCHANGED contents)
        PROVE  ManagementTypes'
    <3>1. /\ ~col.cancel /\ UNCHANGED col
          /\ jobs' = [jobs EXCEPT ![wk.job] = value]
          /\ contents' = IF Job.kind = "backup" THEN contents ELSE [contents EXCEPT ![wk.job] = jobs[Job.from].copy]
          /\ wk' = [wk EXCEPT !.pc = IF Job.kind = "backup" THEN "commit" ELSE "gate"]
      BY <1>5, <2>6 DEF CopyFiles, value, copy, Job
    <3> QED
      BY <2>4, <3>1
  <2> QED
    BY <1>5, <2>5, <2>6 DEF CopyFiles
<1>6. CASE CommitBackup
  <2>1. jobs' \in [Jobs -> JobRecords] /\ wk' \in Workers /\ col' \in Memories
    <3>1. CASE Fail(col, "cancelled") \/ Fail(col, "failed")
      BY <1>1, <1>2, <3>1, FailTypes DEF JobStates
    <3>2. CASE ~(Fail(col, "cancelled") \/ Fail(col, "failed"))
      <4>1. PICK late \in BOOLEAN : col' = [col EXCEPT !.active = 0, !.uncertain = IF late THEN @ \cup {wk.job} ELSE @]
        BY <1>6, <3>2 DEF CommitBackup
      <4>2. col' \in Memories
        BY <1>1, <1>2, <4>1, JobNumbers DEF Memories
      <4>3. wk' \in Workers
        <5>1. wk' = IdleManager
          BY <1>6, <3>2 DEF CommitBackup
        <5> QED
          BY <5>1, JobNumbers DEF IdleManager, Workers
      <4>4. jobs' \in [Jobs -> JobRecords]
        BY <1>4, <1>6, <3>2 DEF CommitBackup, JobStates
      <4> QED
        BY <4>2, <4>3, <4>4
    <3> QED
      BY <3>1, <3>2
  <2> QED
    BY <1>2, <1>6, <2>1 DEF ManagementTypes, CommitBackup
<1>7. CASE AcquireGate
  <2>1. jobs' \in [Jobs -> JobRecords] /\ wk' \in Workers /\ col' \in Memories
    <3>1. CASE Fail(col, "failed")
      BY <1>1, <1>2, <3>1, FailTypes DEF JobStates
    <3>2. CASE ~Fail(col, "failed")
      <4>1. col' = [col EXCEPT !.writer = TRUE, !.mutex = TRUE] /\ wk' = [wk EXCEPT !.pc = "compare"] /\ jobs' = jobs
        BY <1>7, <3>2 DEF AcquireGate
      <4>2. col' \in Memories
        BY <1>2, <4>1 DEF Memories
      <4> QED
        BY <1>2, <1>3, <4>1, <4>2 DEF Preparing
    <3> QED
      BY <3>1, <3>2
  <2> QED
    BY <1>2, <1>7, <2>1 DEF ManagementTypes, AcquireGate
<1>8. CASE Compare
  <2>1. jobs' \in [Jobs -> JobRecords] /\ wk' \in Workers /\ col' \in Memories
    <3>1. CASE Fail(col, "failed")
      BY <1>1, <1>2, <3>1, FailTypes DEF JobStates
    <3>2. CASE ~Fail(col, "failed")
      BY <1>2, <1>3, <1>8, <3>2 DEF Compare, Preparing
    <3> QED
      BY <3>1, <3>2
  <2> QED
    BY <1>2, <1>8, <2>1 DEF ManagementTypes, Compare
<1>9. CASE BeginTransition
  <2>1. jobs' \in [Jobs -> JobRecords] /\ wk' \in Workers /\ col' \in Memories
    <3>1. CASE Fail(col, "failed") \/ Fail(col, "cancelled")
      BY <1>1, <1>2, <3>1, FailTypes DEF JobStates
    <3>2. CASE ~(Fail(col, "failed") \/ Fail(col, "cancelled"))
      <4>1. [jobs[wk.job] EXCEPT !.old = col.root, !.cleanup = "pending"] \in JobRecords
        BY <1>1, FieldTypes DEF JobRecords
      <4>2. jobs' \in [Jobs -> JobRecords]
        BY <1>2, <1>9, <3>2, <4>1 DEF BeginTransition
      <4>3. col' \in Memories
        BY <1>2, <1>9, <3>2 DEF BeginTransition, Memories
      <4>4. wk' \in Workers
        BY <1>3, <1>9, <3>2 DEF BeginTransition, Preparing
      <4> QED
        BY <4>2, <4>3, <4>4
    <3> QED
      BY <3>1, <3>2
  <2> QED
    BY <1>2, <1>9, <2>1 DEF ManagementTypes, BeginTransition
<1>10. CASE SwitchAuthority
  <2>1. Switched(wk.job) \in Authorities
    <3>1. auth.gen + 1 \in Nat /\ auth.committed \cup {wk.job} \in SUBSET Jobs /\ wk.job \in Roots
      BY <1>1, FieldTypes, JobNumbers
    <3> QED
      BY <1>2, <3>1 DEF Switched, Authorities
  <2>2. auth' \in Authorities
    BY <1>2, <1>10, <2>1 DEF SwitchAuthority
  <2>3. [col EXCEPT !.failed = TRUE] \in Memories
    BY <1>2 DEF Memories
  <2>4. jobs' \in [Jobs -> JobRecords] /\ wk' \in Workers /\ col' \in Memories
    <3>1. CASE Fail([col EXCEPT !.failed = TRUE], "failed")
      BY <1>1, <2>3, <3>1, FailTypes DEF JobStates
    <3>2. CASE ~Fail([col EXCEPT !.failed = TRUE], "failed")
      <4>1. wk' \in Workers /\ jobs' = jobs
        BY <1>3, <1>10, <3>2 DEF SwitchAuthority, Installing
      <4>2. col' = [col EXCEPT !.root = wk.job] /\ wk.job \in Roots
        BY <1>1, <1>10, <3>2, JobNumbers DEF SwitchAuthority
      <4>3. col' \in Memories
        BY <1>2, <4>2 DEF Memories
      <4> QED
        BY <1>2, <4>1, <4>3
    <3> QED
      BY <3>1, <3>2
  <2> QED
    BY <1>2, <1>10, <2>2, <2>4 DEF ManagementTypes, SwitchAuthority
<1> QED
  BY <1>5, <1>6, <1>7, <1>8, <1>9, <1>10

\* The thread writes typed values from the commit point on.
LEMMA InstallingTypes ==
  ASSUME ManagementTypes, WorkerInv, Reload \/ FinishRestore \/ Cleanup
  PROVE  ManagementTypes'
<1>1. wk.job \in Jobs /\ jobs[wk.job] \in JobRecords
  BY FieldTypes DEF WorkerInv, Worker, Reload, FinishRestore, Cleanup
<1>2. jobs \in [Jobs -> JobRecords] /\ col \in Memories /\ wk \in Workers /\ contents \in [Roots -> ContentRecords] /\ auth \in Authorities
  BY DEF ManagementTypes
<1>3. \A p \in Preparing \cup Installing : [wk EXCEPT !.pc = p] \in Workers
  BY <1>2 DEF Workers
<1>4. NoContent \in ContentRecords
  BY DEF NoContent, ContentRecords
<1>5. CASE Reload
  <2>1. contents' \in [Roots -> ContentRecords]
    <3>1. Reconciled(contents[col.root]) \in ContentRecords
      BY FieldTypes, ReconciledTypes
    <3> QED
      BY <1>2, <1>5, <3>1, FieldTypes DEF Reload
  <2>2. jobs' \in [Jobs -> JobRecords] /\ wk' \in Workers /\ col' \in Memories
    <3>1. CASE Fail(col, "failed")
      BY <1>1, <1>2, <3>1, FailTypes DEF JobStates
    <3>2. CASE ~Fail(col, "failed")
      <4>1. col' \in Memories
        BY <1>5, <3>2, FieldTypes, LoadTypes DEF Reload
      <4> QED
        BY <1>2, <1>3, <1>5, <3>2, <4>1 DEF Reload, Installing
    <3> QED
      BY <3>1, <3>2
  <2> QED
    BY <1>2, <1>5, <2>1, <2>2 DEF ManagementTypes, Reload
<1>6. CASE FinishRestore
  <2>1. contents' \in [Roots -> ContentRecords]
    <3>1. [contents[col.root] EXCEPT !.mark = col.seq] \in ContentRecords
      BY FieldTypes, ContentTypes
    <3> QED
      BY <1>2, <1>6, <3>1, FieldTypes DEF FinishRestore
  <2>2. jobs' \in [Jobs -> JobRecords] /\ wk' \in Workers /\ col' \in Memories
    <3>1. CASE Fail(col, "failed")
      BY <1>1, <1>2, <3>1, FailTypes DEF JobStates
    <3>2. CASE ~Fail(col, "failed")
      <4>1. [jobs EXCEPT ![wk.job].state = "succeeded"] \in [Jobs -> JobRecords]
        BY <1>2 DEF JobRecords, JobStates
      <4> QED
        BY <1>2, <1>3, <1>6, <3>2, <4>1 DEF FinishRestore, Installing
    <3> QED
      BY <3>1, <3>2
  <2> QED
    BY <1>2, <1>6, <2>1, <2>2 DEF ManagementTypes, FinishRestore
<1>7. CASE Cleanup
  <2>1. PICK done \in BOOLEAN :
           /\ contents' = IF done /\ ~Job.keep THEN Cleaned(wk.job) ELSE contents
           /\ jobs' = [jobs EXCEPT ![wk.job].cleanup = IF Job.keep \/ done THEN "done" ELSE "residuals"]
    BY <1>7 DEF Cleanup
  <2>2. Cleaned(wk.job) \in [Roots -> ContentRecords]
    <3>1. jobs[wk.job].old \in Roots
      BY <1>1 DEF JobRecords
    <3> QED
      BY <1>2, <1>4, <3>1 DEF Cleaned, DiscardRoot
  <2>3. contents' \in [Roots -> ContentRecords]
    BY <1>2, <2>1, <2>2
  <2>4. jobs' \in [Jobs -> JobRecords]
    BY <1>1, <1>2, <2>1 DEF JobRecords
  <2>5. Released(col) \in Memories
    BY <1>2 DEF Released, Memories
  <2>6. col' \in Memories /\ wk' \in Workers
    BY <1>7, <2>5, JobNumbers DEF Cleanup, Memories, IdleManager, Workers
  <2> QED
    BY <1>2, <1>7, <2>3, <2>4, <2>6 DEF ManagementTypes, Cleanup
<1> QED
  BY <1>5, <1>6, <1>7

\* A start reads typed documents.
LEMMA RestartTypes ==
  ASSUME ManagementTypes, Restart
  PROVE  ManagementTypes'
<1> DEFINE loaded == LoadLabels(LoadContentState(col, auth.serving))
           due == {j \in auth.committed : ~jobs[j].keep /\ jobs[j].old # auth.serving}
<1>1. loaded \in Memories
  BY FieldTypes, LoadTypes
<1>2. col' \in Memories
  <2>1. <<>> \in Seq(Sources) /\ {} \in SUBSET Jobs /\ 0 \in Roots
    BY JobNumbers
  <2>2. \A m \in Memories :
           [m EXCEPT !.up = TRUE, !.queue = <<>>, !.publishing = <<>>, !.transition = FALSE, !.mutex = FALSE] \in Memories
    BY <2>1 DEF Memories
  <2>3. \A m \in Memories :
           [m EXCEPT !.writer = FALSE, !.readers = 0, !.active = 0, !.cancel = FALSE] \in Memories
    <3>1. \A m \in Memories, n \in Int : [m EXCEPT !.writer = FALSE, !.readers = n] \in Memories
      BY DEF Memories
    <3>2. \A m \in Memories : [m EXCEPT !.active = 0, !.cancel = FALSE] \in Memories
      BY <2>1 DEF Memories
    <3>3. \A m \in Memories : [m EXCEPT !.writer = FALSE, !.readers = 0, !.active = 0, !.cancel = FALSE]
                              = [[m EXCEPT !.writer = FALSE, !.readers = 0] EXCEPT !.active = 0, !.cancel = FALSE]
      OBVIOUS
    <3>4. 0 \in Int
      OBVIOUS
    <3> QED
      BY <3>1, <3>2, <3>3, <3>4
  <2>4. \A m \in Memories :
           [m EXCEPT !.failed = FALSE, !.unavailable = FALSE, !.uncertain = {}] \in Memories
    BY <2>1 DEF Memories
  <2>5. col' = [[[loaded EXCEPT !.up = TRUE, !.queue = <<>>, !.publishing = <<>>, !.transition = FALSE, !.mutex = FALSE]
                         EXCEPT !.writer = FALSE, !.readers = 0, !.active = 0, !.cancel = FALSE]
                         EXCEPT !.failed = FALSE, !.unavailable = FALSE, !.uncertain = {}]
    BY DEF Restart
  <2> QED
    BY <1>1, <2>2, <2>3, <2>4, <2>5
<1>3. contents' \in [Roots -> ContentRecords]
  <2>1. \A r \in Roots : Reconciled(contents[r]) \in ContentRecords /\ contents[r] \in ContentRecords
    BY FieldTypes, ReconciledTypes
  <2>2. NoContent \in ContentRecords
    BY DEF NoContent, ContentRecords
  <2>3. contents' = [r \in Roots |-> IF r = auth.serving THEN Reconciled(contents[r])
                          ELSE IF \E j \in due : jobs[j].old = r /\ contents[r].rows = jobs[j].cur.rows /\ contents[r].ann = jobs[j].cur.ann
                          THEN NoContent ELSE contents[r]]
    BY DEF Restart
  <2> QED
    BY <2>1, <2>2, <2>3
<1>4. jobs' \in [Jobs -> JobRecords]
  <2>1. \A j \in Jobs : RecoveredState(j) \in JobStates /\ jobs[j] \in JobRecords
    BY FieldTypes DEF RecoveredState, JobRecords, JobStates
  <2>2. \A j \in Jobs : [jobs[j] EXCEPT !.state = RecoveredState(j), !.cleanup = IF j \in auth.committed THEN "done" ELSE @] \in JobRecords
    BY <2>1 DEF JobRecords
  <2>3. jobs' = [j \in Jobs |-> IF jobs[j] = NoJob THEN NoJob
                          ELSE [jobs[j] EXCEPT !.state = RecoveredState(j), !.cleanup = IF j \in auth.committed THEN "done" ELSE @]]
    BY DEF Restart
  <2>4. \A j \in Jobs : jobs[j] = NoJob => NoJob \in JobRecords
    BY <2>1
  <2> QED
    BY <2>2, <2>3, <2>4
<1> QED
  BY <1>2, <1>3, <1>4 DEF ManagementTypes, Restart

\* A death leaves typed files.
LEMMA CrashTypes ==
  ASSUME ManagementTypes, CrashCollector
  PROVE  ManagementTypes'
<1>1. col' \in Memories /\ wk' \in Workers
  BY JobNumbers DEF ManagementTypes, CrashCollector, Memories, IdleManager, Workers
<1>2. plan' \in [kind : {"none", "backup", "restore"}, from : Roots, cur : ContentRecords, gen : Nat]
  BY JobNumbers DEF CrashCollector, NoPlan, NoContent, ContentRecords
<1>3. edit' \in [pc : {"none", "composed", "leased"}, gen : Nat, rev : Nat]
  BY DEF ManagementTypes, CrashCollector, NoEdit
<1> QED
  BY <1>1, <1>2, <1>3 DEF ManagementTypes, CrashCollector

-----------------------------------------------------------------------------
(* Who holds what, and what the documents say of outcomes.                 *)

\* The part of the memory that the thread, its locks and its outcome are about.
ControlPart(m) == <<m.up, m.active, m.unavailable, m.writer, m.mutex, m.transition, m.readers, m.uncertain>>

\* A step that leaves the thread, the documents and the locks alone.
LEMMA ControlFrame ==
  ASSUME ControlInv, ManagementTypes', jobs' = jobs, wk' = wk, auth'.committed = auth.committed,
         ControlPart(col') = ControlPart(col), plan' = plan, edit'.pc = "leased" <=> edit.pc = "leased"
  PROVE  ControlInv'
<1>1. /\ col'.up = col.up /\ col'.active = col.active /\ col'.unavailable = col.unavailable
      /\ col'.writer = col.writer /\ col'.mutex = col.mutex /\ col'.transition = col.transition
      /\ col'.readers = col.readers /\ col'.uncertain = col.uncertain
  BY DEF ControlPart
<1>2. WorkerInv'
  BY <1>1 DEF ControlInv, WorkerInv
<1>3. LockInv'
  BY <1>1 DEF ControlInv, LockInv
<1>4. OutcomeInv'
  BY <1>1 DEF ControlInv, OutcomeInv
<1> QED
  BY <1>2, <1>3, <1>4 DEF ControlInv

\* What the producers, the publisher and the clients that read do to the memory.
LEMMA ControlPartKept ==
  ASSUME NEW m \in Memories
  PROVE  /\ ControlPart([m EXCEPT !.failed = TRUE]) = ControlPart(m)
         /\ \A q : ControlPart([m EXCEPT !.queue = q]) = ControlPart(m)
         /\ ControlPart([m EXCEPT !.cancel = TRUE]) = ControlPart(m)
         /\ \A r : ControlPart([m EXCEPT !.root = r]) = ControlPart(m)
         /\ \A r : ControlPart(LoadLabels(LoadContentState(m, r))) = ControlPart(m)
  BY DEF ControlPart, Memories, LoadLabels, LoadContentState

\* What an error leaves of it.
LEMMA FailedPart ==
  ASSUME NEW m \in Memories, wk.job \in Jobs, NEW state, Fail(m, state)
  PROVE  /\ col'.up = m.up /\ col'.active = 0 /\ col'.writer = FALSE /\ col'.mutex = FALSE /\ col'.transition = FALSE
         /\ col'.readers = m.readers
         /\ col'.root = m.root /\ col'.seq = m.seq /\ col'.queue = m.queue /\ col'.publishing = m.publishing
         /\ wk' = IdleManager
         /\ \/ /\ jobs[wk.job].state = "succeeded" \/ wk.job \in auth'.committed \/ m.failed
               /\ col'.uncertain = m.uncertain \cup {wk.job} /\ jobs' = jobs
               /\ col'.unavailable = (m.unavailable \/ (Job.kind = "restore" /\ (m.failed \/ wk.job \in auth'.committed)))
            \/ /\ jobs[wk.job].state # "succeeded" /\ wk.job \notin auth'.committed /\ ~m.failed
               /\ col'.uncertain = m.uncertain /\ jobs' = [jobs EXCEPT ![wk.job].state = state]
               /\ col'.unavailable = m.unavailable
<1> DEFINE u == m.unavailable \/ (Job.kind = "restore" /\ (m.failed \/ wk.job \in auth'.committed))
           base == Released(m)
<1>1. /\ base \in Memories /\ base.up = m.up /\ base.writer = FALSE /\ base.mutex = FALSE /\ base.transition = FALSE
      /\ base.readers = m.readers /\ base.root = m.root /\ base.seq = m.seq /\ base.queue = m.queue
      /\ base.publishing = m.publishing /\ base.uncertain = m.uncertain /\ base.unavailable = m.unavailable
  BY DEF Released, Memories
<1>2. CASE jobs[wk.job].state = "succeeded" \/ wk.job \in auth'.committed \/ m.failed
  <2>1. /\ col' = [base EXCEPT !.uncertain = @ \cup {wk.job}, !.active = 0, !.unavailable = @ \/ (Job.kind = "restore" /\ (m.failed \/ wk.job \in auth'.committed))]
        /\ UNCHANGED jobs /\ wk' = IdleManager
    BY <1>2 DEF Fail
  <2> HIDE DEF base
  <2>2. /\ col'.up = base.up /\ col'.active = 0 /\ col'.writer = base.writer /\ col'.mutex = base.mutex
        /\ col'.transition = base.transition /\ col'.readers = base.readers /\ col'.root = base.root /\ col'.seq = base.seq
        /\ col'.queue = base.queue /\ col'.publishing = base.publishing
        /\ col'.uncertain = base.uncertain \cup {wk.job}
        /\ col'.unavailable = (base.unavailable \/ (Job.kind = "restore" /\ (m.failed \/ wk.job \in auth'.committed)))
    BY <1>1, <2>1 DEF Memories
  <2> QED
    BY <1>1, <1>2, <2>1, <2>2
<1>3. CASE ~(jobs[wk.job].state = "succeeded" \/ wk.job \in auth'.committed \/ m.failed)
  <2>1. /\ col' = [base EXCEPT !.active = 0] /\ jobs' = [jobs EXCEPT ![wk.job].state = state] /\ wk' = IdleManager
    BY <1>3 DEF Fail
  <2> HIDE DEF base
  <2>2. /\ col'.up = base.up /\ col'.active = 0 /\ col'.writer = base.writer /\ col'.mutex = base.mutex
        /\ col'.transition = base.transition /\ col'.readers = base.readers /\ col'.root = base.root /\ col'.seq = base.seq
        /\ col'.queue = base.queue /\ col'.publishing = base.publishing
        /\ col'.uncertain = base.uncertain /\ col'.unavailable = base.unavailable
    BY <1>1, <2>1 DEF Memories
  <2> QED
    BY <1>1, <1>3, <2>1, <2>2
<1> QED
  BY <1>2, <1>3

\* Changing the state of one job changes nothing else of it, or of another.
LEMMA StateOfJob ==
  ASSUME jobs \in [Jobs -> JobRecords], NEW j \in Jobs, NEW state
  PROVE  LET after == [jobs EXCEPT ![j].state = state]
         IN  /\ after[j].state = state
             /\ \A k \in Jobs : k # j => after[k] = jobs[k]
             /\ \A k \in Jobs : /\ after[k].kind = jobs[k].kind /\ after[k].from = jobs[k].from /\ after[k].copy = jobs[k].copy
                                /\ after[k].cur = jobs[k].cur /\ after[k].old = jobs[k].old /\ after[k].keep = jobs[k].keep
  BY DEF JobRecords

\* A document that was reserved is not free.
LEMMA FreeJob ==
         /\ NoJob.state = "none" /\ NoJob.kind = "none" /\ NoJob.copy = NoContent /\ NoJob.cur = NoContent
         /\ \A j \in Jobs : jobs[j].state # "none" => jobs[j] # NoJob
  BY DEF NoJob

\* An error of the thread, at any of its steps.
LEMMA FailControl ==
  ASSUME ControlInv, ManagementTypes', NEW m \in Memories, ControlPart(m) = ControlPart(col),
         wk.pc # "idle", NEW state \in {"failed", "cancelled"}, Fail(m, state),
         \/ auth'.committed = auth.committed
         \/ wk.pc = "switch" /\ auth'.committed = auth.committed \cup {wk.job},
         plan' = plan, edit' = edit
  PROVE  ControlInv'
<1>1. wk.job \in Jobs /\ col.up /\ jobs[wk.job].state \in {"pending", "running", "succeeded"} /\ jobs[wk.job].kind # "none"
      /\ (wk.pc = "switch" => jobs[wk.job].kind = "restore")
  BY DEF ControlInv, ManagementTypes, WorkerInv, IdleManager, Workers, Preparing, Installing, Holding, Switching
<1>2. jobs \in [Jobs -> JobRecords] /\ auth.committed \subseteq Jobs /\ auth'.committed \subseteq Jobs
  BY DEF ControlInv, ManagementTypes, Authorities
<1>3. m.up = col.up /\ m.readers = col.readers /\ m.uncertain = col.uncertain
  BY DEF ControlPart
<1>4. /\ col'.up /\ col'.active = 0 /\ col'.writer = FALSE /\ col'.mutex = FALSE /\ col'.transition = FALSE
      /\ col'.readers = col.readers /\ wk' = IdleManager
      /\ col.uncertain \subseteq col'.uncertain
      /\ \/ jobs' = jobs /\ wk.job \in col'.uncertain
         \/ wk.job \notin auth'.committed /\ jobs' = [jobs EXCEPT ![wk.job].state = state]
  BY <1>1, <1>3, FailedPart
<1>5. WorkerInv'
  BY <1>4 DEF WorkerInv, IdleManager, Preparing, Installing, Switching, Holding
<1>6. LockInv'
  <2>1. wk'.pc \notin Holding /\ wk'.pc \notin Switching
    BY <1>4 DEF IdleManager, Holding, Switching
  <2>2. col.readers = IF edit.pc = "leased" THEN 1 ELSE 0
    BY <1>1 DEF ControlInv, LockInv
  <2> QED
    BY <1>1, <1>4, <2>1, <2>2 DEF LockInv
<1>7. \A j \in auth'.committed : jobs[j].state = "succeeded" \/ j \in col.uncertain \/ j = wk.job
  BY <1>1, <1>2 DEF ControlInv, OutcomeInv
<1>8. OutcomeInv'
  <2>1. CASE jobs' = jobs /\ wk.job \in col'.uncertain
    <3>1. \A j \in auth'.committed : jobs'[j].kind = "restore"
      BY <1>1, <2>1 DEF ControlInv, OutcomeInv
    <3>2. \A j \in Jobs : jobs'[j].state \in {"cancelled", "failed"} => j \notin auth'.committed
      BY <1>1, <2>1 DEF ControlInv, OutcomeInv
    <3> QED
      BY <1>4, <1>7, <2>1, <3>1, <3>2 DEF ControlInv, OutcomeInv
  <2>2. CASE wk.job \notin auth'.committed /\ jobs' = [jobs EXCEPT ![wk.job].state = state]
    <3>1. /\ jobs'[wk.job].state = state
          /\ \A k \in Jobs : k # wk.job => jobs'[k] = jobs[k]
          /\ \A k \in Jobs : jobs'[k].kind = jobs[k].kind /\ jobs'[k].from = jobs[k].from
      BY <1>1, <1>2, <2>2, StateOfJob
    <3>2. auth'.committed = auth.committed
      BY <2>2
    <3>3. \A j \in Jobs : jobs'[j].state = "none" <=> jobs'[j] = NoJob
      BY <3>1, FreeJob DEF ControlInv, OutcomeInv
    <3>4. \A j \in Jobs : jobs'[j].state # "none" => jobs'[j].kind # "none"
      BY <1>1, <3>1 DEF ControlInv, OutcomeInv
    <3>5. \A j \in Jobs : jobs'[j].state \in {"cancelled", "failed"} => j \notin auth'.committed
      BY <2>2, <3>1, <3>2 DEF ControlInv, OutcomeInv
    <3>6. \A j \in auth'.committed : jobs'[j].state = "succeeded" \/ j \in col'.uncertain
      BY <1>2, <1>4, <1>7, <2>2, <3>1
    <3> QED
      BY <1>2, <3>1, <3>2, <3>3, <3>4, <3>5, <3>6 DEF ControlInv, OutcomeInv
  <2> QED
    BY <1>4, <2>1, <2>2
<1> QED
  BY <1>5, <1>6, <1>8 DEF ControlInv

\* Producers, publisher, checkpoints and annotations.
LEMMA ServingControl ==
  ASSUME ControlInv,
         \/ \E s \in Sources : ObserveProducer(s) \/ AdmitRow(s)
         \/ TakeRow \/ Publish \/ CheckpointRead \/ CheckpointWrite
         \/ ReadLabels \/ BeginEdit \/ Mutate
  PROVE  ControlInv'
<1>1. ManagementTypes'
  BY ServingTypes DEF ControlInv
<1>2. col \in Memories
  BY DEF ControlInv, ManagementTypes
<1>3. ASSUME NEW s \in Sources, ObserveProducer(s)
      PROVE  ControlInv'
  <2>1. ControlPart(col') = ControlPart(col)
    BY <1>2, <1>3, ControlPartKept DEF ObserveProducer, WriteAuthority
  <2>2. auth'.committed = auth.committed
    <3>1. [auth EXCEPT !.sources[s] = auth.gen].committed = auth.committed
      BY DEF ControlInv, ManagementTypes, Authorities
    <3> QED
      BY <1>3, <3>1 DEF ObserveProducer, WriteAuthority
  <2> QED
    BY <1>1, <1>3, <2>1, <2>2, ControlFrame DEF ObserveProducer
<1>4. ASSUME NEW s \in Sources, AdmitRow(s)
      PROVE  ControlInv'
  BY <1>1, <1>2, <1>4, ControlFrame, ControlPartKept DEF AdmitRow
<1>5. CASE TakeRow
  <2>1. ControlPart(col') = ControlPart(col)
    BY <1>2, <1>5 DEF TakeRow, ControlPart, Memories
  <2> QED
    BY <1>1, <1>5, <2>1, ControlFrame DEF TakeRow
<1>6. CASE Publish
  <2>1. ControlPart(col') = ControlPart(col)
    BY <1>2, <1>6 DEF Publish, ControlPart, Memories
  <2> QED
    BY <1>1, <1>6, <2>1, ControlFrame DEF Publish
<1>7. CASE CheckpointRead \/ CheckpointWrite
  BY <1>1, <1>7, ControlFrame DEF CheckpointRead, CheckpointWrite
<1>8. CASE ReadLabels
  <2>1. edit'.pc = "composed" /\ edit.pc = "none"
    BY <1>8 DEF ReadLabels, NoEdit
  <2> QED
    BY <1>1, <1>8, <2>1, ControlFrame DEF ReadLabels
<1>9. CASE BeginEdit
  <2>1. CASE edit' = NoEdit /\ UNCHANGED col
    <3>1. edit'.pc # "leased" /\ edit.pc # "leased"
      BY <1>9, <2>1 DEF NoEdit, BeginEdit
    <3> QED
      BY <1>1, <1>9, <2>1, <3>1, ControlFrame DEF BeginEdit
  <2>2. CASE edit' = [edit EXCEPT !.pc = "leased"] /\ col' = [col EXCEPT !.readers = @ + 1]
    <3>1. edit'.pc = "leased" /\ edit.pc # "leased"
      BY <1>9, <2>2 DEF ControlInv, ManagementTypes, BeginEdit
    <3>2. /\ col'.up = col.up /\ col'.active = col.active /\ col'.unavailable = col.unavailable
          /\ col'.writer = col.writer /\ col'.mutex = col.mutex /\ col'.transition = col.transition
          /\ col'.uncertain = col.uncertain /\ col'.readers = col.readers + 1
      BY <1>2, <2>2 DEF Memories
    <3>3. col.up /\ ~col.writer /\ jobs' = jobs /\ auth' = auth /\ wk' = wk /\ plan' = plan
      BY <1>9 DEF BeginEdit, Serves, GateOpen
    <3>4. LockInv'
      BY <3>1, <3>2, <3>3 DEF ControlInv, LockInv
    <3>5. WorkerInv' /\ OutcomeInv'
      BY <3>2, <3>3 DEF ControlInv, WorkerInv, OutcomeInv
    <3> QED
      BY <1>1, <3>4, <3>5 DEF ControlInv
  <2> QED
    BY <1>9, <2>1, <2>2 DEF BeginEdit
<1>10. CASE Mutate
  <2>1. edit'.pc # "leased" /\ edit.pc = "leased"
    BY <1>10 DEF Mutate, NoEdit
  <2>2. col' = [col EXCEPT !.readers = @ - 1] \/ col' = [col EXCEPT !.readers = @ - 1, !.poisoned = TRUE]
    BY <1>10 DEF Mutate
  <2>3. /\ col'.up = col.up /\ col'.active = col.active /\ col'.unavailable = col.unavailable
        /\ col'.writer = col.writer /\ col'.mutex = col.mutex /\ col'.transition = col.transition
        /\ col'.uncertain = col.uncertain /\ col'.readers = col.readers - 1
    BY <1>2, <2>2 DEF Memories
  <2>4. jobs' = jobs /\ auth' = auth /\ wk' = wk /\ plan' = plan
    BY <1>10 DEF Mutate
  <2>5. LockInv'
    BY <2>1, <2>3, <2>4 DEF ControlInv, LockInv
  <2>6. WorkerInv' /\ OutcomeInv'
    BY <2>3, <2>4 DEF ControlInv, WorkerInv, OutcomeInv
  <2> QED
    BY <1>1, <2>5, <2>6 DEF ControlInv
<1> QED
  BY <1>3, <1>4, <1>5, <1>6, <1>7, <1>8, <1>9, <1>10

\* Previews, requests and cancels.
LEMMA ClientControl ==
  ASSUME ControlInv,
         \/ Preview \/ \E keep \in BOOLEAN : RequestJob(keep)
         \/ \E j \in Jobs : Cancel(j)
  PROVE  ControlInv'
<1>1. ManagementTypes'
  BY ClientTypes DEF ControlInv
<1>2. col \in Memories /\ jobs \in [Jobs -> JobRecords] /\ auth.committed \subseteq Jobs
  BY DEF ControlInv, ManagementTypes, Authorities
<1>3. CASE Preview
  <2>1. plan'.kind \in {"backup", "restore"} /\ (plan'.kind = "restore" => plan'.from \in Jobs)
    BY <1>3 DEF Preview, Backups
  <2>2. WorkerInv' /\ LockInv'
    BY <1>3 DEF ControlInv, WorkerInv, LockInv, Preview
  <2>3. OutcomeInv'
    BY <1>3, <2>1 DEF ControlInv, OutcomeInv, Preview
  <2> QED
    BY <1>1, <2>2, <2>3 DEF ControlInv
<1>4. ASSUME NEW keep \in BOOLEAN, RequestJob(keep)
      PROVE  ControlInv'
  <2> DEFINE doc == [NoJob EXCEPT !.kind = plan.kind, !.state = "pending", !.from = plan.from, !.cur = plan.cur,
                                  !.keep = keep \/ plan.kind = "backup"]
  <2>1. PICK j \in FreeJobs :
           /\ jobs' = [jobs EXCEPT ![j] = doc]
           /\ col' = [col EXCEPT !.active = j, !.cancel = FALSE]
           /\ wk' = [pc |-> "run", job |-> j]
    BY <1>4, RequestedJob
  <2>2. doc.kind = plan.kind /\ doc.state = "pending" /\ doc.from = plan.from
    BY DEF NoJob
  <2>3. /\ j \in Jobs /\ jobs[j] = NoJob /\ plan.kind # "none" /\ (plan.kind = "restore" => plan.from \in Jobs)
        /\ plan' = NoPlan /\ auth' = auth /\ edit' = edit /\ col.active = 0 /\ col.up /\ ~col.unavailable
    BY <1>4, <2>1 DEF RequestJob, FreeJobs, ControlInv, OutcomeInv, Callable, Serves
  <2>4. j \notin auth.committed
    BY <2>3, FreeJob DEF ControlInv, OutcomeInv
  <2> HIDE DEF doc
  <2>5. /\ col'.up = col.up /\ col'.active = j /\ col'.unavailable = col.unavailable
        /\ col'.writer = col.writer /\ col'.mutex = col.mutex /\ col'.transition = col.transition
        /\ col'.uncertain = col.uncertain /\ col'.readers = col.readers
    BY <1>2, <2>1 DEF Memories
  <2>6. jobs'[j] = doc /\ \A k \in Jobs : k # j => jobs'[k] = jobs[k]
    BY <1>2, <2>1, <2>3
  <2>7. wk.pc = "idle" /\ wk'.pc = "run" /\ wk'.job = j
    BY <2>1, <2>3, JobNumbers DEF ControlInv, WorkerInv
  <2>8. WorkerInv'
    BY <2>2, <2>3, <2>4, <2>5, <2>6, <2>7 DEF WorkerInv, Preparing, Installing, Switching, Holding
  <2>9. LockInv'
    BY <2>3, <2>5, <2>7 DEF ControlInv, LockInv, Switching, Holding
  <2>10. OutcomeInv'
    <3>1. plan'.kind = "none" => plan' = NoPlan
      BY <2>3
    <3>2. plan'.kind # "restore"
      BY <2>3 DEF NoPlan
    <3>3. \A k \in Jobs : jobs'[k].state = "none" <=> jobs'[k] = NoJob
      BY <2>2, <2>6, FreeJob DEF ControlInv, OutcomeInv
    <3>4. \A k \in Jobs : /\ jobs'[k].state # "none" => jobs'[k].kind # "none"
                          /\ jobs'[k].kind = "restore" => jobs'[k].from \in Jobs
      BY <2>2, <2>3, <2>6 DEF ControlInv, OutcomeInv
    <3>5. \A k \in Jobs : jobs'[k].state \in {"cancelled", "failed"} => k \notin auth'.committed
      BY <2>2, <2>3, <2>6 DEF ControlInv, OutcomeInv
    <3>6. \A k \in auth'.committed : jobs'[k] = jobs[k]
      BY <1>2, <2>3, <2>4, <2>6
    <3> QED
      BY <2>3, <2>5, <2>7, <3>1, <3>2, <3>3, <3>4, <3>5, <3>6 DEF ControlInv, OutcomeInv
  <2> QED
    BY <1>1, <2>8, <2>9, <2>10 DEF ControlInv
<1>5. ASSUME NEW j \in Jobs, Cancel(j)
      PROVE  ControlInv'
  <2>1. CASE col.active = j
    <3>1. jobs' = jobs /\ ControlPart(col') = ControlPart(col)
      BY <1>2, <1>5, <2>1, ControlPartKept DEF Cancel, CancelJob
    <3> QED
      BY <1>1, <1>5, <3>1, ControlFrame DEF Cancel
  <2>2. CASE col.active # j
    <3>1. /\ jobs[j].state \in {"pending", "unknown"} /\ j \notin auth.committed
          /\ jobs' = [jobs EXCEPT ![j].state = "cancelled"] /\ col' = col
          /\ auth' = auth /\ wk' = wk /\ plan' = plan /\ edit' = edit
      BY <1>5, <2>2 DEF Cancel, CancelJob
    <3>2. /\ jobs'[j].state = "cancelled"
          /\ \A k \in Jobs : k # j => jobs'[k] = jobs[k]
          /\ \A k \in Jobs : jobs'[k].kind = jobs[k].kind /\ jobs'[k].from = jobs[k].from
      BY <1>2, <3>1, StateOfJob
    <3>3. wk.pc # "idle" => wk.job # j
      BY <2>2 DEF ControlInv, WorkerInv
    <3>4. WorkerInv'
      BY <3>1, <3>2, <3>3 DEF ControlInv, WorkerInv, Preparing, Installing, Holding, Switching
    <3>5. LockInv'
      BY <3>1 DEF ControlInv, LockInv
    <3>6. OutcomeInv'
      <4>1. \A k \in Jobs : jobs'[k].state = "none" <=> jobs'[k] = NoJob
        BY <3>2, FreeJob DEF ControlInv, OutcomeInv
      <4>2. \A k \in Jobs : /\ jobs'[k].state # "none" => jobs'[k].kind # "none"
                            /\ jobs'[k].kind = "restore" => jobs'[k].from \in Jobs
        BY <3>1, <3>2 DEF ControlInv, OutcomeInv
      <4>3. \A k \in Jobs : jobs'[k].state \in {"cancelled", "failed"} => k \notin auth'.committed
        BY <3>1, <3>2 DEF ControlInv, OutcomeInv
      <4>4. \A k \in auth'.committed : jobs'[k] = jobs[k]
        BY <1>2, <3>1, <3>2
      <4> QED
        BY <3>1, <4>1, <4>2, <4>3, <4>4 DEF ControlInv, OutcomeInv
    <3> QED
      BY <1>1, <3>4, <3>5, <3>6 DEF ControlInv
  <2> QED
    BY <2>1, <2>2
<1> QED
  BY <1>3, <1>4, <1>5

\* The thread up to the commit point.
LEMMA PreparingControl ==
  ASSUME ControlInv, CopyFiles \/ CommitBackup \/ AcquireGate \/ Compare \/ BeginTransition \/ SwitchAuthority
  PROVE  ControlInv'
<1>1. ManagementTypes'
  BY PreparingTypes DEF ControlInv
<1>2. /\ col \in Memories /\ jobs \in [Jobs -> JobRecords] /\ auth \in Authorities /\ auth.committed \subseteq Jobs
      /\ wk \in Workers
  BY DEF ControlInv, ManagementTypes, Authorities
<1>3. /\ wk.pc \in Preparing /\ wk.pc # "idle" /\ wk.job \in Jobs /\ col.up /\ ~col.unavailable /\ col.active = wk.job
      /\ jobs[wk.job].kind # "none" /\ jobs[wk.job].state \in {"pending", "running"} /\ wk.job \notin auth.committed
      /\ plan' = plan /\ edit' = edit
  BY DEF ControlInv, WorkerInv, Worker, Preparing, Installing, CopyFiles, CommitBackup, AcquireGate, Compare,
         BeginTransition, SwitchAuthority
<1>4. [col EXCEPT !.failed = TRUE] \in Memories /\ ControlPart([col EXCEPT !.failed = TRUE]) = ControlPart(col)
  BY <1>2, ControlPartKept DEF Memories
<1>5. ASSUME auth' = auth, Fail(col, "failed") \/ Fail(col, "cancelled")
      PROVE  ControlInv'
  BY <1>1, <1>2, <1>3, <1>5, FailControl
\* A step of the thread that goes on, with its document or without.
<1>6. ASSUME NEW p \in Preparing, auth' = auth, wk' = [wk EXCEPT !.pc = p],
             col'.up = col.up, col'.active = col.active, col'.unavailable = col.unavailable,
             col'.readers = col.readers, col'.uncertain = col.uncertain,
             col'.writer <=> p \in Holding, col'.mutex <=> p \in Holding, col'.transition <=> p \in Switching,
             edit.pc = "leased" => ~col'.writer,
             jobs'[wk.job].state = "running", p # "run",
             p = "commit" => jobs[wk.job].kind = "backup", p # "commit" => jobs[wk.job].kind = "restore",
             \A k \in Jobs : k # wk.job => jobs'[k] = jobs[k],
             jobs'[wk.job].kind = jobs[wk.job].kind, jobs'[wk.job].from = jobs[wk.job].from
      PROVE  ControlInv'
  <2>1. wk'.pc = p /\ wk'.job = wk.job
    BY <1>2, <1>6 DEF Workers
  <2>2. WorkerInv'
    BY <1>3, <1>6, <2>1 DEF ControlInv, WorkerInv, Preparing, Installing, Holding, Switching
  <2>3. LockInv'
    BY <1>3, <1>6, <2>1 DEF ControlInv, LockInv
  <2>4. OutcomeInv'
    <3>1. \A k \in Jobs : jobs'[k].state = "none" <=> jobs'[k] = NoJob
      BY <1>6, FreeJob DEF ControlInv, OutcomeInv
    <3>2. \A k \in Jobs : /\ jobs'[k].state # "none" => jobs'[k].kind # "none"
                          /\ jobs'[k].kind = "restore" => jobs'[k].from \in Jobs
      BY <1>3, <1>6 DEF ControlInv, OutcomeInv
    <3>3. \A k \in Jobs : jobs'[k].state \in {"cancelled", "failed"} => k \notin auth'.committed
      BY <1>6 DEF ControlInv, OutcomeInv
    <3>4. \A k \in auth'.committed : k # wk.job /\ jobs'[k] = jobs[k]
      BY <1>2, <1>3, <1>6
    <3> QED
      BY <1>3, <1>6, <3>1, <3>2, <3>3, <3>4 DEF ControlInv, OutcomeInv
  <2> QED
    BY <1>1, <2>2, <2>3, <2>4 DEF ControlInv
<1>7. CASE CopyFiles
  <2> DEFINE copy == IF Job.kind = "backup" THEN [Job.cur EXCEPT !.mark = Len(Job.cur.rows)] ELSE jobs[Job.from].copy
             p == IF Job.kind = "backup" THEN "commit" ELSE "gate"
  <2>1. wk.pc = "run" /\ auth' = auth
    BY <1>7 DEF CopyFiles, Worker
  <2>2. ASSUME UNCHANGED col, jobs' = [jobs EXCEPT ![wk.job] = [@ EXCEPT !.state = "running", !.copy = copy]],
               wk' = [wk EXCEPT !.pc = p]
        PROVE  ControlInv'
    <3>1. /\ jobs'[wk.job].state = "running" /\ jobs'[wk.job].kind = jobs[wk.job].kind /\ jobs'[wk.job].from = jobs[wk.job].from
          /\ \A k \in Jobs : k # wk.job => jobs'[k] = jobs[k]
      <4> HIDE DEF copy
      <4> QED
        BY <1>2, <1>3, <2>2 DEF JobRecords
    <3>2. (p = "commit" => jobs[wk.job].kind = "backup") /\ (p # "commit" => jobs[wk.job].kind = "restore")
      BY <1>2, <1>3 DEF Job, JobRecords
    <3>3. p \in Preparing /\ p # "run" /\ p \notin Holding /\ p \notin Switching
      BY DEF Preparing, Holding, Switching
    <3>4. ~col.writer /\ ~col.mutex /\ ~col.transition
      BY <1>3, <2>1 DEF ControlInv, LockInv, Holding, Switching
    <3> HIDE DEF p, copy
    <3> QED
      BY <1>6, <2>1, <2>2, <3>1, <3>2, <3>3, <3>4
  <2>3. (col.cancel /\ Fail(col, "cancelled")) \/ Fail(col, "failed")
        \/ (/\ UNCHANGED col /\ jobs' = [jobs EXCEPT ![wk.job] = [@ EXCEPT !.state = "running", !.copy = copy]]
            /\ wk' = [wk EXCEPT !.pc = p])
    BY <1>7 DEF CopyFiles
  <2> QED
    BY <1>5, <2>1, <2>2, <2>3
<1>8. CASE CommitBackup
  <2>1. wk.pc = "commit" /\ auth' = auth /\ jobs[wk.job].kind = "backup" /\ jobs[wk.job].state = "running"
    BY <1>8 DEF CommitBackup, Worker, ControlInv, WorkerInv, Preparing, Installing
  <2>2. ASSUME NEW late \in BOOLEAN, col' = [col EXCEPT !.active = 0, !.uncertain = IF late THEN @ \cup {wk.job} ELSE @],
               jobs' = [jobs EXCEPT ![wk.job].state = "succeeded"], wk' = IdleManager
        PROVE  ControlInv'
    <3>1. /\ col'.up = col.up /\ col'.active = 0 /\ col'.unavailable = col.unavailable /\ col'.writer = col.writer
          /\ col'.mutex = col.mutex /\ col'.transition = col.transition /\ col'.readers = col.readers
          /\ col.uncertain \subseteq col'.uncertain
      BY <1>2, <2>2 DEF Memories
    <3>2. /\ jobs'[wk.job].state = "succeeded"
          /\ \A k \in Jobs : k # wk.job => jobs'[k] = jobs[k]
          /\ \A k \in Jobs : jobs'[k].kind = jobs[k].kind /\ jobs'[k].from = jobs[k].from
      BY <1>2, <1>3, <2>2, StateOfJob
    <3>3. WorkerInv'
      BY <1>3, <2>2, <3>1 DEF WorkerInv, IdleManager, Preparing, Installing, Holding, Switching
    <3>4. LockInv'
      <4>1. wk'.pc \notin Holding /\ wk'.pc \notin Switching /\ wk.pc \notin Holding /\ wk.pc \notin Switching
        BY <2>1, <2>2 DEF IdleManager, Holding, Switching
      <4> QED
        BY <1>3, <3>1, <4>1 DEF ControlInv, LockInv
    <3>5. OutcomeInv'
      <4>1. \A k \in Jobs : jobs'[k].state = "none" <=> jobs'[k] = NoJob
        BY <3>2, FreeJob DEF ControlInv, OutcomeInv
      <4>2. \A k \in Jobs : /\ jobs'[k].state # "none" => jobs'[k].kind # "none"
                            /\ jobs'[k].kind = "restore" => jobs'[k].from \in Jobs
        BY <1>3, <3>2 DEF ControlInv, OutcomeInv
      <4>3. \A k \in Jobs : jobs'[k].state \in {"cancelled", "failed"} => k \notin auth'.committed
        BY <2>1, <3>2 DEF ControlInv, OutcomeInv
      <4>4. \A k \in auth'.committed : k # wk.job /\ jobs'[k] = jobs[k]
        BY <1>2, <1>3, <2>1, <3>2
      <4> QED
        BY <1>3, <2>1, <3>1, <4>1, <4>2, <4>3, <4>4 DEF ControlInv, OutcomeInv
    <3> QED
      BY <1>1, <3>3, <3>4, <3>5 DEF ControlInv
  <2> QED
    BY <1>5, <1>8, <2>1, <2>2 DEF CommitBackup
<1>9. CASE AcquireGate
  <2>1. wk.pc = "gate" /\ auth' = auth /\ jobs[wk.job].kind = "restore" /\ jobs[wk.job].state = "running"
    BY <1>9 DEF AcquireGate, Worker, ControlInv, WorkerInv, Preparing, Installing, Holding
  <2>2. CASE ~Fail(col, "failed")
    <3>1. /\ col.readers = 0 /\ col' = [col EXCEPT !.writer = TRUE, !.mutex = TRUE] /\ wk' = [wk EXCEPT !.pc = "compare"]
          /\ jobs' = jobs
      BY <1>9, <2>2 DEF AcquireGate
    <3>2. /\ col'.up = col.up /\ col'.active = col.active /\ col'.unavailable = col.unavailable /\ col'.writer = TRUE
          /\ col'.mutex = TRUE /\ col'.transition = col.transition /\ col'.readers = col.readers /\ col'.uncertain = col.uncertain
      BY <1>2, <3>1 DEF Memories
    <3>3. edit.pc # "leased" /\ ~col.transition
      BY <1>3, <2>1, <3>1 DEF ControlInv, LockInv, Switching
    <3>4. "compare" \in Preparing /\ "compare" \in Holding /\ "compare" \notin Switching
      BY DEF Preparing, Holding, Switching
    <3> QED
      BY <1>6, <2>1, <3>1, <3>2, <3>3, <3>4
  <2> QED
    BY <1>5, <2>1, <2>2
<1>10. CASE Compare
  <2>1. wk.pc = "compare" /\ auth' = auth /\ jobs[wk.job].kind = "restore" /\ jobs[wk.job].state = "running"
    BY <1>10 DEF Compare, Worker, ControlInv, WorkerInv, Preparing, Installing, Holding
  <2>2. CASE ~Fail(col, "failed")
    <3>1. col' = col /\ wk' = [wk EXCEPT !.pc = "flag"] /\ jobs' = jobs
      BY <1>10, <2>2 DEF Compare
    <3>2. edit.pc # "leased" /\ col.writer /\ col.mutex /\ ~col.transition
      BY <1>3, <2>1 DEF ControlInv, LockInv, Switching, Holding
    <3>3. "flag" \in Preparing /\ "flag" \in Holding /\ "flag" \notin Switching
      BY DEF Preparing, Holding, Switching
    <3> QED
      BY <1>6, <2>1, <3>1, <3>2, <3>3
  <2> QED
    BY <1>5, <2>1, <2>2
<1>11. CASE BeginTransition
  <2>1. wk.pc = "flag" /\ auth' = auth /\ jobs[wk.job].kind = "restore" /\ jobs[wk.job].state = "running"
    BY <1>11 DEF BeginTransition, Worker, ControlInv, WorkerInv, Preparing, Installing, Holding
  <2>2. CASE ~(Fail(col, "failed") \/ Fail(col, "cancelled"))
    <3>1. /\ col' = [col EXCEPT !.transition = TRUE] /\ wk' = [wk EXCEPT !.pc = "switch"]
          /\ jobs' = [jobs EXCEPT ![wk.job] = [@ EXCEPT !.old = col.root, !.cleanup = "pending"]]
      BY <1>11, <2>2 DEF BeginTransition
    <3>2. /\ col'.up = col.up /\ col'.active = col.active /\ col'.unavailable = col.unavailable /\ col'.writer = col.writer
          /\ col'.mutex = col.mutex /\ col'.transition = TRUE /\ col'.readers = col.readers /\ col'.uncertain = col.uncertain
      BY <1>2, <3>1 DEF Memories
    <3>3. /\ jobs'[wk.job].state = "running" /\ jobs'[wk.job].kind = jobs[wk.job].kind /\ jobs'[wk.job].from = jobs[wk.job].from
          /\ \A k \in Jobs : k # wk.job => jobs'[k] = jobs[k]
      BY <1>2, <1>3, <2>1, <3>1 DEF JobRecords
    <3>4. edit.pc # "leased" /\ col.writer /\ col.mutex
      BY <1>3, <2>1 DEF ControlInv, LockInv, Holding
    <3>5. "switch" \in Preparing /\ "switch" \in Holding /\ "switch" \in Switching
      BY DEF Preparing, Holding, Switching
    <3> QED
      BY <1>6, <2>1, <3>1, <3>2, <3>3, <3>4, <3>5
  <2> QED
    BY <1>5, <2>1, <2>2
<1>12. CASE SwitchAuthority
  <2>1. wk.pc = "switch" /\ jobs[wk.job].kind = "restore" /\ jobs[wk.job].state = "running"
    BY <1>12 DEF SwitchAuthority, Worker, ControlInv, WorkerInv, Preparing, Installing, Holding, Switching
  <2>2. Switched(wk.job).committed = auth.committed \cup {wk.job}
    BY <1>2 DEF Switched, Authorities
  <2>3. CASE Fail([col EXCEPT !.failed = TRUE], "failed")
    <3>1. auth'.committed = auth.committed \/ auth'.committed = auth.committed \cup {wk.job}
      BY <1>12, <2>2 DEF SwitchAuthority
    <3> QED
      BY <1>1, <1>3, <1>4, <2>1, <2>3, <3>1, FailControl
  <2>4. CASE ~Fail([col EXCEPT !.failed = TRUE], "failed")
    <3>1. /\ auth'.committed = auth.committed \cup {wk.job} /\ col' = [col EXCEPT !.root = wk.job]
          /\ wk' = [wk EXCEPT !.pc = "reload"] /\ jobs' = jobs
      BY <1>12, <2>2, <2>4 DEF SwitchAuthority
    <3>2. /\ col'.up = col.up /\ col'.active = col.active /\ col'.unavailable = col.unavailable /\ col'.writer = col.writer
          /\ col'.mutex = col.mutex /\ col'.transition = col.transition /\ col'.readers = col.readers
          /\ col'.uncertain = col.uncertain
      BY <1>2, <3>1 DEF Memories
    <3>3. wk'.pc = "reload" /\ wk'.job = wk.job
      BY <1>2, <3>1 DEF Workers
    <3>4. WorkerInv'
      BY <1>3, <2>1, <3>1, <3>2, <3>3 DEF ControlInv, WorkerInv, Preparing, Installing, Holding, Switching
    <3>5. LockInv'
      BY <1>3, <2>1, <3>2, <3>3 DEF ControlInv, LockInv, Holding, Switching
    <3>6. OutcomeInv'
      BY <1>3, <2>1, <3>1, <3>2, <3>3 DEF ControlInv, OutcomeInv
    <3> QED
      BY <1>1, <3>4, <3>5, <3>6 DEF ControlInv
  <2> QED
    BY <2>3, <2>4
<1> QED
  BY <1>7, <1>8, <1>9, <1>10, <1>11, <1>12

\* The thread from the commit point on.
LEMMA InstallingControl ==
  ASSUME ControlInv, Reload \/ FinishRestore \/ Cleanup
  PROVE  ControlInv'
<1>1. ManagementTypes'
  BY InstallingTypes DEF ControlInv
<1>2. /\ col \in Memories /\ jobs \in [Jobs -> JobRecords] /\ auth.committed \subseteq Jobs /\ wk \in Workers
  BY DEF ControlInv, ManagementTypes, Authorities
<1>3. /\ wk.pc \in Installing /\ wk.pc # "idle" /\ wk.job \in Jobs /\ col.up /\ ~col.unavailable /\ col.active = wk.job
      /\ jobs[wk.job].kind = "restore" /\ wk.job \in auth.committed /\ auth' = auth /\ plan' = plan /\ edit' = edit
      /\ col.writer /\ col.mutex /\ col.transition /\ edit.pc # "leased"
  BY DEF ControlInv, WorkerInv, LockInv, Worker, Installing, Holding, Switching, Reload, FinishRestore, Cleanup
<1>4. CASE Fail(col, "failed")
  BY <1>1, <1>2, <1>3, <1>4, FailControl
<1>5. ASSUME NEW p \in {"finish", "cleanup"}, wk' = [wk EXCEPT !.pc = p], ControlPart(col') = ControlPart(col),
             jobs'[wk.job].state = IF p = "finish" THEN "running" ELSE "succeeded",
             \A k \in Jobs : k # wk.job => jobs'[k] = jobs[k],
             jobs'[wk.job].kind = jobs[wk.job].kind, jobs'[wk.job].from = jobs[wk.job].from
      PROVE  ControlInv'
  <2>1. wk'.pc = p /\ wk'.job = wk.job
    BY <1>2, <1>5 DEF Workers
  <2>2. /\ col'.up = col.up /\ col'.active = col.active /\ col'.unavailable = col.unavailable
        /\ col'.writer = col.writer /\ col'.mutex = col.mutex /\ col'.transition = col.transition
        /\ col'.readers = col.readers /\ col'.uncertain = col.uncertain
    BY <1>5 DEF ControlPart
  <2>3. WorkerInv'
    BY <1>3, <1>5, <2>1, <2>2 DEF WorkerInv, Preparing, Installing, Holding, Switching
  <2>4. LockInv'
    BY <1>3, <2>1, <2>2 DEF ControlInv, LockInv, Holding, Switching
  <2>5. OutcomeInv'
    <3>1. \A k \in Jobs : jobs'[k].state = "none" <=> jobs'[k] = NoJob
      BY <1>5, FreeJob DEF ControlInv, OutcomeInv
    <3>2. \A k \in Jobs : /\ jobs'[k].state # "none" => jobs'[k].kind # "none"
                          /\ jobs'[k].kind = "restore" => jobs'[k].from \in Jobs
      BY <1>3, <1>5 DEF ControlInv, OutcomeInv
    <3>3. \A k \in Jobs : jobs'[k].state \in {"cancelled", "failed"} => k \notin auth'.committed
      BY <1>3, <1>5 DEF ControlInv, OutcomeInv
    <3>4. \A k \in auth'.committed : jobs'[k].kind = "restore"
      BY <1>2, <1>3, <1>5 DEF ControlInv, OutcomeInv
    <3>5. \A k \in auth'.committed : jobs'[k].state = "succeeded" \/ k \in col'.uncertain \/ (wk'.job = k /\ wk'.pc \in {"reload", "finish"})
      BY <1>2, <1>3, <1>5, <2>1, <2>2 DEF ControlInv, OutcomeInv
    <3> QED
      BY <1>3, <2>2, <3>1, <3>2, <3>3, <3>4, <3>5 DEF ControlInv, OutcomeInv
  <2> QED
    BY <1>1, <2>3, <2>4, <2>5 DEF ControlInv
<1>6. CASE Reload
  <2>1. CASE ~Fail(col, "failed")
    <3>1. col' = LoadLabels(LoadContentState(col, col.root)) /\ wk' = [wk EXCEPT !.pc = "finish"] /\ jobs' = jobs
      BY <1>6, <2>1 DEF Reload
    <3>2. ControlPart(col') = ControlPart(col)
      BY <1>2, <3>1, ControlPartKept
    <3>3. jobs[wk.job].state = "running"
      BY <1>6 DEF Reload, Worker, ControlInv, WorkerInv, Preparing, Installing
    <3> QED
      BY <1>5, <3>1, <3>2, <3>3
  <2> QED
    BY <1>4, <2>1
<1>7. CASE FinishRestore
  <2>1. CASE ~Fail(col, "failed")
    <3>1. col' = col /\ wk' = [wk EXCEPT !.pc = "cleanup"] /\ jobs' = [jobs EXCEPT ![wk.job].state = "succeeded"]
      BY <1>7, <2>1 DEF FinishRestore
    <3>2. /\ jobs'[wk.job].state = "succeeded" /\ jobs'[wk.job].kind = jobs[wk.job].kind /\ jobs'[wk.job].from = jobs[wk.job].from
          /\ \A k \in Jobs : k # wk.job => jobs'[k] = jobs[k]
      BY <1>2, <1>3, <3>1, StateOfJob
    <3> QED
      BY <1>5, <3>1, <3>2
  <2> QED
    BY <1>4, <2>1
<1>8. CASE Cleanup
  <2>1. PICK done \in BOOLEAN : jobs' = [jobs EXCEPT ![wk.job].cleanup = IF Job.keep \/ done THEN "done" ELSE "residuals"]
    BY <1>8 DEF Cleanup
  <2>2. /\ jobs'[wk.job].state = jobs[wk.job].state /\ jobs'[wk.job].kind = jobs[wk.job].kind
        /\ jobs'[wk.job].from = jobs[wk.job].from /\ \A k \in Jobs : k # wk.job => jobs'[k] = jobs[k]
    BY <1>2, <1>3, <2>1 DEF JobRecords
  <2>3. jobs[wk.job].state = "succeeded" /\ wk' = IdleManager
    BY <1>8 DEF Cleanup, Worker, ControlInv, WorkerInv
  <2>4. /\ col'.up = col.up /\ col'.active = 0 /\ col'.unavailable = col.unavailable /\ col'.writer = FALSE
        /\ col'.mutex = FALSE /\ col'.transition = FALSE /\ col'.readers = col.readers /\ col'.uncertain = col.uncertain
    <3>1. col' = [Released(col) EXCEPT !.active = 0]
      BY <1>8 DEF Cleanup
    <3> QED
      BY <1>2, <3>1 DEF Released, Memories
  <2>5. WorkerInv'
    BY <1>3, <2>3, <2>4 DEF WorkerInv, IdleManager, Preparing, Installing, Holding, Switching
  <2>6. LockInv'
    <3>1. wk'.pc \notin Holding /\ wk'.pc \notin Switching
      BY <2>3 DEF IdleManager, Holding, Switching
    <3> QED
      BY <1>3, <2>4, <3>1 DEF ControlInv, LockInv
  <2>7. OutcomeInv'
    <3>1. \A k \in Jobs : jobs'[k].state = "none" <=> jobs'[k] = NoJob
      BY <2>2, <2>3, FreeJob DEF ControlInv, OutcomeInv
    <3>2. \A k \in Jobs : /\ jobs'[k].state = jobs[k].state /\ jobs'[k].kind = jobs[k].kind /\ jobs'[k].from = jobs[k].from
      BY <2>2
    <3>3. \A k \in auth'.committed : jobs'[k].state = "succeeded" \/ k \in col'.uncertain
      BY <1>2, <1>3, <2>2, <2>3, <2>4, <3>2 DEF ControlInv, OutcomeInv
    <3> QED
      BY <1>2, <1>3, <3>1, <3>2, <3>3 DEF ControlInv, OutcomeInv
  <2> QED
    BY <1>1, <2>5, <2>6, <2>7 DEF ControlInv
<1> QED
  BY <1>6, <1>7, <1>8

\* Death and restart.
LEMMA RestartControl ==
  ASSUME ControlInv, CrashCollector \/ Restart
  PROVE  ControlInv'
<1>1. /\ col \in Memories /\ jobs \in [Jobs -> JobRecords] /\ auth.committed \subseteq Jobs
  BY DEF ControlInv, ManagementTypes, Authorities
<1>2. CASE CrashCollector
  <2>1. ManagementTypes'
    BY <1>2, CrashTypes DEF ControlInv
  <2>2. col'.up = FALSE /\ wk' = IdleManager /\ plan' = NoPlan /\ jobs' = jobs /\ auth' = auth
    BY <1>1, <1>2 DEF CrashCollector, Memories
  <2>3. edit'.pc # "leased"
    BY <1>2 DEF CrashCollector, NoEdit
  <2>4. WorkerInv'
    BY <2>2 DEF WorkerInv, IdleManager, Preparing, Installing, Holding, Switching
  <2>5. LockInv'
    BY <2>2, <2>3 DEF LockInv
  <2>6. OutcomeInv'
    BY <2>2 DEF ControlInv, OutcomeInv, NoPlan
  <2> QED
    BY <2>1, <2>4, <2>5, <2>6 DEF ControlInv
<1>3. CASE Restart
  <2>1. ManagementTypes'
    BY <1>3, RestartTypes DEF ControlInv
  <2>2. /\ col'.up = TRUE /\ col'.transition = FALSE /\ col'.mutex = FALSE /\ col'.writer = FALSE /\ col'.readers = 0
        /\ col'.active = 0 /\ col'.unavailable = FALSE /\ col'.uncertain = {}
    <3> DEFINE loaded == LoadLabels(LoadContentState(col, auth.serving))
    <3>1. loaded \in Memories
      BY FieldTypes, LoadTypes DEF ControlInv
    <3>2. col' = [loaded EXCEPT !.up = TRUE, !.queue = <<>>, !.publishing = <<>>, !.transition = FALSE, !.mutex = FALSE,
                         !.writer = FALSE, !.readers = 0, !.active = 0, !.cancel = FALSE, !.failed = FALSE, !.unavailable = FALSE,
                         !.uncertain = {}]
      BY <1>3 DEF Restart
    <3> HIDE DEF loaded
    <3> QED
      BY <3>1, <3>2 DEF Memories
  <2>3. wk = IdleManager /\ wk' = wk /\ plan' = plan /\ edit' = edit /\ auth' = auth /\ edit.pc # "leased"
    BY <1>3 DEF Restart, ControlInv, WorkerInv, LockInv
  <2>4. \A j \in Jobs : jobs'[j] = IF jobs[j] = NoJob THEN NoJob
                                   ELSE [jobs[j] EXCEPT !.state = RecoveredState(j), !.cleanup = IF j \in auth.committed THEN "done" ELSE @]
    BY <1>3 DEF Restart
  <2>5. ASSUME NEW j \in Jobs
        PROVE  jobs'[j].kind = jobs[j].kind /\ jobs'[j].from = jobs[j].from
    <3>1. CASE jobs[j] = NoJob
      BY <2>4, <3>1
    <3>2. CASE jobs[j] # NoJob
      <4>1. jobs'[j] = [jobs[j] EXCEPT !.state = RecoveredState(j), !.cleanup = IF j \in auth.committed THEN "done" ELSE @]
        BY <2>4, <3>2
      <4> QED
        BY <1>1, <4>1 DEF JobRecords
    <3> QED
      BY <3>1, <3>2
  <2>6. \A j \in Jobs : jobs[j] # NoJob => jobs'[j].state = RecoveredState(j)
    BY <1>1, <2>4 DEF JobRecords
  <2>7. WorkerInv'
    BY <2>2, <2>3 DEF WorkerInv, IdleManager, Preparing, Installing, Holding, Switching
  <2>8. LockInv'
    <3>1. wk'.pc \notin Holding /\ wk'.pc \notin Switching
      BY <2>3 DEF IdleManager, Holding, Switching
    <3> QED
      BY <2>2, <2>3, <3>1 DEF LockInv
  <2>9. OutcomeInv'
    <3>1. \A j \in Jobs : jobs[j] # NoJob => jobs'[j].state # "none"
      BY <2>6 DEF ControlInv, OutcomeInv, RecoveredState
    <3>2. \A j \in Jobs : jobs'[j].state = "none" <=> jobs'[j] = NoJob
      BY <2>4, <3>1, FreeJob
    <3>3. \A j \in Jobs : jobs'[j].state # "none" => jobs'[j].kind # "none"
      <4>1. \A j \in Jobs : jobs[j] # NoJob => jobs[j].kind # "none"
        BY DEF ControlInv, OutcomeInv
      <4> QED
        BY <2>4, <2>5, <4>1, FreeJob
    <3>4. \A j \in auth.committed : jobs[j] # NoJob
      BY <1>1, FreeJob DEF ControlInv, OutcomeInv
    <3>5. \A j \in auth.committed : jobs'[j].state = "succeeded"
      BY <1>1, <2>6, <3>4 DEF RecoveredState
    <3>6. \A j \in Jobs : jobs'[j].state \in {"cancelled", "failed"} => j \notin auth'.committed
      BY <2>3, <3>5
    <3> QED
      BY <1>1, <2>3, <2>5, <3>2, <3>3, <3>5, <3>6 DEF ControlInv, OutcomeInv
  <2> QED
    BY <2>1, <2>7, <2>8, <2>9 DEF ControlInv
<1> QED
  BY <1>2, <1>3

\* The program starts under control.
LEMMA InitialControl == ManagementInit => ControlInv
<1> SUFFICES ASSUME ManagementInit PROVE ControlInv
  OBVIOUS
<1>1. NoContent \in ContentRecords /\ [NoContent EXCEPT !.there = TRUE] \in ContentRecords
  <2>1. NoContent \in ContentRecords
    BY DEF NoContent, ContentRecords
  <2>2. \A c \in ContentRecords : [c EXCEPT !.there = TRUE] \in ContentRecords
    BY DEF ContentRecords
  <2> QED
    BY <2>1, <2>2
<1>2. NoJob \in JobRecords
  BY <1>1, JobNumbers DEF NoJob, JobRecords, JobStates
<1>3. contents \in [Roots -> ContentRecords] /\ jobs \in [Jobs -> JobRecords]
  BY <1>1, <1>2 DEF ManagementInit
<1>4. auth \in Authorities
  BY JobNumbers DEF ManagementInit, Authorities
<1>5. col \in Memories
  <2>1. <<>> \in Seq(Sources) /\ {} \in SUBSET Jobs /\ 0 \in Roots /\ 0 \in Int
    BY JobNumbers
  <2> QED
    BY <2>1 DEF ManagementInit, Memories
<1>6. /\ wk \in Workers
      /\ plan \in [kind : {"none", "backup", "restore"}, from : Roots, cur : ContentRecords, gen : Nat]
      /\ edit \in [pc : {"none", "composed", "leased"}, gen : Nat, rev : Nat]
      /\ stateBytes \in Nat \cup {-1} /\ crashes \in Nat
  BY <1>1, JobNumbers DEF ManagementInit, IdleManager, Workers, NoPlan, NoEdit
<1>7. ManagementTypes
  BY <1>3, <1>4, <1>5, <1>6 DEF ManagementTypes
<1>8. WorkerInv
  BY DEF ManagementInit, WorkerInv, IdleManager, Preparing, Installing, Holding, Switching
<1>9. LockInv
  BY DEF ManagementInit, LockInv, IdleManager, NoEdit, Holding, Switching
<1>10. OutcomeInv
  BY FreeJob DEF ManagementInit, OutcomeInv, NoPlan
<1> QED
  BY <1>7, <1>8, <1>9, <1>10 DEF ControlInv

\* Every step keeps the control of the thread.
LEMMA ControlStep == ControlInv /\ [ManagementNext]_managementVars => ControlInv'
<1> SUFFICES ASSUME ControlInv, [ManagementNext]_managementVars PROVE ControlInv'
  OBVIOUS
<1>1. CASE UNCHANGED managementVars
  <2>1. ManagementTypes'
    BY <1>1 DEF ControlInv, ManagementTypes, managementVars
  <2>2. WorkerInv' /\ LockInv' /\ OutcomeInv'
    BY <1>1 DEF ControlInv, WorkerInv, LockInv, OutcomeInv, managementVars
  <2> QED
    BY <2>1, <2>2 DEF ControlInv
<1>2. CASE ManagementNext
  BY <1>2, ServingControl, ClientControl, PreparingControl, InstallingControl, RestartControl DEF ManagementNext
<1> QED
  BY <1>1, <1>2

\* No step changes an outcome that was published.
LEMMA OutcomeStep ==
  ASSUME ControlInv, [ManagementNext]_managementVars, NEW j \in Jobs, jobs[j].state \in {"succeeded", "failed", "cancelled"}
  PROVE  jobs'[j].state = jobs[j].state
<1>1. /\ col \in Memories /\ jobs \in [Jobs -> JobRecords] /\ auth.committed \subseteq Jobs
  BY DEF ControlInv, ManagementTypes, Authorities
<1>2. ASSUME NEW m \in Memories, NEW state, wk.job \in Jobs, wk.pc # "idle", Fail(m, state)
      PROVE  jobs'[j].state = jobs[j].state
  <2>1. jobs[wk.job].state \in {"pending", "running", "succeeded"}
    BY <1>2 DEF ControlInv, ManagementTypes, WorkerInv, Workers, Preparing, Installing
  <2>2. jobs' = jobs \/ (jobs[wk.job].state # "succeeded" /\ jobs' = [jobs EXCEPT ![wk.job].state = state])
    BY <1>2, FailedPart
  <2>3. jobs' = [jobs EXCEPT ![wk.job].state = state] /\ j # wk.job => jobs'[j] = jobs[j]
    BY <1>1, <1>2
  <2> QED
    BY <2>1, <2>2, <2>3
<1>3. [col EXCEPT !.failed = TRUE] \in Memories
  BY <1>1 DEF Memories
<1>4. ASSUME NEW keep \in BOOLEAN, RequestJob(keep)
      PROVE  jobs'[j].state = jobs[j].state
  <2>1. PICK k \in FreeJobs :
           jobs' = [jobs EXCEPT ![k] = [NoJob EXCEPT !.kind = plan.kind, !.state = "pending", !.from = plan.from, !.cur = plan.cur,
                                        !.keep = keep \/ plan.kind = "backup"]]
    BY <1>4, RequestedJob
  <2>2. j # k
    BY <2>1, FreeJob DEF FreeJobs
  <2> QED
    BY <1>1, <2>1, <2>2
<1>5. ASSUME NEW k \in Jobs, Cancel(k)
      PROVE  jobs'[j].state = jobs[j].state
  <2>1. jobs' = jobs \/ (jobs[k].state \in {"pending", "unknown"} /\ jobs' = [jobs EXCEPT ![k].state = "cancelled"])
    BY <1>5 DEF Cancel, CancelJob
  <2> QED
    BY <1>1, <2>1
<1>6. ASSUME wk.pc # "idle", wk.job \in Jobs,
             CopyFiles \/ CommitBackup \/ AcquireGate \/ Compare \/ BeginTransition \/ SwitchAuthority
                \/ Reload \/ FinishRestore \/ Cleanup
      PROVE  jobs'[j].state = jobs[j].state
  <2>1. CASE Fail(col, "failed") \/ Fail(col, "cancelled") \/ Fail([col EXCEPT !.failed = TRUE], "failed")
    BY <1>1, <1>2, <1>3, <1>6, <2>1
  <2>2. ASSUME ~Fail(col, "failed"), ~Fail(col, "cancelled"), ~Fail([col EXCEPT !.failed = TRUE], "failed"),
               jobs' # jobs
        PROVE  jobs'[j].state = jobs[j].state
    <3>1. CASE CopyFiles
      <4>1. jobs[wk.job].state = "pending"
        BY <3>1 DEF CopyFiles, Worker, ControlInv, WorkerInv
      <4>2. j # wk.job
        BY <4>1
      <4>3. \E doc : jobs' = [jobs EXCEPT ![wk.job] = doc]
        BY <2>2, <3>1 DEF CopyFiles
      <4> QED
        BY <1>1, <4>2, <4>3
    <3>2. CASE CommitBackup \/ FinishRestore
      <4>1. jobs' = [jobs EXCEPT ![wk.job].state = "succeeded"]
        BY <2>2, <3>2 DEF CommitBackup, FinishRestore
      <4>2. jobs[wk.job].state = "running"
        BY <3>2 DEF CommitBackup, FinishRestore, Worker, ControlInv, WorkerInv, Preparing, Installing
      <4> QED
        BY <1>1, <4>1, <4>2
    <3>3. CASE BeginTransition
      <4>1. jobs' = [jobs EXCEPT ![wk.job] = [@ EXCEPT !.old = col.root, !.cleanup = "pending"]]
        BY <2>2, <3>3 DEF BeginTransition
      <4> QED
        BY <1>1, <4>1 DEF JobRecords
    <3>4. CASE Cleanup
      <4>1. PICK done \in BOOLEAN : jobs' = [jobs EXCEPT ![wk.job].cleanup = IF Job.keep \/ done THEN "done" ELSE "residuals"]
        BY <3>4 DEF Cleanup
      <4> QED
        BY <1>1, <4>1 DEF JobRecords
    <3>5. CASE AcquireGate \/ Compare \/ SwitchAuthority \/ Reload
      BY <2>2, <3>5 DEF AcquireGate, Compare, SwitchAuthority, Reload
    <3> QED
      BY <1>6, <3>1, <3>2, <3>3, <3>4, <3>5
  <2> QED
    BY <2>1, <2>2
<1>7. CASE CopyFiles \/ CommitBackup \/ AcquireGate \/ Compare \/ BeginTransition \/ SwitchAuthority
              \/ Reload \/ FinishRestore \/ Cleanup
  <2>1. wk.pc # "idle" /\ wk.job \in Jobs
    BY <1>7 DEF ControlInv, WorkerInv, Worker, CopyFiles, CommitBackup, AcquireGate, Compare, BeginTransition, SwitchAuthority,
            Reload, FinishRestore, Cleanup
  <2> QED
    BY <1>6, <1>7, <2>1
<1>8. CASE Restart
  <2>1. jobs[j] # NoJob
    BY FreeJob
  <2>2. jobs'[j] = [jobs[j] EXCEPT !.state = RecoveredState(j), !.cleanup = IF j \in auth.committed THEN "done" ELSE @]
    BY <1>8, <2>1 DEF Restart
  <2>3. jobs'[j].state = RecoveredState(j)
    BY <1>1, <2>2 DEF JobRecords
  <2>4. j \in auth.committed => jobs[j].state = "succeeded"
    BY DEF ControlInv, OutcomeInv
  <2> QED
    BY <2>3, <2>4 DEF RecoveredState
<1>9. CASE UNCHANGED jobs
  BY <1>9
<1> QED
  <2>1. \/ UNCHANGED jobs
        \/ \E keep \in BOOLEAN : RequestJob(keep)
        \/ \E k \in Jobs : Cancel(k)
        \/ CopyFiles \/ CommitBackup \/ AcquireGate \/ Compare \/ BeginTransition \/ SwitchAuthority
              \/ Reload \/ FinishRestore \/ Cleanup
        \/ Restart
    BY DEF ManagementNext, managementVars, ObserveProducer, AdmitRow, TakeRow, Publish, CheckpointRead, CheckpointWrite,
           ReadLabels, BeginEdit, Mutate, Preview, CrashCollector
  <2> QED
    BY <1>4, <1>5, <1>7, <1>8, <1>9, <2>1

\* Whatever errors, cancels and deaths there are: what a job is said to have
\* become is what the authority says of it and never changes, and a restore that
\* is over holds neither the readers nor the producers back (run, Management.prepare,
\* the finally of _restore_switch).
THEOREM OutcomesHold == ManagementSpec => [](OutcomeAgrees /\ HoldEnds) /\ OutcomeFinal
<1>1. ControlInv => OutcomeAgrees /\ HoldEnds
  <2> SUFFICES ASSUME ControlInv PROVE OutcomeAgrees /\ HoldEnds
    OBVIOUS
  <2>1. OutcomeAgrees
    BY DEF ControlInv, OutcomeInv, OutcomeAgrees, IdleManager
  <2>2. HoldEnds
    BY DEF ControlInv, LockInv, HoldEnds, Holding, Switching
  <2> QED
    BY <2>1, <2>2
<1>2. ControlInv /\ [ManagementNext]_managementVars
         => [\A j \in Jobs : jobs[j].state \in {"succeeded", "failed", "cancelled"} => jobs'[j].state = jobs[j].state]_managementVars
  BY OutcomeStep
<1> QED
  BY <1>1, <1>2, InitialControl, ControlStep, PTL DEF ManagementSpec, OutcomeFinal

-----------------------------------------------------------------------------
(* What serves.                                                            *)

\* The documents of what was committed, and of what succeeded, are kept.
LEMMA DocumentsKept ==
  ASSUME ControlInv, [ManagementNext]_managementVars, NEW j \in Jobs, j \in auth.committed \/ jobs[j].state = "succeeded"
  PROVE  /\ jobs'[j].kind = jobs[j].kind /\ jobs'[j].from = jobs[j].from /\ jobs'[j].copy = jobs[j].copy
         /\ jobs'[j].cur = jobs[j].cur /\ jobs'[j].old = jobs[j].old
<1> DEFINE Kept == /\ jobs'[j].kind = jobs[j].kind /\ jobs'[j].from = jobs[j].from /\ jobs'[j].copy = jobs[j].copy
                   /\ jobs'[j].cur = jobs[j].cur /\ jobs'[j].old = jobs[j].old
<1>1. /\ col \in Memories /\ jobs \in [Jobs -> JobRecords] /\ auth.committed \subseteq Jobs
  BY DEF ControlInv, ManagementTypes, Authorities
<1>2. ASSUME NEW k \in Jobs, NEW state, jobs' = [jobs EXCEPT ![k].state = state]
      PROVE  Kept
  BY <1>1, <1>2, StateOfJob
<1>3. ASSUME NEW k \in Jobs, NEW doc, jobs' = [jobs EXCEPT ![k] = doc], j # k
      PROVE  Kept
  BY <1>1, <1>3
<1>4. jobs[j] # NoJob
  BY FreeJob DEF ControlInv, OutcomeInv
<1>5. ASSUME NEW keep \in BOOLEAN, RequestJob(keep)
      PROVE  Kept
  <2>1. PICK k \in FreeJobs :
           jobs' = [jobs EXCEPT ![k] = [NoJob EXCEPT !.kind = plan.kind, !.state = "pending", !.from = plan.from, !.cur = plan.cur,
                                        !.keep = keep \/ plan.kind = "backup"]]
    BY <1>5, RequestedJob
  <2>2. j # k /\ k \in Jobs
    BY <1>4 DEF FreeJobs
  <2> QED
    BY <1>3, <2>1, <2>2
<1>6. ASSUME NEW k \in Jobs, Cancel(k)
      PROVE  Kept
  BY <1>2, <1>6 DEF Cancel, CancelJob
<1>7. ASSUME wk.job \in Jobs, NEW m, NEW state, Fail(m, state)
      PROVE  Kept
  <2>1. jobs' = jobs \/ jobs' = [jobs EXCEPT ![wk.job].state = state]
    BY <1>7 DEF Fail
  <2> QED
    BY <1>2, <1>7, <2>1
<1>8. CASE CopyFiles
  <2>1. wk.pc = "run" /\ wk.job \in Jobs /\ j # wk.job
    BY <1>8 DEF CopyFiles, Worker, ControlInv, WorkerInv, Preparing
  <2>2. (\E doc : jobs' = [jobs EXCEPT ![wk.job] = doc]) \/ Fail(col, "cancelled") \/ Fail(col, "failed")
    BY <1>8 DEF CopyFiles
  <2> QED
    BY <1>3, <1>7, <2>1, <2>2
<1>9. CASE CommitBackup \/ FinishRestore
  <2>1. wk.job \in Jobs
    BY <1>9 DEF CommitBackup, FinishRestore, Worker, ControlInv, WorkerInv
  <2>2. jobs' = [jobs EXCEPT ![wk.job].state = "succeeded"] \/ Fail(col, "cancelled") \/ Fail(col, "failed")
    BY <1>9 DEF CommitBackup, FinishRestore
  <2> QED
    BY <1>2, <1>7, <2>1, <2>2
<1>10. CASE BeginTransition
  <2>1. wk.pc = "flag" /\ wk.job \in Jobs /\ j # wk.job
    BY <1>10 DEF BeginTransition, Worker, ControlInv, WorkerInv, Preparing, Installing
  <2>2. (\E doc : jobs' = [jobs EXCEPT ![wk.job] = doc]) \/ Fail(col, "cancelled") \/ Fail(col, "failed")
    BY <1>10 DEF BeginTransition
  <2> QED
    BY <1>3, <1>7, <2>1, <2>2
<1>11. CASE AcquireGate \/ Compare \/ SwitchAuthority \/ Reload
  <2>1. wk.job \in Jobs
    BY <1>11 DEF AcquireGate, Compare, SwitchAuthority, Reload, Worker, ControlInv, WorkerInv
  <2>2. jobs' = jobs \/ Fail(col, "failed") \/ Fail([col EXCEPT !.failed = TRUE], "failed")
    BY <1>11 DEF AcquireGate, Compare, SwitchAuthority, Reload
  <2> QED
    BY <1>7, <2>1, <2>2
<1>12. CASE Cleanup
  <2>1. PICK value : jobs' = [jobs EXCEPT ![wk.job].cleanup = value]
    BY <1>12 DEF Cleanup
  <2> QED
    BY <1>1, <2>1 DEF JobRecords
<1>13. CASE Restart
  <2>1. jobs'[j] = [jobs[j] EXCEPT !.state = RecoveredState(j), !.cleanup = IF j \in auth.committed THEN "done" ELSE @]
    BY <1>4, <1>13 DEF Restart
  <2> QED
    BY <1>1, <2>1 DEF JobRecords
<1>14. CASE UNCHANGED jobs
  BY <1>14
<1> QED
  <2>1. \/ UNCHANGED jobs
        \/ \E keep \in BOOLEAN : RequestJob(keep)
        \/ \E k \in Jobs : Cancel(k)
        \/ CopyFiles \/ CommitBackup \/ AcquireGate \/ Compare \/ BeginTransition \/ SwitchAuthority
        \/ Reload \/ FinishRestore \/ Cleanup
        \/ Restart
    BY DEF ManagementNext, managementVars, ObserveProducer, AdmitRow, TakeRow, Publish, CheckpointRead, CheckpointWrite,
           ReadLabels, BeginEdit, Mutate, Preview, CrashCollector
  <2> QED
    BY <1>5, <1>6, <1>8, <1>9, <1>10, <1>11, <1>12, <1>13, <1>14, <2>1

\* What a committed restore restored is what it was.
LEMMA BaseKept ==
  ASSUME ControlInv, BackupInv, [ManagementNext]_managementVars, NEW j \in auth.committed
  PROVE  RestoredFrom(j)' = RestoredFrom(j)
<1>1. j \in Jobs /\ jobs[j].kind = "restore"
  BY DEF ControlInv, ManagementTypes, Authorities, OutcomeInv
<1>2. jobs[j].from \in Jobs /\ jobs[jobs[j].from].state = "succeeded"
  BY <1>1 DEF ControlInv, OutcomeInv, BackupInv
<1>3. jobs'[j].from = jobs[j].from /\ jobs'[jobs[j].from].copy = jobs[jobs[j].from].copy
  BY <1>1, <1>2, DocumentsKept
<1> QED
  BY <1>3 DEF RestoredFrom

\* A step that leaves the contents and the authority alone.
LEMMA ServedFrame ==
  ASSUME ControlInv, ServedInv, BackupInv, [ManagementNext]_managementVars, contents' = contents, auth' = auth
  PROVE  ServedInv'
<1>1. auth.committed \subseteq Jobs
  BY DEF ControlInv, ManagementTypes, Authorities
<1>2. \A j \in auth.committed : RestoredFrom(j)' = RestoredFrom(j) /\ jobs'[j].cur = jobs[j].cur /\ jobs'[j].old = jobs[j].old
  BY <1>1, BaseKept, DocumentsKept
<1>3. auth.serving # 0 => RestoredFrom(auth.serving)' = RestoredFrom(auth.serving)
  BY <1>2 DEF ServedInv, FilesInv
<1>4. FilesInv'
  BY <1>2 DEF ServedInv, FilesInv
<1>6. WrittenForServing'
  BY <1>3 DEF ServedInv, WrittenForServing
<1>7. ReplacedAsConfirmed'
  BY <1>2 DEF ServedInv, ReplacedAsConfirmed
<1>8. RestoredWhole'
  BY <1>3 DEF ServedInv, RestoredWhole
<1> QED
  BY <1>4, <1>6, <1>7, <1>8 DEF ServedInv

\* While the thread runs, or anything waits or is leased, memory and files agree.
LEMMA ServingRoot ==
  ASSUME ControlInv, MemoryInv, col.up,
         wk.pc # "idle" \/ ~col.unavailable \/ col.queue # <<>> \/ col.publishing # <<>> \/ stateBytes # -1 \/ edit.pc = "leased"
  PROVE  col.root = auth.serving /\ (wk.pc # "reload" => col.seq = contents[col.root].mark)
  BY DEF ControlInv, WorkerInv, MemoryInv, Halted

\* A reserved backup is of the content that served, a restore of a whole backup.
LEMMA RequestedPlan ==
  ASSUME ControlInv, ServedInv, MemoryInv, NEW keep \in BOOLEAN, RequestJob(keep)
  PROVE  /\ plan.kind \in {"backup", "restore"} /\ plan.cur.there
         /\ plan.kind = "restore" => plan.from \in Jobs /\ jobs[plan.from].kind = "backup" /\ jobs[plan.from].state = "succeeded"
<1>1. plan # NoPlan /\ plan.cur = contents[col.root] /\ plan.from \in {0} \cup Backups /\ col.up /\ ~col.unavailable
  BY DEF RequestJob, Frontier, Callable, Serves
<1>2. plan.cur.there
  BY <1>1, ServingRoot DEF ServedInv, FilesInv
<1>3. plan.kind \in {"backup", "restore"}
  BY <1>1 DEF ControlInv, ManagementTypes, OutcomeInv
<1>4. plan.kind = "restore" => plan.from \in Backups
  BY <1>1, JobNumbers DEF ControlInv, OutcomeInv
<1> QED
  BY <1>2, <1>3, <1>4 DEF Backups

\* Every step keeps the backups whole.
LEMMA BackupStep ==
  ASSUME ControlInv, ServedInv, BackupInv, MemoryInv, [ManagementNext]_managementVars
  PROVE  BackupInv'
<1>1. /\ col \in Memories /\ jobs \in [Jobs -> JobRecords] /\ auth.committed \subseteq Jobs
  BY DEF ControlInv, ManagementTypes, Authorities
<1>2. \A j \in Jobs : jobs[j].state = "succeeded" => jobs'[j].state = "succeeded" /\ jobs'[j].kind = jobs[j].kind
  BY OutcomeStep, DocumentsKept
\* A step that changes states only.
<1>3. ASSUME \A j \in Jobs : /\ jobs'[j].kind = jobs[j].kind /\ jobs'[j].from = jobs[j].from /\ jobs'[j].copy = jobs[j].copy
                             /\ jobs'[j].cur = jobs[j].cur,
             \A j \in Jobs : jobs[j].kind = "backup" /\ jobs'[j].state \in {"running", "succeeded"}
                             => jobs[j].state \in {"running", "succeeded"}
      PROVE  BackupInv'
  <2> SUFFICES ASSUME NEW j \in Jobs
               PROVE  /\ jobs'[j].copy.mark = Len(jobs'[j].copy.rows)
                      /\ jobs'[j].kind # "none" => jobs'[j].cur.there
                      /\ jobs'[j].kind = "backup" /\ jobs'[j].state \in {"running", "succeeded"} => jobs'[j].copy.there
                      /\ jobs'[j].kind = "restore" => jobs'[jobs'[j].from].kind = "backup" /\ jobs'[jobs'[j].from].state = "succeeded"
    BY DEF BackupInv
  <2>1. jobs[j].kind = "restore" => jobs[j].from \in Jobs
    BY DEF ControlInv, OutcomeInv
  <2> QED
    BY <1>2, <1>3, <2>1 DEF BackupInv
<1>4. ASSUME NEW k \in Jobs, NEW state, jobs' = [jobs EXCEPT ![k].state = state],
             state \in {"running", "succeeded"} => jobs[k].state \in {"running", "succeeded"}
      PROVE  BackupInv'
  <2>1. \A j \in Jobs : /\ jobs'[j].kind = jobs[j].kind /\ jobs'[j].from = jobs[j].from /\ jobs'[j].copy = jobs[j].copy
                        /\ jobs'[j].cur = jobs[j].cur
                        /\ (j # k => jobs'[j] = jobs[j]) /\ jobs'[k].state = state
    BY <1>1, <1>4, StateOfJob
  <2> QED
    BY <1>3, <1>4, <2>1
<1>5. CASE UNCHANGED jobs
  BY <1>3, <1>5
<1>6. ASSUME NEW keep \in BOOLEAN, RequestJob(keep)
      PROVE  BackupInv'
  <2> DEFINE doc == [NoJob EXCEPT !.kind = plan.kind, !.state = "pending", !.from = plan.from, !.cur = plan.cur,
                                  !.keep = keep \/ plan.kind = "backup"]
  <2>1. PICK k \in FreeJobs : jobs' = [jobs EXCEPT ![k] = doc]
    BY <1>6, RequestedJob
  <2>2. doc.kind = plan.kind /\ doc.from = plan.from /\ doc.copy = NoContent /\ doc.cur = plan.cur /\ doc.state = "pending"
    BY DEF NoJob
  <2>3. NoContent.mark = 0 /\ NoContent.rows = <<>> /\ Len(<<>>) = 0
    BY DEF NoContent
  <2>4. k \in Jobs /\ jobs[k].state = "none"
    BY <2>1, FreeJob DEF FreeJobs
  <2> HIDE DEF doc
  <2>5. jobs'[k] = doc /\ \A j \in Jobs : j # k => jobs'[j] = jobs[j]
    BY <1>1, <2>1, <2>4
  <2> SUFFICES ASSUME NEW j \in Jobs
               PROVE  /\ jobs'[j].copy.mark = Len(jobs'[j].copy.rows)
                      /\ jobs'[j].kind # "none" => jobs'[j].cur.there
                      /\ jobs'[j].kind = "backup" /\ jobs'[j].state \in {"running", "succeeded"} => jobs'[j].copy.there
                      /\ jobs'[j].kind = "restore" => jobs'[jobs'[j].from].kind = "backup" /\ jobs'[jobs'[j].from].state = "succeeded"
    BY DEF BackupInv
  <2>6. jobs[j].kind = "restore" => jobs[j].from \in Jobs
    BY DEF ControlInv, OutcomeInv
  <2>7. CASE j = k
    BY <1>2, <1>6, <2>2, <2>3, <2>5, <2>7, RequestedPlan
  <2>8. CASE j # k
    BY <1>2, <2>5, <2>6, <2>8 DEF BackupInv
  <2> QED
    BY <2>7, <2>8
<1>7. ASSUME NEW k \in Jobs, Cancel(k)
      PROVE  BackupInv'
  <2>1. jobs' = jobs \/ jobs' = [jobs EXCEPT ![k].state = "cancelled"]
    BY <1>7 DEF Cancel, CancelJob
  <2> QED
    BY <1>4, <1>5, <1>7, <2>1
<1>8. ASSUME wk.job \in Jobs, NEW m, NEW state \in {"failed", "cancelled"}, Fail(m, state)
      PROVE  BackupInv'
  <2>1. jobs' = jobs \/ jobs' = [jobs EXCEPT ![wk.job].state = state]
    BY <1>8 DEF Fail
  <2> QED
    BY <1>4, <1>5, <1>8, <2>1
<1>9. CASE CopyFiles
  <2> DEFINE copy == IF Job.kind = "backup" THEN [Job.cur EXCEPT !.mark = Len(Job.cur.rows)] ELSE jobs[Job.from].copy
  <2>1. wk.pc = "run" /\ wk.job \in Jobs /\ jobs[wk.job].state = "pending" /\ jobs[wk.job].kind \in {"backup", "restore"}
    BY <1>1, <1>9 DEF CopyFiles, Worker, ControlInv, WorkerInv, JobRecords
  <2>2. ASSUME jobs' = [jobs EXCEPT ![wk.job] = [@ EXCEPT !.state = "running", !.copy = copy]]
        PROVE  BackupInv'
    <3>1. copy.mark = Len(copy.rows) /\ (jobs[wk.job].kind = "backup" => copy.there)
      <4>1. CASE Job.kind = "backup"
        <5>1. Job.cur \in ContentRecords /\ Job.cur.there
          BY <2>1, <4>1, FieldTypes DEF ControlInv, Job, BackupInv
        <5>2. copy.mark = Len(Job.cur.rows) /\ copy.rows = Job.cur.rows /\ copy.there = Job.cur.there
          BY <4>1, <5>1 DEF ContentRecords
        <5> QED
          BY <5>1, <5>2
      <4>2. CASE Job.kind # "backup"
        <5>1. copy = jobs[Job.from].copy /\ Job.from \in Jobs /\ jobs[wk.job].kind # "backup"
          BY <2>1, <4>2 DEF Job, ControlInv, OutcomeInv
        <5> QED
          BY <5>1 DEF BackupInv
      <4> QED
        BY <4>1, <4>2
    <3> HIDE DEF copy
    <3>2. /\ jobs'[wk.job].kind = jobs[wk.job].kind /\ jobs'[wk.job].from = jobs[wk.job].from /\ jobs'[wk.job].copy = copy
          /\ jobs'[wk.job].cur = jobs[wk.job].cur
          /\ \A j \in Jobs : j # wk.job => jobs'[j] = jobs[j]
      BY <1>1, <2>1, <2>2 DEF JobRecords
    <3> SUFFICES ASSUME NEW j \in Jobs
                 PROVE  /\ jobs'[j].copy.mark = Len(jobs'[j].copy.rows)
                        /\ jobs'[j].kind # "none" => jobs'[j].cur.there
                        /\ jobs'[j].kind = "backup" /\ jobs'[j].state \in {"running", "succeeded"} => jobs'[j].copy.there
                        /\ jobs'[j].kind = "restore" => jobs'[jobs'[j].from].kind = "backup" /\ jobs'[jobs'[j].from].state = "succeeded"
      BY DEF BackupInv
    <3>3. jobs[j].kind = "restore" => jobs[j].from \in Jobs
      BY DEF ControlInv, OutcomeInv
    <3> QED
      BY <1>2, <3>1, <3>2, <3>3 DEF BackupInv
  <2>3. jobs' = [jobs EXCEPT ![wk.job] = [@ EXCEPT !.state = "running", !.copy = copy]] \/ Fail(col, "cancelled") \/ Fail(col, "failed")
    BY <1>9 DEF CopyFiles
  <2> QED
    BY <1>8, <2>1, <2>2, <2>3
<1>10. CASE CommitBackup \/ FinishRestore
  <2>1. wk.job \in Jobs /\ jobs[wk.job].state = "running"
    BY <1>10 DEF CommitBackup, FinishRestore, Worker, ControlInv, WorkerInv, Preparing, Installing
  <2>2. jobs' = [jobs EXCEPT ![wk.job].state = "succeeded"] \/ Fail(col, "cancelled") \/ Fail(col, "failed")
    BY <1>10 DEF CommitBackup, FinishRestore
  <2> QED
    BY <1>4, <1>8, <2>1, <2>2
<1>11. CASE BeginTransition
  <2>1. wk.job \in Jobs
    BY <1>11 DEF BeginTransition, Worker, ControlInv, WorkerInv
  <2>2. ASSUME jobs' = [jobs EXCEPT ![wk.job] = [@ EXCEPT !.old = col.root, !.cleanup = "pending"]]
        PROVE  BackupInv'
    <3>1. \A j \in Jobs : /\ jobs'[j].kind = jobs[j].kind /\ jobs'[j].from = jobs[j].from /\ jobs'[j].copy = jobs[j].copy
                          /\ jobs'[j].cur = jobs[j].cur /\ jobs'[j].state = jobs[j].state
      BY <1>1, <2>1, <2>2 DEF JobRecords
    <3> QED
      BY <1>3, <3>1
  <2> QED
    BY <1>8, <1>11, <2>1, <2>2 DEF BeginTransition
<1>12. CASE AcquireGate \/ Compare \/ SwitchAuthority \/ Reload
  <2>1. wk.job \in Jobs
    BY <1>12 DEF AcquireGate, Compare, SwitchAuthority, Reload, Worker, ControlInv, WorkerInv
  <2>2. jobs' = jobs \/ Fail(col, "failed") \/ Fail([col EXCEPT !.failed = TRUE], "failed")
    BY <1>12 DEF AcquireGate, Compare, SwitchAuthority, Reload
  <2> QED
    BY <1>5, <1>8, <2>1, <2>2
<1>13. CASE Cleanup
  <2>1. PICK value : jobs' = [jobs EXCEPT ![wk.job].cleanup = value]
    BY <1>13 DEF Cleanup
  <2>2. \A j \in Jobs : /\ jobs'[j].kind = jobs[j].kind /\ jobs'[j].from = jobs[j].from /\ jobs'[j].copy = jobs[j].copy
                        /\ jobs'[j].cur = jobs[j].cur /\ jobs'[j].state = jobs[j].state
    BY <1>1, <2>1 DEF JobRecords
  <2> QED
    BY <1>3, <2>2
<1>14. CASE Restart
  <2>1. ASSUME NEW j \in Jobs
        PROVE  /\ jobs'[j].kind = jobs[j].kind /\ jobs'[j].from = jobs[j].from /\ jobs'[j].copy = jobs[j].copy
               /\ jobs'[j].cur = jobs[j].cur
               /\ jobs[j].kind = "backup" /\ jobs'[j].state \in {"running", "succeeded"} => jobs[j].state \in {"running", "succeeded"}
    <3>1. CASE jobs[j] = NoJob
      BY <1>14, <3>1, FreeJob DEF Restart
    <3>2. CASE jobs[j] # NoJob
      <4>1. jobs'[j] = [jobs[j] EXCEPT !.state = RecoveredState(j), !.cleanup = IF j \in auth.committed THEN "done" ELSE @]
        BY <1>14, <3>2 DEF Restart
      <4>2. /\ jobs'[j].kind = jobs[j].kind /\ jobs'[j].from = jobs[j].from /\ jobs'[j].copy = jobs[j].copy
            /\ jobs'[j].cur = jobs[j].cur /\ jobs'[j].state = RecoveredState(j)
        BY <1>1, <4>1 DEF JobRecords
      <4>3. jobs[j].kind = "backup" => j \notin auth.committed
        BY DEF ControlInv, OutcomeInv
      <4> QED
        BY <4>2, <4>3 DEF RecoveredState
    <3> QED
      BY <3>1, <3>2
  <2> QED
    BY <1>3, <2>1
<1> QED
  <2>1. \/ UNCHANGED jobs
        \/ \E keep \in BOOLEAN : RequestJob(keep)
        \/ \E k \in Jobs : Cancel(k)
        \/ CopyFiles \/ CommitBackup \/ AcquireGate \/ Compare \/ BeginTransition \/ SwitchAuthority
        \/ Reload \/ FinishRestore \/ Cleanup
        \/ Restart
    BY DEF ManagementNext, managementVars, ObserveProducer, AdmitRow, TakeRow, Publish, CheckpointRead, CheckpointWrite,
           ReadLabels, BeginEdit, Mutate, Preview, CrashCollector
  <2> QED
    BY <1>5, <1>6, <1>7, <1>9, <1>10, <1>11, <1>12, <1>13, <1>14, <2>1

\* What a sequence had it still has when something is put behind it.
LEMMA PrefixOfLonger ==
  ASSUME NEW S, NEW s \in Seq(S), NEW t \in Seq(S), NEW u \in Seq(S), IsPrefix(s, t)
  PROVE  IsPrefix(s, t \o u) /\ Len(t \o u) = Len(t) + Len(u) /\ t \o u \in Seq(S)
<1>1. Len(s) <= Len(t) /\ Len(s) \in Nat /\ Len(t) \in Nat /\ Len(u) \in Nat /\ SubSeq(s, 1, Len(s)) = SubSeq(t, 1, Len(s))
  BY DEF IsPrefix
<1>2. Len(t \o u) = Len(t) + Len(u) /\ t \o u \in Seq(S)
  BY <1>1
<1>3. SubSeq(t \o u, 1, Len(s)) = SubSeq(t, 1, Len(s))
  BY <1>1, <1>2
<1> QED
  BY <1>1, <1>2, <1>3 DEF IsPrefix

\* The parts of a concatenation.
LEMMA PartsOfLonger ==
  ASSUME NEW S, NEW t \in Seq(S), NEW u \in Seq(S), NEW i \in 1 .. Len(t \o u)
  PROVE  /\ i <= Len(t) => i \in 1 .. Len(t) /\ (t \o u)[i] = t[i]
         /\ i > Len(t) => i - Len(t) \in 1 .. Len(u) /\ (t \o u)[i] = u[i - Len(t)]
<1>1. Len(t) \in Nat /\ Len(u) \in Nat /\ Len(t \o u) = Len(t) + Len(u) /\ i \in Int
  OBVIOUS
<1> QED
  BY <1>1

\* A sequence is its own prefix.
LEMMA PrefixOfItself ==
  ASSUME NEW S, NEW s \in Seq(S)
  PROVE  IsPrefix(s, s)
  BY DEF IsPrefix

\* A content whose watermark covers it is not cut.
LEMMA ReconciledSame ==
  ASSUME NEW c \in ContentRecords, c.mark = Len(c.rows)
  PROVE  Reconciled(c) = c
<1>1. c.rows \in Seq(Sources)
  BY DEF ContentRecords
<1>2. SubSeq(c.rows, 1, Len(c.rows)) = c.rows
  BY <1>1
<1>3. Reconciled(c) = [c EXCEPT !.rows = c.rows]
  BY <1>2 DEF Reconciled
<1> QED
  BY <1>3 DEF ContentRecords

\* The writes of a watermark and the cuts at one change nothing: memory, state
\* file and rows already agree.
LEMMA ContentKept ==
  ASSUME ControlInv, ContentInv, CheckpointWrite \/ Reload \/ FinishRestore
  PROVE  contents' = contents
<1>1. /\ contents \in [Roots -> ContentRecords] /\ col.root \in Roots /\ contents[col.root] \in ContentRecords
      /\ contents[col.root].rows \in Seq(Sources) /\ contents[col.root].mark = Len(contents[col.root].rows)
  BY FieldTypes DEF ControlInv, ManagementTypes, ContentInv, ServedInv, FilesInv
<1>2. [contents[col.root] EXCEPT !.mark = contents[col.root].mark] = contents[col.root]
  BY <1>1 DEF ContentRecords
<1>3. Reconciled(contents[col.root]) = contents[col.root]
  BY <1>1, ReconciledSame
<1>4. [contents EXCEPT ![col.root] = contents[col.root]] = contents
  BY <1>1
<1>5. CASE CheckpointWrite
  <2>1. col.up /\ stateBytes # -1
    BY <1>5 DEF CheckpointWrite
  <2>2. stateBytes = contents[col.root].mark
    BY <2>1, ServingRoot DEF ContentInv, MemoryInv, Holding, Switching
  <2> QED
    BY <1>1, <1>2, <1>4, <1>5, <2>2 DEF CheckpointWrite
<1>6. CASE Reload
  BY <1>1, <1>3, <1>4, <1>6 DEF Reload
<1>7. CASE FinishRestore
  <2>1. col.up /\ wk.pc = "finish"
    BY <1>7 DEF FinishRestore, Worker
  <2>2. col.seq = contents[col.root].mark
    BY <2>1, ServingRoot DEF ContentInv
  <2> QED
    BY <1>1, <1>2, <1>4, <1>7, <2>2 DEF FinishRestore
<1> QED
  BY <1>5, <1>6, <1>7

\* A step that writes only where nothing serves and nothing replaced is kept, or
\* removes what was replaced.
LEMMA ServedElsewhere ==
  ASSUME ControlInv, ServedInv, BackupInv, [ManagementNext]_managementVars, auth' = auth,
         contents'[auth.serving] = contents[auth.serving],
         \A r \in Roots : \/ contents'[r] = contents[r]
                          \/ /\ contents'[r].mark = Len(contents'[r].rows)
                             /\ ~contents'[r].there \/ \A j \in auth.committed : jobs[j].old # r
  PROVE  ServedInv'
<1>1. auth.committed \subseteq Jobs /\ \A j \in Jobs : jobs[j].old \in Roots
  BY DEF ControlInv, ManagementTypes, Authorities, JobRecords
<1>2. \A j \in auth.committed : RestoredFrom(j)' = RestoredFrom(j) /\ jobs'[j].cur = jobs[j].cur /\ jobs'[j].old = jobs[j].old
  BY <1>1, BaseKept, DocumentsKept
<1>3. auth.serving # 0 => RestoredFrom(auth.serving)' = RestoredFrom(auth.serving)
  BY <1>2 DEF ServedInv, FilesInv
<1>4. FilesInv'
  <2>1. \A r \in Roots : contents'[r].mark = Len(contents'[r].rows)
    BY DEF ServedInv, FilesInv
  <2> QED
    BY <1>2, <2>1 DEF ServedInv, FilesInv
<1>5. WrittenForServing'
  BY <1>3 DEF ServedInv, WrittenForServing
<1>6. ReplacedAsConfirmed'
  BY <1>1, <1>2 DEF ServedInv, ReplacedAsConfirmed
<1>7. RestoredWhole'
  BY <1>3 DEF ServedInv, RestoredWhole
<1> QED
  BY <1>4, <1>5, <1>6, <1>7 DEF ServedInv

\* The lengths of what was restored, and that it came from a backup.
LEMMA BaseTypes ==
  ASSUME ControlInv, ServedInv, BackupInv, auth.serving # 0
  PROVE  /\ auth.serving \in Jobs /\ RestoredFrom(auth.serving).rows \in Seq(Sources) /\ RestoredFrom(auth.serving).ann \in Seq(Nat)
         /\ Len(RestoredFrom(auth.serving).rows) \in Nat /\ Len(RestoredFrom(auth.serving).ann) \in Nat
<1>1. auth.serving \in auth.committed /\ auth.serving \in Jobs /\ jobs[auth.serving].from \in Jobs
  BY DEF ControlInv, OutcomeInv, ServedInv, FilesInv, ManagementTypes, Authorities
<1>2. RestoredFrom(auth.serving) \in ContentRecords
  BY <1>1, FieldTypes DEF ControlInv, RestoredFrom
<1> QED
  BY <1>1, <1>2 DEF ContentRecords

\* A producer that registers is registered for what serves, and no other one is
\* touched.
LEMMA ObserveServed ==
  ASSUME ControlInv, ContentInv, NEW s \in Sources, ObserveProducer(s)
  PROVE  ServedInv'
<1>1. /\ auth'.gen = auth.gen /\ auth'.serving = auth.serving /\ auth'.committed = auth.committed
      /\ \A t \in Sources : auth.sources[t] = auth.gen => auth'.sources[t] = auth.gen
  <2>1. auth' = auth \/ auth' = [auth EXCEPT !.sources[s] = auth.gen]
    BY DEF ObserveProducer, WriteAuthority
  <2> QED
    BY <2>1 DEF ControlInv, ManagementTypes, Authorities
<1>2. contents' = contents /\ jobs' = jobs
  BY DEF ObserveProducer
<1>3. auth.serving # 0 => \A i \in 1 .. Len(contents[auth.serving].rows) : contents[auth.serving].rows[i] \in Sources
  BY FieldTypes DEF ControlInv
<1>4. FilesInv'
  BY <1>1, <1>2 DEF ContentInv, ServedInv, FilesInv
<1>5. RestoredFrom(auth.serving)' = RestoredFrom(auth.serving)
  BY <1>1, <1>2 DEF RestoredFrom
<1>6. WrittenForServing'
  <2> SUFFICES ASSUME auth.serving # 0, contents[auth.serving].there
               PROVE  LET base == RestoredFrom(auth.serving) c == contents[auth.serving]
                      IN  /\ \A i \in (Len(base.rows) + 1) .. Len(c.rows) : auth'.sources[c.rows[i]] = auth'.gen
                          /\ \A i \in (Len(base.ann) + 1) .. Len(c.ann) : c.ann[i] = auth'.gen
    BY <1>1, <1>2, <1>5 DEF WrittenForServing
  <2>1. Len(RestoredFrom(auth.serving).rows) \in Nat /\ Len(contents[auth.serving].rows) \in Nat
    BY BaseTypes, FieldTypes DEF ControlInv, ContentInv
  <2> QED
    BY <1>1, <1>3, <2>1 DEF ContentInv, ServedInv, WrittenForServing
<1>7. ReplacedAsConfirmed'
  BY <1>1, <1>2 DEF ContentInv, ServedInv, ReplacedAsConfirmed
<1>8. RestoredWhole'
  BY <1>1, <1>2, <1>5 DEF ContentInv, ServedInv, RestoredWhole
<1> QED
  BY <1>4, <1>6, <1>7, <1>8 DEF ServedInv

\* A step that puts rows or annotations written for it behind what serves.
LEMMA ServedExtended ==
  ASSUME ControlInv, ServedInv, BackupInv, NEW more \in Seq(Sources), NEW notes \in Seq(Nat), auth' = auth, jobs' = jobs,
         contents'[auth.serving].rows = contents[auth.serving].rows \o more,
         contents'[auth.serving].ann = contents[auth.serving].ann \o notes,
         contents'[auth.serving].mark = Len(contents'[auth.serving].rows),
         contents'[auth.serving].there = contents[auth.serving].there,
         \A r \in Roots : r # auth.serving => contents'[r] = contents[r],
         \A i \in 1 .. Len(more) : auth.sources[more[i]] = auth.gen,
         auth.gen # 0 => \A i \in 1 .. Len(notes) : notes[i] = auth.gen
  PROVE  ServedInv'
<1> DEFINE c == contents[auth.serving]
           d == contents'[auth.serving]
           base == RestoredFrom(auth.serving)
<1>1. c.rows \in Seq(Sources) /\ c.ann \in Seq(Nat) /\ auth.committed \subseteq Jobs /\ \A j \in Jobs : jobs[j].old \in Roots
  BY FieldTypes DEF ControlInv, ManagementTypes, JobRecords, ContentRecords
<1>2. Len(d.rows) = Len(c.rows) + Len(more) /\ Len(d.ann) = Len(c.ann) + Len(notes) /\ Len(c.rows) \in Nat /\ Len(c.ann) \in Nat
  BY <1>1
<1>3. base' = base
  BY DEF RestoredFrom
<1>4. FilesInv'
  BY <1>1 DEF ServedInv, FilesInv
<1>5. ReplacedAsConfirmed'
  BY <1>1 DEF ServedInv, FilesInv, ReplacedAsConfirmed
<1>6. RestoredWhole'
  <2> SUFFICES ASSUME auth.serving # 0
               PROVE  d.there /\ IsPrefix(base.rows, d.rows) /\ IsPrefix(base.ann, d.ann) /\ d.mark \in Len(base.rows) .. Len(d.rows)
    BY <1>3 DEF RestoredWhole
  <2>1. c.there /\ IsPrefix(base.rows, c.rows) /\ IsPrefix(base.ann, c.ann)
    BY DEF ServedInv, RestoredWhole
  <2>2. IsPrefix(base.rows, d.rows) /\ IsPrefix(base.ann, d.ann)
    BY <1>1, <2>1, BaseTypes, PrefixOfLonger
  <2>3. Len(base.rows) <= Len(d.rows) /\ Len(base.rows) \in Nat /\ Len(d.rows) \in Nat
    BY <1>2, <2>2, BaseTypes DEF IsPrefix
  <2> QED
    BY <2>1, <2>2, <2>3
<1>7. WrittenForServing'
  <2> SUFFICES ASSUME auth.serving # 0, d.there
               PROVE  /\ \A i \in (Len(base.rows) + 1) .. Len(d.rows) : auth.sources[d.rows[i]] = auth.gen
                      /\ \A i \in (Len(base.ann) + 1) .. Len(d.ann) : d.ann[i] = auth.gen
    BY <1>3 DEF WrittenForServing
  <2>1. /\ \A i \in (Len(base.rows) + 1) .. Len(c.rows) : auth.sources[c.rows[i]] = auth.gen
        /\ \A i \in (Len(base.ann) + 1) .. Len(c.ann) : c.ann[i] = auth.gen
    BY DEF ServedInv, WrittenForServing
  <2>2. Len(base.rows) \in Nat /\ Len(base.ann) \in Nat /\ auth.gen # 0
    BY BaseTypes DEF ServedInv, FilesInv
  <2>3. ASSUME NEW i \in (Len(base.rows) + 1) .. Len(d.rows)
        PROVE  auth.sources[d.rows[i]] = auth.gen
    <3>1. i \in 1 .. Len(c.rows \o more) /\ i \in Int /\ i >= Len(base.rows) + 1
      BY <1>2, <2>2, <2>3
    <3>2. CASE i <= Len(c.rows)
      <4>1. d.rows[i] = c.rows[i]
        BY <1>1, <3>1, <3>2, PartsOfLonger
      <4>2. i \in (Len(base.rows) + 1) .. Len(c.rows)
        BY <1>2, <2>2, <3>1, <3>2
      <4> QED
        BY <2>1, <4>1, <4>2
    <3>3. CASE i > Len(c.rows)
      <4>1. i - Len(c.rows) \in 1 .. Len(more) /\ d.rows[i] = more[i - Len(c.rows)]
        BY <1>1, <3>1, <3>3, PartsOfLonger
      <4> QED
        BY <4>1
    <3> QED
      BY <1>2, <3>1, <3>2, <3>3
  <2>4. ASSUME NEW i \in (Len(base.ann) + 1) .. Len(d.ann)
        PROVE  d.ann[i] = auth.gen
    <3>1. i \in 1 .. Len(c.ann \o notes) /\ i \in Int /\ i >= Len(base.ann) + 1
      BY <1>2, <2>2, <2>4
    <3>2. CASE i <= Len(c.ann)
      <4>1. d.ann[i] = c.ann[i]
        BY <1>1, <3>1, <3>2, PartsOfLonger
      <4>2. i \in (Len(base.ann) + 1) .. Len(c.ann)
        BY <1>2, <2>2, <3>1, <3>2
      <4> QED
        BY <2>1, <4>1, <4>2
    <3>3. CASE i > Len(c.ann)
      <4>1. i - Len(c.ann) \in 1 .. Len(notes) /\ d.ann[i] = notes[i - Len(c.ann)]
        BY <1>1, <3>1, <3>3, PartsOfLonger
      <4> QED
        BY <2>2, <4>1
    <3> QED
      BY <1>2, <3>1, <3>2, <3>3
  <2> QED
    BY <2>3, <2>4
<1> QED
  BY <1>4, <1>5, <1>6, <1>7 DEF ServedInv

\* The publisher writes what was admitted for the serving content, into it.
LEMMA PublishServed ==
  ASSUME ControlInv, ContentInv, Publish
  PROVE  ServedInv'
<1> DEFINE c == contents[col.root]
<1>1. /\ col.up /\ col.publishing # <<>> /\ auth' = auth /\ jobs' = jobs
      /\ contents' = [contents EXCEPT ![col.root].rows = @ \o col.publishing, ![col.root].mark = col.seq + Len(col.publishing)]
  BY DEF Publish
<1>2. /\ contents \in [Roots -> ContentRecords] /\ col.root \in Roots /\ c \in ContentRecords /\ c.rows \in Seq(Sources) /\ c.ann \in Seq(Nat)
      /\ col.publishing \in Seq(Sources) /\ col.seq \in Nat
  BY FieldTypes DEF ControlInv, ManagementTypes
<1>3. wk.pc # "reload"
  BY <1>1 DEF ContentInv, MemoryInv, Switching
<1>4. col.root = auth.serving /\ col.seq = c.mark /\ c.mark = Len(c.rows)
  BY <1>1, <1>2, <1>3, ServingRoot DEF ContentInv, ServedInv, FilesInv
<1>5. /\ contents'[col.root].rows = c.rows \o col.publishing /\ contents'[col.root].mark = col.seq + Len(col.publishing)
      /\ contents'[col.root].ann = c.ann /\ contents'[col.root].there = c.there
      /\ \A r \in Roots : r # col.root => contents'[r] = contents[r]
  BY <1>1, <1>2 DEF ContentRecords
<1>6. c.ann = c.ann \o <<>> /\ Len(c.rows \o col.publishing) = Len(c.rows) + Len(col.publishing) /\ <<>> \in Seq(Nat) /\ Len(<<>>) = 0
  BY <1>2
<1>7. \A i \in 1 .. Len(col.publishing) : auth.sources[col.publishing[i]] = auth.gen
  BY <1>1 DEF ContentInv, FenceInv
<1>8. auth.gen # 0 => \A i \in 1 .. Len(<<>>) : <<>>[i] = auth.gen
  BY <1>6
<1> HIDE DEF c
<1>9. /\ contents'[auth.serving].ann = contents[auth.serving].ann \o <<>>
      /\ contents'[auth.serving].mark = Len(contents'[auth.serving].rows)
      /\ contents'[auth.serving].rows = contents[auth.serving].rows \o col.publishing
      /\ contents'[auth.serving].there = contents[auth.serving].there
      /\ \A r \in Roots : r # auth.serving => contents'[r] = contents[r]
  BY <1>4, <1>5, <1>6 DEF c
<1> QED
  BY <1>1, <1>2, <1>6, <1>7, <1>8, <1>9, ServedExtended DEF ContentInv

\* An annotation is entered for the generation its client had seen.
LEMMA MutateServed ==
  ASSUME ControlInv, ContentInv, Mutate, [ManagementNext]_managementVars
  PROVE  ServedInv'
<1> DEFINE c == contents[col.root]
<1>1. /\ edit.pc = "leased" /\ auth' = auth /\ jobs' = jobs
      /\ contents' = contents \/ contents' = [contents EXCEPT ![col.root].ann = Append(@, edit.gen)]
  BY DEF Mutate
<1>2. /\ contents \in [Roots -> ContentRecords] /\ col.root \in Roots /\ c \in ContentRecords /\ c.rows \in Seq(Sources) /\ c.ann \in Seq(Nat)
      /\ edit.gen \in Nat
  BY FieldTypes DEF ControlInv, ManagementTypes
<1>3. col.root = auth.serving /\ c.mark = Len(c.rows)
  BY <1>1, <1>2, ServingRoot DEF ControlInv, LockInv, ContentInv, ServedInv, FilesInv
<1>4. CASE contents' = contents
  BY <1>1, <1>4, ServedFrame DEF ContentInv
<1>5. CASE contents' = [contents EXCEPT ![col.root].ann = Append(@, edit.gen)]
  <2>1. /\ contents'[col.root].rows = c.rows /\ contents'[col.root].mark = c.mark
        /\ contents'[col.root].ann = Append(c.ann, edit.gen) /\ contents'[col.root].there = c.there
        /\ \A r \in Roots : r # col.root => contents'[r] = contents[r]
    BY <1>2, <1>5 DEF ContentRecords
  <2>2. /\ Append(c.ann, edit.gen) = c.ann \o <<edit.gen>> /\ <<edit.gen>> \in Seq(Nat)
        /\ Len(<<edit.gen>>) = 1 /\ <<edit.gen>>[1] = edit.gen
    BY <1>2
  <2>3. c.rows = c.rows \o <<>> /\ <<>> \in Seq(Sources) /\ Len(<<>>) = 0
    BY <1>2
  <2>4. auth.gen # 0 => \A i \in 1 .. Len(<<edit.gen>>) : <<edit.gen>>[i] = auth.gen
    BY <1>1, <2>2 DEF ContentInv, FenceInv
  <2>5. \A i \in 1 .. Len(<<>>) : auth.sources[<<>>[i]] = auth.gen
    BY <2>3
  <2> HIDE DEF c
  <2>6. /\ contents'[auth.serving].ann = contents[auth.serving].ann \o <<edit.gen>>
        /\ contents'[auth.serving].mark = Len(contents'[auth.serving].rows)
        /\ contents'[auth.serving].rows = contents[auth.serving].rows \o <<>>
        /\ contents'[auth.serving].there = contents[auth.serving].there
        /\ \A r \in Roots : r # auth.serving => contents'[r] = contents[r]
    BY <1>3, <2>1, <2>2, <2>3 DEF c
  <2> QED
    BY <1>1, <2>2, <2>3, <2>4, <2>5, <2>6, ServedExtended DEF ContentInv
<1> QED
  BY <1>1, <1>4, <1>5

\* The switch makes a content serve that is the backup, in place of the one that
\* was confirmed, for a generation nothing was written for yet.
LEMMA SwitchServed ==
  ASSUME ControlInv, ContentInv, wk.pc = "switch", auth' = Switched(wk.job), contents' = contents, jobs' = jobs
  PROVE  ServedInv'
<1>1. /\ wk.job \in Jobs /\ wk.job \notin auth.committed /\ jobs[wk.job].kind = "restore" /\ col.up
      /\ jobs[wk.job].from \in Jobs
  <2>1. wk.pc # "idle" /\ wk.pc \in Preparing /\ wk.pc \in {"gate"} \cup Holding
    BY DEF Preparing, Holding, Switching
  <2>2. wk.job \in Jobs /\ wk.job \notin auth.committed /\ jobs[wk.job].kind = "restore" /\ col.up
    BY <2>1 DEF ControlInv, WorkerInv, IdleManager
  <2> QED
    BY <2>2 DEF ControlInv, OutcomeInv
<1>2. /\ auth'.gen = auth.gen + 1 /\ auth'.serving = wk.job /\ auth'.committed = auth.committed \cup {wk.job}
      /\ auth.gen \in Nat /\ auth.committed \subseteq Jobs /\ wk.job # 0
  BY <1>1, JobNumbers DEF ControlInv, ManagementTypes, Authorities, Switched
<1>3. col.root = auth.serving
  BY <1>1, ServingRoot DEF ContentInv
<1>4. /\ contents[wk.job] = RestoredFrom(wk.job) /\ contents[col.root] = jobs[wk.job].cur /\ jobs[wk.job].old = col.root
  BY DEF ContentInv, RestoreInv
<1>5. /\ contents[wk.job] \in ContentRecords /\ contents[wk.job].mark = Len(contents[wk.job].rows)
      /\ contents[wk.job].rows \in Seq(Sources) /\ contents[wk.job].ann \in Seq(Nat)
  BY <1>1, JobNumbers, FieldTypes DEF ControlInv, ContentInv, ServedInv, FilesInv
<1>6. contents[wk.job].there
  <2>1. jobs[jobs[wk.job].from].kind = "backup" /\ jobs[jobs[wk.job].from].state = "succeeded"
    BY <1>1 DEF ContentInv, BackupInv
  <2>2. jobs[jobs[wk.job].from].copy.there
    BY <1>1, <2>1 DEF ContentInv, BackupInv
  <2> QED
    BY <1>4, <2>2 DEF RestoredFrom
<1>8. \A j \in auth.committed : jobs[j].old \in {0} \cup auth.committed
  BY DEF ContentInv, ServedInv, FilesInv
<1>9. FilesInv'
  <2>1. auth'.serving # 0 /\ auth'.gen # 0
    BY <1>2
  <2>2. \A j \in auth'.committed : jobs[j].old \in {0} \cup auth'.committed /\ jobs[j].old # wk.job
    BY <1>1, <1>2, <1>3, <1>4, <1>8 DEF ContentInv, ServedInv, FilesInv
  <2> QED
    BY <1>2, <1>6, <2>1, <2>2 DEF ContentInv, ServedInv, FilesInv
<1>10. WrittenForServing'
  <2>1. Len(contents[wk.job].rows) \in Nat /\ Len(contents[wk.job].ann) \in Nat
    BY <1>5
  <2>2. /\ (Len(contents[wk.job].rows) + 1) .. Len(contents[wk.job].rows) = {}
        /\ (Len(contents[wk.job].ann) + 1) .. Len(contents[wk.job].ann) = {}
    BY <2>1
  <2>3. /\ RestoredFrom(auth.serving)' = contents[wk.job] /\ contents'[auth'.serving] = contents[wk.job]
    BY <1>2, <1>4 DEF RestoredFrom
  <2> QED
    BY <2>2, <2>3 DEF WrittenForServing
<1>11. ReplacedAsConfirmed'
  BY <1>2, <1>4 DEF ContentInv, ServedInv, ReplacedAsConfirmed
<1>12. RestoredWhole'
  <2>1. IsPrefix(contents[wk.job].rows, contents[wk.job].rows) /\ IsPrefix(contents[wk.job].ann, contents[wk.job].ann)
    BY <1>5, PrefixOfItself
  <2>2. contents[wk.job].mark \in Len(contents[wk.job].rows) .. Len(contents[wk.job].rows)
    BY <1>5
  <2>3. /\ RestoredFrom(auth.serving)' = contents[wk.job] /\ contents'[auth'.serving] = contents[wk.job]
    BY <1>2, <1>4 DEF RestoredFrom
  <2> QED
    BY <1>6, <2>1, <2>2, <2>3 DEF RestoredWhole
<1> QED
  BY <1>9, <1>10, <1>11, <1>12 DEF ServedInv

\* Every step keeps what serves.
LEMMA ServedStep ==
  ASSUME ControlInv, ContentInv, [ManagementNext]_managementVars
  PROVE  ServedInv'
<1>1. /\ contents \in [Roots -> ContentRecords] /\ auth.committed \subseteq Jobs /\ jobs \in [Jobs -> JobRecords]
      /\ auth.serving \in Roots /\ ServedInv /\ BackupInv
      /\ \A r \in Roots : contents[r] \in ContentRecords /\ contents[r].mark = Len(contents[r].rows)
  BY FieldTypes DEF ControlInv, ManagementTypes, Authorities, ContentInv, ServedInv, FilesInv
<1>2. CASE auth' = auth /\ contents' = contents
  BY <1>1, <1>2, ServedFrame
<1>3. CASE CopyFiles
  <2>1. /\ wk.job \in Jobs /\ wk.job \notin auth.committed /\ wk.job # 0 /\ auth' = auth
        /\ jobs[wk.job].kind \in {"backup", "restore"} /\ wk.job \in Roots
    BY <1>1, <1>3, JobNumbers DEF CopyFiles, Worker, ControlInv, WorkerInv, Preparing, JobRecords
  <2>2. CASE contents' = contents
    BY <1>2, <2>1, <2>2
  <2>3. CASE contents' = [contents EXCEPT ![wk.job] = jobs[Job.from].copy] /\ jobs[wk.job].kind = "restore"
    <3>1. wk.job # auth.serving /\ \A j \in auth.committed : jobs[j].old # wk.job
      BY <2>1 DEF ContentInv, ServedInv, FilesInv
    <3>2. jobs[Job.from].copy.mark = Len(jobs[Job.from].copy.rows)
      BY <2>1, <2>3 DEF Job, ControlInv, OutcomeInv, ContentInv, BackupInv
    <3>3. /\ contents'[wk.job] = jobs[Job.from].copy
          /\ \A r \in Roots : r # wk.job => contents'[r] = contents[r]
      BY <1>1, <2>1, <2>3
    <3> QED
      BY <1>1, <2>1, <3>1, <3>2, <3>3, ServedElsewhere
  <2> QED
    BY <1>3, <2>1, <2>2, <2>3 DEF CopyFiles, Job
<1>4. CASE SwitchAuthority
  <2>1. wk.pc = "switch" /\ contents' = contents
    BY <1>4 DEF SwitchAuthority, Worker
  <2>2. CASE auth' = auth
    BY <1>2, <2>1, <2>2
  <2>3. CASE auth' # auth
    <3>1. auth' = Switched(wk.job) /\ (jobs' = jobs \/ Fail([col EXCEPT !.failed = TRUE], "failed"))
      BY <1>4, <2>3 DEF SwitchAuthority
    <3>2. jobs' = jobs
      <4>1. [col EXCEPT !.failed = TRUE].failed
        BY DEF ControlInv, ManagementTypes, Memories
      <4> QED
        BY <3>1, <4>1 DEF Fail
    <3> QED
      BY <2>1, <3>1, <3>2, SwitchServed
  <2> QED
    BY <2>2, <2>3
<1>5. CASE Cleanup
  <2>1. /\ wk.job \in Jobs /\ wk.job \in auth.committed /\ auth' = auth /\ jobs[wk.job].old \in Roots
    BY <1>1, <1>5 DEF Cleanup, Worker, ControlInv, WorkerInv, Installing, JobRecords
  <2>2. contents' = contents \/ contents' = Cleaned(wk.job)
    BY <1>5 DEF Cleanup
  <2>3. CASE contents' = Cleaned(wk.job)
    <3>1. jobs[wk.job].old # auth.serving
      BY <2>1 DEF ContentInv, ServedInv, FilesInv
    <3>2. /\ \A r \in Roots : r # jobs[wk.job].old => contents'[r] = contents[r]
          /\ contents'[jobs[wk.job].old] \in {NoContent, contents[jobs[wk.job].old]}
      BY <1>1, <2>1, <2>3 DEF Cleaned, DiscardRoot
    <3>3. ~NoContent.there /\ NoContent.mark = Len(NoContent.rows)
      BY DEF NoContent
    <3> QED
      BY <1>1, <2>1, <3>1, <3>2, <3>3, ServedElsewhere
  <2> QED
    BY <1>2, <2>1, <2>2, <2>3
<1>6. CASE Restart
  <2> DEFINE due == {j \in auth.committed : ~jobs[j].keep /\ jobs[j].old # auth.serving}
  <2>1. contents' = [r \in Roots |-> IF r = auth.serving THEN Reconciled(contents[r])
                          ELSE IF \E j \in due : jobs[j].old = r /\ contents[r].rows = jobs[j].cur.rows /\ contents[r].ann = jobs[j].cur.ann
                          THEN NoContent ELSE contents[r]]
    BY <1>6 DEF Restart
  <2>2. Reconciled(contents[auth.serving]) = contents[auth.serving]
    BY <1>1, ReconciledSame
  <2>3. /\ contents'[auth.serving] = contents[auth.serving]
        /\ \A r \in Roots : contents'[r] = contents[r] \/ contents'[r] = NoContent
    BY <1>1, <2>1, <2>2
  <2>4. ~NoContent.there /\ NoContent.mark = Len(NoContent.rows)
    BY DEF NoContent
  <2>5. auth' = auth
    BY <1>6 DEF Restart
  <2> QED
    BY <1>1, <2>3, <2>4, <2>5, ServedElsewhere
<1>7. CASE CheckpointWrite \/ Reload \/ FinishRestore
  BY <1>2, <1>7, ContentKept DEF CheckpointWrite, Reload, FinishRestore
<1>8. CASE Publish \/ Mutate \/ \E s \in Sources : ObserveProducer(s)
  BY <1>8, PublishServed, MutateServed, ObserveServed
<1> QED
  <2>1. \/ auth' = auth /\ contents' = contents
        \/ CopyFiles \/ SwitchAuthority \/ Cleanup \/ Restart \/ CheckpointWrite \/ Reload \/ FinishRestore
        \/ Publish \/ Mutate \/ \E s \in Sources : ObserveProducer(s)
    BY DEF ManagementNext, managementVars, AdmitRow, TakeRow, CheckpointRead, ReadLabels, BeginEdit, Preview, RequestJob, Cancel,
           CommitBackup, AcquireGate, Compare, BeginTransition, CrashCollector
  <2> QED
    BY <1>2, <1>3, <1>4, <1>5, <1>6, <1>7, <1>8, <2>1

\* The generation that serves changes only at the switch, and the registrations
\* for it never.
LEMMA AuthorityStep ==
  ASSUME ControlInv, [ManagementNext]_managementVars, ~SwitchAuthority
  PROVE  /\ auth'.gen = auth.gen /\ auth'.serving = auth.serving /\ auth'.committed = auth.committed
         /\ \A s \in Sources : auth.sources[s] = auth.gen => auth'.sources[s] = auth.gen
<1>1. CASE auth' = auth
  BY <1>1
<1>2. ASSUME NEW s \in Sources, ObserveProducer(s)
      PROVE  /\ auth'.gen = auth.gen /\ auth'.serving = auth.serving /\ auth'.committed = auth.committed
             /\ \A t \in Sources : auth.sources[t] = auth.gen => auth'.sources[t] = auth.gen
  <2>1. auth' = auth \/ auth' = [auth EXCEPT !.sources[s] = auth.gen]
    BY <1>2 DEF ObserveProducer, WriteAuthority
  <2> QED
    BY <2>1 DEF ControlInv, ManagementTypes, Authorities
<1>3. auth' = auth \/ \E s \in Sources : ObserveProducer(s)
  BY DEF ManagementNext, managementVars, AdmitRow, TakeRow, Publish, CheckpointRead, CheckpointWrite, ReadLabels, BeginEdit, Mutate,
         Preview, RequestJob, Cancel, CopyFiles, CommitBackup, AcquireGate, Compare, BeginTransition, Reload, FinishRestore, Cleanup,
         CrashCollector, Restart
<1> QED
  BY <1>1, <1>2, <1>3

\* Waiting rows and leased edits stay those of the serving content.
LEMMA FenceFrame ==
  ASSUME ControlInv, FenceInv, [ManagementNext]_managementVars, ~SwitchAuthority,
         col'.up => col.up /\ col'.queue \in {col.queue, <<>>} /\ col'.publishing \in {col.publishing, col.queue, <<>>},
         edit'.pc = "leased" => edit.pc = "leased" /\ edit'.gen = edit.gen
  PROVE  FenceInv'
<1>1. col \in Memories
  BY DEF ControlInv, ManagementTypes
<1>2. col.queue \in Seq(Sources) /\ col.publishing \in Seq(Sources)
  BY <1>1 DEF Memories
<1>3. Len(<<>>) = 0
  OBVIOUS
<1>4. /\ auth'.gen = auth.gen
      /\ \A s \in Sources : auth.sources[s] = auth.gen => auth'.sources[s] = auth.gen
  BY AuthorityStep
<1>5. ASSUME col'.up, NEW i \in 1 .. Len(col'.queue)
      PROVE  auth'.sources[col'.queue[i]] = auth'.gen
  <2>1. col'.queue = col.queue
    BY <1>3, <1>5
  <2> QED
    BY <1>2, <1>4, <1>5, <2>1 DEF FenceInv
<1>6. ASSUME col'.up, NEW i \in 1 .. Len(col'.publishing)
      PROVE  auth'.sources[col'.publishing[i]] = auth'.gen
  <2>1. col'.publishing = col.queue \/ col'.publishing = col.publishing
    BY <1>3, <1>6
  <2> QED
    BY <1>2, <1>4, <1>6, <2>1 DEF FenceInv
<1> QED
  BY <1>4, <1>5, <1>6 DEF FenceInv

\* What memory knows while the collector runs.
RunningInv == MemoryInv /\ RestoreInv /\ FenceInv

\* A step of the producers, the publisher or the clients that leaves the thread,
\* its documents and the contents alone.
LEMMA RunningFrame ==
  ASSUME ControlInv, ContentInv, [ManagementNext]_managementVars, ~SwitchAuthority,
         contents' = contents, jobs' = jobs, wk' = wk,
         col'.up = col.up, col'.root = col.root, col'.seq = col.seq, col'.unavailable = col.unavailable,
         col'.queue = col.queue, col'.publishing = col.publishing, stateBytes' = stateBytes,
         edit'.pc = "leased" => edit.pc = "leased" /\ edit'.gen = edit.gen
  PROVE  RunningInv'
<1>1. auth'.gen = auth.gen /\ auth'.serving = auth.serving /\ auth'.committed = auth.committed
  BY AuthorityStep
<1>2. MemoryInv'
  BY <1>1 DEF ContentInv, MemoryInv, Halted
<1>3. RestoreInv'
  BY DEF ContentInv, RestoreInv, RestoredFrom
<1>4. FenceInv'
  BY FenceFrame DEF ContentInv
<1> QED
  BY <1>2, <1>3, <1>4 DEF RunningInv

\* Producers, publisher, checkpoints and annotations: what they write is for the
\* serving content, and stays out of the way of a switch.
LEMMA ServingRunning ==
  ASSUME NoOverlap, ControlInv, ContentInv, [ManagementNext]_managementVars,
         \/ \E s \in Sources : ObserveProducer(s) \/ AdmitRow(s)
         \/ TakeRow \/ Publish \/ CheckpointRead \/ CheckpointWrite
         \/ ReadLabels \/ BeginEdit \/ Mutate
  PROVE  RunningInv'
<1>1. /\ col \in Memories /\ auth.committed \subseteq Jobs
      /\ contents \in [Roots -> ContentRecords] /\ col.root \in Roots /\ contents[col.root] \in ContentRecords
      /\ col.queue \in Seq(Sources) /\ col.publishing \in Seq(Sources) /\ col.seq \in Nat
      /\ contents[col.root].rows \in Seq(Sources) /\ contents[col.root].ann \in Seq(Nat)
  BY FieldTypes DEF ControlInv, ManagementTypes, Authorities
<1>2. /\ wk.pc # "switch" => ~SwitchAuthority
      /\ MemoryInv /\ RestoreInv /\ FenceInv
  BY DEF SwitchAuthority, Worker, ContentInv
\* The thread prepares another content than the one that serves.
<1>3. wk.pc \in {"gate", "compare", "flag", "switch"} => wk.job # auth.serving
  <2>1. wk.pc \in {"gate", "compare", "flag", "switch"} => wk.job \in Jobs /\ wk.job \notin auth.committed
    BY DEF ControlInv, WorkerInv, Preparing
  <2> QED
    BY <2>1, JobNumbers DEF ContentInv, ServedInv, FilesInv
<1>4. ASSUME NEW s \in Sources, ObserveProducer(s)
      PROVE  RunningInv'
  <2>1. col' = col \/ col' = [col EXCEPT !.failed = TRUE]
    BY <1>4 DEF ObserveProducer, WriteAuthority
  <2>2. /\ col'.up = col.up /\ col'.root = col.root /\ col'.seq = col.seq /\ col'.unavailable = col.unavailable
        /\ col'.queue = col.queue /\ col'.publishing = col.publishing
    BY <1>1, <2>1 DEF Memories
  <2>3. /\ contents' = contents /\ jobs' = jobs /\ wk' = wk /\ stateBytes' = stateBytes /\ edit' = edit
        /\ auth'.gen = auth.gen /\ auth'.serving = auth.serving /\ auth'.committed = auth.committed
        /\ \A t \in Sources : auth.sources[t] = auth.gen => auth'.sources[t] = auth.gen
    <3>1. auth' = auth \/ auth' = [auth EXCEPT !.sources[s] = auth.gen]
      BY <1>4 DEF ObserveProducer, WriteAuthority
    <3> QED
      BY <1>4, <3>1 DEF ObserveProducer, ControlInv, ManagementTypes, Authorities
  <2>4. MemoryInv'
    BY <1>2, <2>2, <2>3 DEF MemoryInv, Halted
  <2>5. RestoreInv'
    BY <1>2, <2>2, <2>3 DEF RestoreInv, RestoredFrom
  <2>6. FenceInv'
    <3>1. /\ \A i \in 1 .. Len(col.queue) : col.queue[i] \in Sources
          /\ \A i \in 1 .. Len(col.publishing) : col.publishing[i] \in Sources
      BY <1>1
    <3>2. col.up => /\ \A i \in 1 .. Len(col.queue) : auth'.sources[col.queue[i]] = auth.gen
                    /\ \A i \in 1 .. Len(col.publishing) : auth'.sources[col.publishing[i]] = auth.gen
      BY <1>2, <2>3, <3>1 DEF FenceInv
    <3>3. edit'.pc = "leased" /\ auth'.gen # 0 => edit'.gen = auth'.gen
      BY <1>2, <2>3 DEF FenceInv
    <3> QED
      BY <2>2, <2>3, <3>2, <3>3 DEF FenceInv
  <2> QED
    BY <2>4, <2>5, <2>6 DEF RunningInv
<1>5. ASSUME NEW s \in Sources, AdmitRow(s)
      PROVE  RunningInv'
  <2>1. /\ col.up /\ ~col.unavailable /\ ~col.transition /\ auth.sources[s] = auth.gen
        /\ col' = [col EXCEPT !.queue = Append(@, s)]
        /\ contents' = contents /\ jobs' = jobs /\ wk' = wk /\ stateBytes' = stateBytes /\ edit' = edit /\ auth' = auth
    BY <1>5 DEF AdmitRow, Serves, Allowed
  <2>2. /\ col'.up = col.up /\ col'.root = col.root /\ col'.seq = col.seq /\ col'.unavailable = col.unavailable
        /\ col'.queue = Append(col.queue, s) /\ col'.publishing = col.publishing
    BY <1>1, <2>1 DEF Memories
  <2>3. col.root = auth.serving /\ (wk.pc # "reload" => col.seq = contents[col.root].mark) /\ wk.pc \notin Switching
    BY <1>2, <2>1, ServingRoot DEF ControlInv, LockInv
  <2>4. MemoryInv'
    BY <1>2, <2>1, <2>2, <2>3 DEF MemoryInv, Halted
  <2>5. RestoreInv'
    BY <1>2, <2>1, <2>2 DEF RestoreInv, RestoredFrom
  <2>6. FenceInv'
    <3>1. \A i \in 1 .. Len(Append(col.queue, s)) : auth.sources[Append(col.queue, s)[i]] = auth.gen
      <4> TAKE i \in 1 .. Len(Append(col.queue, s))
      <4>1. CASE i = Len(col.queue) + 1
        BY <1>1, <2>1, <4>1
      <4>2. CASE i # Len(col.queue) + 1
        <5>1. i \in 1 .. Len(col.queue) /\ Append(col.queue, s)[i] = col.queue[i]
          BY <1>1, <4>2
        <5> QED
          BY <1>2, <2>1, <5>1 DEF FenceInv
      <4> QED
        BY <4>1, <4>2
    <3> QED
      BY <1>2, <2>1, <2>2, <3>1 DEF FenceInv
  <2> QED
    BY <2>4, <2>5, <2>6 DEF RunningInv
<1>6. CASE TakeRow
  <2>1. /\ col.up /\ col.queue # <<>> /\ stateBytes = -1
        /\ col' = [col EXCEPT !.publishing = col.queue, !.queue = <<>>]
        /\ contents' = contents /\ jobs' = jobs /\ wk' = wk /\ stateBytes' = stateBytes /\ edit' = edit /\ auth' = auth
    BY <1>6 DEF TakeRow
  <2>2. /\ col'.up = col.up /\ col'.root = col.root /\ col'.seq = col.seq /\ col'.unavailable = col.unavailable
        /\ col'.queue = <<>> /\ col'.publishing = col.queue
    BY <1>1, <2>1 DEF Memories
  <2>3. col.root = auth.serving /\ (wk.pc # "reload" => col.seq = contents[col.root].mark) /\ wk.pc \notin Switching
    BY <1>2, <2>1, ServingRoot DEF MemoryInv
  <2>4. MemoryInv'
    BY <1>2, <2>1, <2>2, <2>3 DEF MemoryInv
  <2>5. RestoreInv'
    BY <1>2, <2>1, <2>2 DEF RestoreInv, RestoredFrom
  <2>6. FenceInv'
    BY <1>2, <2>1, <2>2 DEF FenceInv
  <2> QED
    BY <2>4, <2>5, <2>6 DEF RunningInv
<1>7. CASE Publish
  <2>1. /\ col.up /\ col.publishing # <<>> /\ ~col.mutex
        /\ contents' = [contents EXCEPT ![col.root].rows = @ \o col.publishing, ![col.root].mark = col.seq + Len(col.publishing)]
        /\ col' = [col EXCEPT !.publishing = <<>>, !.seq = @ + Len(col.publishing)]
        /\ jobs' = jobs /\ wk' = wk /\ stateBytes' = stateBytes /\ edit' = edit /\ auth' = auth
    BY <1>7 DEF Publish
  <2>2. /\ col'.up = col.up /\ col'.root = col.root /\ col'.seq = col.seq + Len(col.publishing)
        /\ col'.unavailable = col.unavailable /\ col'.queue = col.queue /\ col'.publishing = <<>>
    BY <1>1, <2>1 DEF Memories
  <2>3. wk.pc \notin Holding /\ stateBytes = -1 /\ wk.pc \notin {"reload", "compare", "flag", "switch"}
    BY <1>2, <2>1 DEF ControlInv, LockInv, MemoryInv, Holding, Switching
  <2>4. col.root = auth.serving
    BY <1>2, <2>1, ServingRoot
  <2>5. contents'[col.root].mark = col.seq + Len(col.publishing) /\ \A r \in Roots : r # col.root => contents'[r] = contents[r]
    BY <1>1, <2>1 DEF ContentRecords
  <2>6. MemoryInv'
    BY <1>2, <2>1, <2>2, <2>3, <2>4, <2>5 DEF MemoryInv
  <2>7. RestoreInv'
    <3>1. wk.pc = "gate" => contents'[wk.job] = contents[wk.job]
      BY <1>3, <2>4, <2>5, JobNumbers DEF ControlInv, WorkerInv
    <3> QED
      BY <1>2, <2>1, <2>3, <3>1 DEF RestoreInv, RestoredFrom
  <2>8. FenceInv'
    BY <1>2, <2>1, <2>2 DEF FenceInv
  <2> QED
    BY <2>6, <2>7, <2>8 DEF RunningInv
<1>8. CASE CheckpointRead
  <2>1. /\ col.up /\ ~col.unavailable /\ ~col.writer /\ col.publishing = <<>> /\ stateBytes' = col.seq
        /\ contents' = contents /\ jobs' = jobs /\ wk' = wk /\ col' = col /\ edit' = edit /\ auth' = auth
    BY <1>8 DEF CheckpointRead, Serves, NoOverlap
  <2>2. col.root = auth.serving /\ (wk.pc # "reload" => col.seq = contents[col.root].mark) /\ wk.pc \notin Holding
    BY <1>2, <2>1, ServingRoot DEF ControlInv, LockInv
  <2>3. MemoryInv'
    BY <1>2, <2>1, <2>2 DEF MemoryInv
  <2>4. RestoreInv' /\ FenceInv'
    BY <1>2, <2>1 DEF RestoreInv, RestoredFrom, FenceInv
  <2> QED
    BY <2>3, <2>4 DEF RunningInv
<1>9. CASE CheckpointWrite
  <2>1. /\ col.up /\ stateBytes # -1 /\ stateBytes' = -1
        /\ contents' = contents /\ jobs' = jobs /\ wk' = wk /\ col' = col /\ edit' = edit /\ auth' = auth
    BY <1>9, ContentKept DEF CheckpointWrite
  <2>2. col.root = auth.serving /\ (wk.pc # "reload" => col.seq = contents[col.root].mark)
    BY <1>2, <2>1, ServingRoot
  <2>3. MemoryInv'
    BY <1>2, <2>1, <2>2 DEF MemoryInv
  <2>4. RestoreInv' /\ FenceInv'
    BY <1>2, <2>1 DEF RestoreInv, RestoredFrom, FenceInv
  <2> QED
    BY <2>3, <2>4 DEF RunningInv
<1>10. CASE ReadLabels
  <2>1. /\ contents' = contents /\ jobs' = jobs /\ wk' = wk /\ col' = col /\ stateBytes' = stateBytes /\ auth' = auth
        /\ edit'.pc = "composed"
    BY <1>10 DEF ReadLabels
  <2>2. MemoryInv'
    BY <1>2, <2>1 DEF MemoryInv, Halted
  <2>3. RestoreInv' /\ FenceInv'
    BY <1>2, <2>1 DEF RestoreInv, RestoredFrom, FenceInv
  <2> QED
    BY <2>2, <2>3 DEF RunningInv
<1>11. CASE BeginEdit
  <2>1. /\ contents' = contents /\ jobs' = jobs /\ wk' = wk /\ stateBytes' = stateBytes /\ auth' = auth /\ col.up /\ ~col.unavailable
    BY <1>11 DEF BeginEdit, Serves
  <2>2. \/ NamesServing(edit) /\ edit' = [edit EXCEPT !.pc = "leased"] /\ col' = [col EXCEPT !.readers = @ + 1]
        \/ edit' = NoEdit /\ col' = col
    BY <1>11 DEF BeginEdit
  <2>3. /\ col'.up = col.up /\ col'.root = col.root /\ col'.seq = col.seq /\ col'.unavailable = col.unavailable
        /\ col'.queue = col.queue /\ col'.publishing = col.publishing
    BY <1>1, <2>2 DEF Memories
  <2>4. edit'.pc = "leased" => edit'.gen = edit.gen /\ NamesServing(edit)
    BY <2>2 DEF ControlInv, ManagementTypes, NoEdit
  <2>5. col.root = auth.serving /\ (wk.pc # "reload" => col.seq = contents[col.root].mark)
    BY <1>2, <2>1, ServingRoot
  <2>6. MemoryInv'
    BY <1>2, <2>1, <2>3, <2>5 DEF MemoryInv
  <2>7. RestoreInv'
    BY <1>2, <2>1, <2>3 DEF RestoreInv, RestoredFrom
  <2>8. FenceInv'
    BY <1>2, <2>1, <2>3, <2>4 DEF FenceInv, NamesServing
  <2> QED
    BY <2>6, <2>7, <2>8 DEF RunningInv
<1>12. CASE Mutate
  <2>1. /\ edit.pc = "leased" /\ jobs' = jobs /\ wk' = wk /\ stateBytes' = stateBytes /\ auth' = auth /\ edit' = NoEdit
        /\ contents' = contents \/ contents' = [contents EXCEPT ![col.root].ann = Append(@, edit.gen)]
        /\ col' = [col EXCEPT !.readers = @ - 1] \/ col' = [col EXCEPT !.readers = @ - 1, !.poisoned = TRUE]
    BY <1>12 DEF Mutate
  <2>2. /\ col'.up = col.up /\ col'.root = col.root /\ col'.seq = col.seq /\ col'.unavailable = col.unavailable
        /\ col'.queue = col.queue /\ col'.publishing = col.publishing
    BY <1>1, <2>1 DEF Memories
  <2>3. col.up /\ wk.pc \notin Holding /\ wk.pc \notin {"reload", "compare", "flag", "switch"}
    BY <2>1 DEF ControlInv, LockInv, Holding, Switching
  <2>4. col.root = auth.serving /\ col.seq = contents[col.root].mark
    BY <1>2, <2>1, <2>3, ServingRoot
  <2>5. contents'[col.root].mark = contents[col.root].mark /\ \A r \in Roots : r # col.root => contents'[r] = contents[r]
    BY <1>1, <2>1 DEF ContentRecords
  <2>6. edit'.pc # "leased"
    BY <2>1 DEF NoEdit
  <2>7. MemoryInv'
    BY <1>2, <2>1, <2>2, <2>3, <2>4, <2>5 DEF MemoryInv
  <2>8. RestoreInv'
    <3>1. wk.pc = "gate" => contents'[wk.job] = contents[wk.job]
      BY <1>3, <2>4, <2>5, JobNumbers DEF ControlInv, WorkerInv
    <3> QED
      BY <1>2, <2>1, <2>3, <3>1 DEF RestoreInv, RestoredFrom
  <2>9. FenceInv'
    BY <1>2, <2>1, <2>2, <2>6 DEF FenceInv
  <2> QED
    BY <2>7, <2>8, <2>9 DEF RunningInv
<1> QED
  BY <1>4, <1>5, <1>6, <1>7, <1>8, <1>9, <1>10, <1>11, <1>12


\* Requests are made while no thread runs, and reserve a document that nothing
\* refers to; a cancellation only tells the thread.
LEMMA ClientRunning ==
  ASSUME ControlInv, ContentInv, [ManagementNext]_managementVars,
         \/ Preview \/ \E keep \in BOOLEAN : RequestJob(keep)
         \/ \E j \in Jobs : Cancel(j)
  PROVE  RunningInv'
<1>1. col \in Memories /\ jobs \in [Jobs -> JobRecords] /\ auth.committed \subseteq Jobs
  BY DEF ControlInv, ManagementTypes, Authorities
<1>2. MemoryInv /\ RestoreInv /\ FenceInv
  BY DEF ContentInv
<1>3. CASE Preview
  <2>1. /\ contents' = contents /\ jobs' = jobs /\ wk' = wk /\ col' = col /\ stateBytes' = stateBytes /\ edit' = edit /\ auth' = auth
    BY <1>3 DEF Preview
  <2>2. MemoryInv'
    BY <1>2, <2>1 DEF MemoryInv, Halted
  <2>3. RestoreInv' /\ FenceInv'
    BY <1>2, <2>1 DEF RestoreInv, RestoredFrom, FenceInv
  <2> QED
    BY <2>2, <2>3 DEF RunningInv
<1>4. ASSUME NEW keep \in BOOLEAN, RequestJob(keep)
      PROVE  RunningInv'
  <2>1. PICK j \in Jobs : col' = [col EXCEPT !.active = j, !.cancel = FALSE] /\ wk' = [pc |-> "run", job |-> j]
    BY <1>4, RequestedJob DEF FreeJobs
  <2>2. /\ contents' = contents /\ stateBytes' = stateBytes /\ edit' = edit /\ auth' = auth
        /\ col.up /\ ~col.unavailable /\ col.active = 0
    BY <1>4 DEF RequestJob, Callable, Serves
  <2>3. /\ col'.up = col.up /\ col'.root = col.root /\ col'.seq = col.seq /\ col'.unavailable = col.unavailable
        /\ col'.queue = col.queue /\ col'.publishing = col.publishing
    BY <1>1, <2>1 DEF Memories
  <2>4. wk'.pc = "run" /\ wk.pc = "idle"
    BY <2>1, <2>2, JobNumbers DEF ControlInv, WorkerInv
  <2>5. col.root = auth.serving /\ col.seq = contents[col.root].mark
    BY <1>2, <2>2, <2>4, ServingRoot
  <2>6. MemoryInv'
    BY <1>2, <2>2, <2>3, <2>4, <2>5 DEF MemoryInv, Holding, Switching, Installing
  <2>7. RestoreInv'
    BY <2>4 DEF RestoreInv
  <2>8. FenceInv'
    BY <1>2, <2>2, <2>3 DEF FenceInv
  <2> QED
    BY <2>6, <2>7, <2>8 DEF RunningInv
<1>5. ASSUME NEW j \in Jobs, Cancel(j)
      PROVE  RunningInv'
  <2>1. /\ contents' = contents /\ wk' = wk /\ stateBytes' = stateBytes /\ edit' = edit /\ auth' = auth
        /\ col.up /\ jobs[j] # NoJob
        /\ \/ col' = [col EXCEPT !.cancel = TRUE] /\ jobs' = jobs
           \/ jobs' = [jobs EXCEPT ![j].state = "cancelled"] /\ col' = col
    BY <1>5 DEF Cancel, CancelJob, Callable, Serves, Reserved
  <2>2. /\ col'.up = col.up /\ col'.root = col.root /\ col'.seq = col.seq /\ col'.unavailable = col.unavailable
        /\ col'.queue = col.queue /\ col'.publishing = col.publishing
    BY <1>1, <2>1 DEF Memories
  <2>3. \A k \in Jobs : jobs'[k].from = jobs[k].from /\ jobs'[k].copy = jobs[k].copy /\ jobs'[k].cur = jobs[k].cur /\ jobs'[k].old = jobs[k].old
    <3>1. CASE jobs' = jobs
      BY <3>1
    <3>2. CASE jobs' = [jobs EXCEPT ![j].state = "cancelled"]
      BY <1>1, <3>2, StateOfJob
    <3> QED
      BY <2>1, <3>1, <3>2
  <2>4. MemoryInv'
    BY <1>2, <2>1, <2>2 DEF MemoryInv, Halted
  <2>5. RestoreInv'
    <3>1. wk.pc \in {"gate", "compare", "flag", "switch"} => wk.job \in Jobs /\ jobs[wk.job].from \in Jobs
      BY DEF ControlInv, WorkerInv, OutcomeInv, Holding, Switching
    <3> QED
      BY <1>2, <2>1, <2>2, <2>3, <3>1 DEF RestoreInv, RestoredFrom
  <2>6. FenceInv'
    BY <1>2, <2>1, <2>2 DEF FenceInv
  <2> QED
    BY <2>4, <2>5, <2>6 DEF RunningInv
<1> QED
  BY <1>3, <1>4, <1>5

\* The locks and the thread after an error: idle, and the collector unavailable if
\* the restore is or may be committed.
LEMMA FailRunning ==
  ASSUME ControlInv, ContentInv, [ManagementNext]_managementVars, NEW m \in Memories,
         m = col \/ (wk.pc = "switch" /\ m = [col EXCEPT !.failed = TRUE]),
         col.up, wk.pc # "idle", NEW state, Fail(m, state),
         auth' = auth \/ (wk.pc = "switch" /\ m.failed /\ auth' = Switched(wk.job)),
         contents' = contents, edit' = edit, stateBytes' = stateBytes
  PROVE  RunningInv'
<1>1. /\ col \in Memories /\ wk.job \in Jobs /\ ~col.unavailable /\ auth \in Authorities
  BY DEF ControlInv, ManagementTypes, WorkerInv
<1>2. MemoryInv /\ RestoreInv /\ FenceInv
  BY DEF ContentInv
<1>3. /\ m.up = col.up /\ m.root = col.root /\ m.seq = col.seq /\ m.queue = col.queue /\ m.publishing = col.publishing
      /\ m.unavailable = col.unavailable /\ (wk.pc # "switch" => m = col)
  BY <1>1 DEF Memories
<1>4. /\ col'.up = col.up /\ col'.root = col.root /\ col'.seq = col.seq /\ col'.queue = col.queue /\ col'.publishing = col.publishing
      /\ wk' = IdleManager
      /\ \/ col'.unavailable = (col.unavailable \/ (jobs[wk.job].kind = "restore" /\ (m.failed \/ wk.job \in auth'.committed)))
         \/ wk.job \notin auth'.committed /\ ~m.failed
  BY <1>1, <1>3, FailedPart DEF Job
<1>5. wk'.pc = "idle"
  BY <1>4 DEF IdleManager
<1>6. col.root = auth.serving /\ (wk.pc # "reload" => col.seq = contents[col.root].mark)
  BY <1>2, ServingRoot
<1>7. wk.pc \in Holding => /\ col.writer /\ edit.pc # "leased" /\ stateBytes = -1 /\ jobs[wk.job].kind = "restore"
  BY <1>2 DEF ControlInv, LockInv, WorkerInv, MemoryInv
\* The restore is, or may be, committed: the collector is unavailable.
<1>8. wk.pc = "reload" \/ auth' # auth => Halted'
  <2> SUFFICES ASSUME wk.pc = "reload" \/ auth' # auth PROVE Halted'
    OBVIOUS
  <2>1. wk.pc \in {"reload", "switch"} /\ wk.pc \in Switching /\ wk.pc \in Holding
    BY DEF Switching, Holding
  <2>2. wk.job \in auth'.committed \/ m.failed
    BY DEF ControlInv, WorkerInv, Installing
  <2>3. col'.unavailable
    BY <1>4, <1>7, <2>1, <2>2
  <2>4. col.queue = <<>> /\ col.publishing = <<>>
    BY <1>2, <2>1 DEF MemoryInv
  <2> QED
    BY <1>4, <1>7, <2>1, <2>3, <2>4 DEF Halted
<1>9. MemoryInv'
  <2>1. col'.up => Halted' \/ (col'.root = auth'.serving /\ (wk'.pc # "reload" => col'.seq = contents'[col'.root].mark))
    BY <1>4, <1>6, <1>8
  <2>2. stateBytes' # -1 => col'.up /\ col'.publishing = <<>> /\ stateBytes' = col'.seq
    BY <1>2, <1>4 DEF MemoryInv
  <2> QED
    BY <1>5, <2>1, <2>2 DEF MemoryInv, Installing, Switching, Holding
<1>10. RestoreInv'
  BY <1>5 DEF RestoreInv
<1>11. FenceInv'
  <2>1. CASE auth' = auth
    BY <1>2, <1>4, <2>1 DEF FenceInv
  <2>2. CASE auth' # auth
    <3>1. col'.queue = <<>> /\ col'.publishing = <<>> /\ edit'.pc # "leased" /\ Len(<<>>) = 0
      BY <1>8, <2>2 DEF Halted
    <3> QED
      BY <3>1 DEF FenceInv
  <2> QED
    BY <2>1, <2>2
<1> QED
  BY <1>9, <1>10, <1>11 DEF RunningInv

\* What a step of the thread leaves of it.
LEMMA WorkerSteps ==
  ASSUME ControlInv
  PROVE  /\ \A pc : [wk EXCEPT !.pc = pc].pc = pc /\ [wk EXCEPT !.pc = pc].job = wk.job
         /\ IdleManager.pc = "idle"
  BY DEF ControlInv, ManagementTypes, Workers, IdleManager

\* The copy, the gate, the comparison and the flag, up to the commit point: what
\* is copied is the backup, and what is compared under the gate is what serves
\* when the authority is written.
LEMMA PreparingRunning ==
  ASSUME NoOverlap, ControlInv, ContentInv, [ManagementNext]_managementVars,
         CopyFiles \/ CommitBackup \/ AcquireGate \/ Compare \/ BeginTransition \/ SwitchAuthority
  PROVE  RunningInv'
<1>1. /\ col \in Memories /\ jobs \in [Jobs -> JobRecords] /\ auth \in Authorities
      /\ contents \in [Roots -> ContentRecords]
  BY DEF ControlInv, ManagementTypes
<1>2. /\ col.up /\ wk.pc \in Preparing /\ wk.pc # "idle" /\ wk.job \in Jobs /\ wk.job \in Roots /\ wk.job \notin auth.committed
      /\ edit' = edit /\ stateBytes' = stateBytes
  BY JobNumbers DEF ControlInv, WorkerInv, Worker, Preparing, CopyFiles, CommitBackup, AcquireGate, Compare, BeginTransition, SwitchAuthority
<1>3. MemoryInv /\ RestoreInv /\ FenceInv
  BY DEF ContentInv
<1>4. col.root = auth.serving /\ col.seq = contents[col.root].mark
  BY <1>2, <1>3, ServingRoot DEF Preparing
<1>5. wk.job # auth.serving
  BY <1>2, JobNumbers DEF ContentInv, ServedInv, FilesInv
<1>6. ASSUME NEW state, Fail(col, state), auth' = auth, contents' = contents
      PROVE  RunningInv'
  BY <1>1, <1>2, <1>6, FailRunning
<1>7. CASE CopyFiles
  <2>1. wk.pc = "run" /\ auth' = auth /\ ~SwitchAuthority
    BY <1>7 DEF CopyFiles, Worker, SwitchAuthority
  <2>2. ASSUME jobs' = [jobs EXCEPT ![wk.job] = [@ EXCEPT !.state = "running",
                                                  !.copy = IF Job.kind = "backup" THEN [Job.cur EXCEPT !.mark = Len(Job.cur.rows)] ELSE jobs[Job.from].copy]],
               contents' = IF Job.kind = "backup" THEN contents ELSE [contents EXCEPT ![wk.job] = jobs[Job.from].copy],
               wk' = [wk EXCEPT !.pc = IF Job.kind = "backup" THEN "commit" ELSE "gate"], col' = col
        PROVE  RunningInv'
    <3>1. wk'.job = wk.job /\ wk'.pc = IF jobs[wk.job].kind = "backup" THEN "commit" ELSE "gate"
      BY <2>2, WorkerSteps DEF Job
    <3>2. \A r \in Roots : r # wk.job => contents'[r] = contents[r]
      BY <1>1, <2>2
    <3>3. contents'[col.root] = contents[col.root]
      BY <1>1, <1>4, <1>5, <3>2 DEF Memories
    <3>4. MemoryInv'
      BY <1>2, <1>3, <1>4, <2>1, <2>2, <3>1, <3>3 DEF MemoryInv, Holding, Switching, Installing
    <3>5. RestoreInv'
      <4> SUFFICES ASSUME wk'.pc = "gate" PROVE contents'[wk.job] = jobs'[jobs'[wk.job].from].copy
        BY <3>1 DEF RestoreInv, RestoredFrom
      <4>1. jobs[wk.job].kind = "restore"
        BY <1>1, <1>2, <3>1 DEF ControlInv, WorkerInv, JobRecords
      <4>2. jobs[wk.job].from \in Jobs /\ jobs[wk.job].from # wk.job
        BY <1>2, <4>1 DEF ControlInv, OutcomeInv, ContentInv, BackupInv
      <4>3. jobs'[jobs[wk.job].from] = jobs[jobs[wk.job].from]
        BY <1>1, <2>2, <4>2
      <4>4. jobs'[wk.job].from = jobs[wk.job].from
        BY <1>1, <1>2, <2>2 DEF JobRecords
      <4>5. contents'[wk.job] = jobs[jobs[wk.job].from].copy
        BY <1>1, <1>2, <2>2, <4>1 DEF Job
      <4> QED
        BY <4>3, <4>4, <4>5
    <3>6. FenceInv'
      BY <1>2, <1>3, <2>1, <2>2, FenceFrame
    <3> QED
      BY <3>4, <3>5, <3>6 DEF RunningInv
  <2> QED
    BY <1>6, <1>7, <2>1, <2>2 DEF CopyFiles
<1>8. CASE CommitBackup
  <2>1. wk.pc = "commit" /\ auth' = auth /\ contents' = contents /\ ~SwitchAuthority
    BY <1>8 DEF CommitBackup, Worker, SwitchAuthority
  <2>2. ASSUME NEW late \in BOOLEAN, col' = [col EXCEPT !.active = 0, !.uncertain = IF late THEN @ \cup {wk.job} ELSE @], wk' = IdleManager
        PROVE  RunningInv'
    <3>1. /\ col'.up = col.up /\ col'.root = col.root /\ col'.seq = col.seq /\ col'.unavailable = col.unavailable
          /\ col'.queue = col.queue /\ col'.publishing = col.publishing /\ wk'.pc = "idle"
      BY <1>1, <2>2, WorkerSteps DEF Memories
    <3>2. MemoryInv'
      BY <1>2, <1>3, <1>4, <2>1, <3>1 DEF MemoryInv, Holding, Switching, Installing
    <3>3. RestoreInv'
      BY <3>1 DEF RestoreInv
    <3>4. FenceInv'
      BY <1>2, <1>3, <2>1, <3>1, FenceFrame
    <3> QED
      BY <3>2, <3>3, <3>4 DEF RunningInv
  <2> QED
    BY <1>6, <1>8, <2>1, <2>2 DEF CommitBackup
<1>9. CASE AcquireGate
  <2>1. wk.pc = "gate" /\ auth' = auth /\ contents' = contents /\ ~SwitchAuthority /\ stateBytes = -1
    BY <1>9 DEF AcquireGate, Worker, SwitchAuthority, NoOverlap
  <2>2. ASSUME col' = [col EXCEPT !.writer = TRUE, !.mutex = TRUE], wk' = [wk EXCEPT !.pc = "compare"], jobs' = jobs
        PROVE  RunningInv'
    <3>1. /\ col'.up = col.up /\ col'.root = col.root /\ col'.seq = col.seq /\ col'.unavailable = col.unavailable
          /\ col'.queue = col.queue /\ col'.publishing = col.publishing /\ wk'.pc = "compare" /\ wk'.job = wk.job
      BY <1>1, <2>2, WorkerSteps DEF Memories
    <3>2. MemoryInv'
      BY <1>2, <1>4, <2>1, <3>1 DEF MemoryInv, Switching, Installing
    <3>3. RestoreInv'
      BY <1>3, <2>1, <2>2, <3>1 DEF RestoreInv, RestoredFrom
    <3>4. FenceInv'
      BY <1>2, <1>3, <2>1, <3>1, FenceFrame
    <3> QED
      BY <3>2, <3>3, <3>4 DEF RunningInv
  <2> QED
    BY <1>6, <1>9, <2>1, <2>2 DEF AcquireGate
<1>10. CASE Compare
  <2>1. wk.pc = "compare" /\ auth' = auth /\ contents' = contents /\ ~SwitchAuthority /\ stateBytes = -1
    BY <1>3, <1>10 DEF Compare, Worker, SwitchAuthority, MemoryInv, Holding
  <2>2. ASSUME SamePlan(wk.job), wk' = [wk EXCEPT !.pc = "flag"], jobs' = jobs, col' = col
        PROVE  RunningInv'
    <3>1. wk'.pc = "flag" /\ wk'.job = wk.job
      BY <2>2, WorkerSteps
    <3>2. MemoryInv'
      BY <1>2, <1>4, <2>1, <2>2, <3>1 DEF MemoryInv, Switching, Installing
    <3>3. RestoreInv'
      BY <1>3, <2>1, <2>2, <3>1 DEF RestoreInv, RestoredFrom, SamePlan, Frontier
    <3>4. FenceInv'
      BY <1>2, <1>3, <2>1, <2>2, FenceFrame
    <3> QED
      BY <3>2, <3>3, <3>4 DEF RunningInv
  <2> QED
    BY <1>6, <1>10, <2>1, <2>2 DEF Compare
<1>11. CASE BeginTransition
  <2>1. wk.pc = "flag" /\ auth' = auth /\ contents' = contents /\ ~SwitchAuthority /\ stateBytes = -1
    BY <1>3, <1>11 DEF BeginTransition, Worker, SwitchAuthority, MemoryInv, Holding
  <2>2. ASSUME NothingWaits, jobs' = [jobs EXCEPT ![wk.job] = [@ EXCEPT !.old = col.root, !.cleanup = "pending"]],
               wk' = [wk EXCEPT !.pc = "switch"], col' = [col EXCEPT !.transition = TRUE]
        PROVE  RunningInv'
    <3>1. /\ col'.up = col.up /\ col'.root = col.root /\ col'.seq = col.seq /\ col'.unavailable = col.unavailable
          /\ col'.queue = <<>> /\ col'.publishing = <<>> /\ wk'.pc = "switch" /\ wk'.job = wk.job
      BY <1>1, <2>2, WorkerSteps DEF Memories, NothingWaits
    <3>2. /\ \A k \in Jobs : jobs'[k].from = jobs[k].from /\ jobs'[k].copy = jobs[k].copy /\ jobs'[k].cur = jobs[k].cur
          /\ jobs'[wk.job].old = col.root
      BY <1>1, <1>2, <2>2 DEF JobRecords
    <3>3. jobs[wk.job].from \in Jobs
      BY <1>2, <2>1 DEF ControlInv, WorkerInv, OutcomeInv, Holding
    <3>4. MemoryInv'
      BY <1>2, <1>4, <2>1, <3>1 DEF MemoryInv, Installing
    <3>5. RestoreInv'
      BY <1>2, <1>3, <2>1, <3>1, <3>2, <3>3 DEF RestoreInv, RestoredFrom
    <3>6. FenceInv'
      BY <1>2, <1>3, <2>1, <3>1, FenceFrame
    <3> QED
      BY <3>4, <3>5, <3>6 DEF RunningInv
  <2> QED
    BY <1>6, <1>11, <2>1, <2>2 DEF BeginTransition
<1>12. CASE SwitchAuthority
  <2>1. wk.pc = "switch" /\ contents' = contents
    BY <1>12 DEF SwitchAuthority, Worker
  <2>2. stateBytes = -1 /\ col.queue = <<>> /\ col.publishing = <<>> /\ edit.pc # "leased"
    BY <1>2, <1>3, <2>1 DEF MemoryInv, ControlInv, LockInv, Holding, Switching
  <2>3. ASSUME auth' = Switched(wk.job), col' = [col EXCEPT !.root = wk.job], wk' = [wk EXCEPT !.pc = "reload"]
        PROVE  RunningInv'
    <3>1. /\ col'.up = col.up /\ col'.root = wk.job /\ col'.seq = col.seq /\ col'.unavailable = col.unavailable
          /\ col'.queue = <<>> /\ col'.publishing = <<>> /\ wk'.pc = "reload" /\ wk'.job = wk.job
      BY <1>1, <2>2, <2>3, WorkerSteps DEF Memories
    <3>2. auth'.serving = wk.job
      BY <1>1, <2>3 DEF Switched, Authorities
    <3>3. MemoryInv'
      BY <1>2, <2>2, <3>1, <3>2 DEF MemoryInv
    <3>4. RestoreInv'
      BY <3>1 DEF RestoreInv
    <3>5. FenceInv'
      <4>1. Len(<<>>) = 0
        OBVIOUS
      <4> QED
        BY <1>2, <2>2, <3>1, <4>1 DEF FenceInv
    <3> QED
      BY <3>3, <3>4, <3>5 DEF RunningInv
  <2>4. ASSUME auth' \in {auth, Switched(wk.job)}, Fail([col EXCEPT !.failed = TRUE], "failed")
        PROVE  RunningInv'
    <3>1. [col EXCEPT !.failed = TRUE] \in Memories /\ [col EXCEPT !.failed = TRUE].failed
      BY <1>1 DEF Memories
    <3> QED
      BY <1>2, <2>1, <2>4, <3>1, FailRunning
  <2> QED
    BY <1>12, <2>3, <2>4 DEF SwitchAuthority
<1> QED
  BY <1>7, <1>8, <1>9, <1>10, <1>11, <1>12

\* The reload, the outcome and the cleanup: memory follows the content that was
\* switched to, and what is cleaned up is another one.
LEMMA InstallingRunning ==
  ASSUME ControlInv, ContentInv, [ManagementNext]_managementVars, Reload \/ FinishRestore \/ Cleanup
  PROVE  RunningInv'
<1>1. /\ col \in Memories /\ jobs \in [Jobs -> JobRecords] /\ contents \in [Roots -> ContentRecords] /\ col.root \in Roots
  BY DEF ControlInv, ManagementTypes, Memories
<1>2. /\ col.up /\ wk.pc \in Installing /\ wk.pc \in Switching /\ wk.pc \in Holding /\ wk.pc # "idle" /\ wk.job \in Jobs
      /\ wk.job \in auth.committed /\ edit' = edit /\ stateBytes' = stateBytes /\ auth' = auth
  BY DEF ControlInv, WorkerInv, Worker, Installing, Switching, Holding, Reload, FinishRestore, Cleanup
<1>3. MemoryInv /\ RestoreInv /\ FenceInv
  BY DEF ContentInv
<1>4. col.root = auth.serving /\ (wk.pc # "reload" => col.seq = contents[col.root].mark)
  BY <1>2, <1>3, ServingRoot
<1>5. /\ auth.serving = wk.job /\ col.queue = <<>> /\ col.publishing = <<>> /\ stateBytes = -1
      /\ ~SwitchAuthority
  BY <1>2, <1>3 DEF MemoryInv, SwitchAuthority, Worker, Installing
\* The memory of a thread that goes on or ends.
<1>6. ASSUME col'.up = col.up, col'.root = col.root, col'.seq = contents'[col.root].mark,
             col'.queue = col.queue, col'.publishing = col.publishing,
             wk'.pc \in {"finish", "cleanup", "idle"}, wk'.pc = "idle" \/ wk'.job = wk.job
      PROVE  RunningInv'
  <2>1. MemoryInv'
    BY <1>2, <1>4, <1>5, <1>6 DEF MemoryInv, Installing
  <2>2. RestoreInv'
    BY <1>6 DEF RestoreInv
  <2>3. FenceInv'
    BY <1>2, <1>3, <1>5, <1>6, FenceFrame
  <2> QED
    BY <2>1, <2>2, <2>3 DEF RunningInv
<1>7. ASSUME NEW state, Fail(col, state), contents' = contents
      PROVE  RunningInv'
  BY <1>1, <1>2, <1>7, FailRunning
<1>8. CASE Reload
  <2>1. contents' = contents
    BY <1>8, ContentKept
  <2>2. ASSUME col' = LoadLabels(LoadContentState(col, col.root)), wk' = [wk EXCEPT !.pc = "finish"]
        PROVE  RunningInv'
    <3>1. /\ col'.up = col.up /\ col'.root = col.root /\ col'.seq = contents[col.root].mark
          /\ col'.queue = col.queue /\ col'.publishing = col.publishing
      BY <1>1, <2>2 DEF LoadLabels, LoadContentState, Memories
    <3>2. wk'.pc = "finish" /\ wk'.job = wk.job
      BY <2>2, WorkerSteps
    <3> QED
      BY <1>6, <2>1, <3>1, <3>2
  <2> QED
    BY <1>7, <1>8, <2>1, <2>2 DEF Reload
<1>9. CASE FinishRestore
  <2>1. contents' = contents /\ wk.pc = "finish"
    BY <1>9, ContentKept DEF FinishRestore, Worker
  <2>2. ASSUME wk' = [wk EXCEPT !.pc = "cleanup"], col' = col
        PROVE  RunningInv'
    <3>1. wk'.pc = "cleanup" /\ wk'.job = wk.job
      BY <2>2, WorkerSteps
    <3> QED
      BY <1>4, <1>6, <2>1, <2>2, <3>1
  <2> QED
    BY <1>7, <1>9, <2>1, <2>2 DEF FinishRestore
<1>10. CASE Cleanup
  <2>1. wk.pc = "cleanup" /\ col' = [Released(col) EXCEPT !.active = 0] /\ wk'.pc = "idle"
    BY <1>10, WorkerSteps DEF Cleanup, Worker
  <2>2. /\ col'.up = col.up /\ col'.root = col.root /\ col'.seq = col.seq
        /\ col'.queue = col.queue /\ col'.publishing = col.publishing
    BY <1>1, <2>1 DEF Released, Memories
  <2>3. jobs[wk.job].old # auth.serving
    BY <1>2 DEF ContentInv, ServedInv, FilesInv
  <2>4. contents' = contents \/ contents' = Cleaned(wk.job)
    BY <1>10 DEF Cleanup
  <2>5. contents'[col.root] = contents[col.root]
    BY <1>1, <1>4, <2>3, <2>4 DEF Cleaned, DiscardRoot
  <2> QED
    BY <1>4, <1>6, <2>1, <2>2, <2>5
<1> QED
  BY <1>8, <1>9, <1>10

\* Nothing is under way in a collector that died, and one that starts serves what
\* the authority names, from its watermark.
LEMMA RestartRunning ==
  ASSUME ControlInv, ContentInv, CrashCollector \/ Restart
  PROVE  RunningInv'
<1>1. /\ col \in Memories /\ contents \in [Roots -> ContentRecords] /\ auth.serving \in Roots /\ contents[auth.serving] \in ContentRecords
  BY FieldTypes DEF ControlInv, ManagementTypes
<1>2. MemoryInv /\ RestoreInv /\ FenceInv
  BY DEF ContentInv
<1>3. CASE CrashCollector
  <2>1. ~col'.up /\ wk'.pc = "idle" /\ stateBytes' = -1 /\ edit'.pc # "leased"
    BY <1>1, <1>3 DEF CrashCollector, Memories, IdleManager, NoEdit
  <2> QED
    BY <2>1 DEF RunningInv, MemoryInv, RestoreInv, FenceInv, Installing, Switching
<1>4. CASE Restart
  <2> DEFINE loaded == LoadLabels(LoadContentState(col, auth.serving))
  <2>1. loaded \in Memories /\ loaded.root = auth.serving /\ loaded.seq = contents[auth.serving].mark
    <3>1. loaded \in Memories
      BY <1>1, LoadTypes DEF ControlInv
    <3>2. loaded.root = auth.serving /\ loaded.seq = contents[auth.serving].mark
      BY <1>1 DEF LoadLabels, LoadContentState, Memories
    <3> QED
      BY <3>1, <3>2
  <2>2. ~col.up /\ wk' = wk /\ edit' = edit /\ stateBytes' = stateBytes /\ auth' = auth
        /\ col' = [loaded EXCEPT !.up = TRUE, !.queue = <<>>, !.publishing = <<>>, !.transition = FALSE, !.mutex = FALSE,
                          !.writer = FALSE, !.readers = 0, !.active = 0, !.cancel = FALSE, !.failed = FALSE, !.unavailable = FALSE,
                          !.uncertain = {}]
    BY <1>4 DEF Restart
  <2> HIDE DEF loaded
  <2>3. col'.root = auth.serving /\ col'.seq = contents[auth.serving].mark /\ col'.queue = <<>> /\ col'.publishing = <<>>
    BY <2>1, <2>2 DEF Memories
  <2>4. contents'[auth.serving] = contents[auth.serving]
    <3>1. Reconciled(contents[auth.serving]) = contents[auth.serving]
      BY <1>1, ReconciledSame DEF ContentInv, ServedInv, FilesInv
    <3>2. contents'[auth.serving] = Reconciled(contents[auth.serving])
      BY <1>1, <1>4 DEF Restart
    <3> QED
      BY <3>1, <3>2
  <2>5. wk'.pc = "idle" /\ edit'.pc # "leased" /\ stateBytes' = -1
    BY <1>2, <2>2 DEF ControlInv, WorkerInv, LockInv, IdleManager, MemoryInv
  <2>6. MemoryInv'
    BY <2>2, <2>3, <2>4, <2>5 DEF MemoryInv, Installing, Switching
  <2>7. RestoreInv'
    BY <2>5 DEF RestoreInv
  <2>8. FenceInv'
    <3>1. Len(<<>>) = 0
      OBVIOUS
    <3> QED
      BY <2>3, <2>5, <3>1 DEF FenceInv
  <2> QED
    BY <2>6, <2>7, <2>8 DEF RunningInv
<1> QED
  BY <1>3, <1>4

\* The program starts with an empty content and nothing under way.
LEMMA InitialContent == ManagementInit => ContentInv
<1> SUFFICES ASSUME ManagementInit PROVE ContentInv
  OBVIOUS
<1>1. /\ NoContent.mark = 0 /\ NoContent.rows = <<>> /\ Len(<<>>) = 0 /\ ~NoContent.there
      /\ NoJob.kind = "none" /\ NoJob.copy = NoContent
  BY DEF NoContent, NoJob
<1>2. /\ contents[0].there /\ \A r \in Roots : contents[r].mark = 0 /\ contents[r].rows = <<>>
  BY JobNumbers DEF ManagementInit, NoContent
<1>3. FilesInv
  BY <1>1, <1>2 DEF ManagementInit, FilesInv
<1>4. WrittenForServing /\ ReplacedAsConfirmed /\ RestoredWhole
  BY DEF ManagementInit, WrittenForServing, ReplacedAsConfirmed, RestoredWhole
<1>5. BackupInv
  BY <1>1 DEF ManagementInit, BackupInv
<1>6. MemoryInv
  BY <1>2, JobNumbers DEF ManagementInit, MemoryInv, IdleManager, Installing, Switching
<1>7. RestoreInv
  BY DEF ManagementInit, RestoreInv, IdleManager
<1>8. FenceInv
  BY <1>1 DEF ManagementInit, FenceInv, NoEdit
<1> QED
  BY <1>3, <1>4, <1>5, <1>6, <1>7, <1>8 DEF ContentInv, ServedInv

\* Every step keeps memory, files and documents in agreement.
LEMMA ContentStep ==
  ASSUME NoOverlap
  PROVE  ControlInv /\ ContentInv /\ [ManagementNext]_managementVars => ContentInv'
<1> SUFFICES ASSUME ControlInv, ContentInv, [ManagementNext]_managementVars PROVE ContentInv'
  OBVIOUS
<1>1. ServedInv'
  BY ServedStep
<1>2. BackupInv'
  BY BackupStep DEF ContentInv
<1>3. RunningInv'
  <2>1. CASE UNCHANGED managementVars
    <3>1. MemoryInv' /\ RestoreInv' /\ FenceInv'
      BY <2>1 DEF managementVars, ContentInv, MemoryInv, Halted, RestoreInv, RestoredFrom, FenceInv
    <3> QED
      BY <3>1 DEF RunningInv
  <2>2. CASE ManagementNext
    BY <2>2, ServingRunning, ClientRunning, PreparingRunning, InstallingRunning, RestartRunning DEF ManagementNext
  <2> QED
    BY <2>1, <2>2
<1> QED
  BY <1>1, <1>2, <1>3 DEF ContentInv, RunningInv

\* A restore is all or nothing (_restore_switch, Authority.switch, _admit,
\* _publish, AnnotationStore.mutate, Management.prepare): it replaces what its
\* user confirmed, by the whole backup; what is written afterwards was admitted or
\* composed for it; and its outcome says so.  The hypothesis is that no checkpoint
\* overlaps a switch; the run archive_overlap shows what happens where one does.
THEOREM RestoreIsSound == ASSUME NoOverlap PROVE ManagementSpec => RestoreSound
<1>1. ManagementInit => ControlInv /\ ContentInv
  BY InitialControl, InitialContent
<1>2. ControlInv /\ ContentInv /\ [ManagementNext]_managementVars => ControlInv' /\ ContentInv'
  BY ControlStep, ContentStep
<1>3. ContentInv => WrittenForServing /\ ReplacedAsConfirmed /\ RestoredWhole
  BY DEF ContentInv, ServedInv
<1> QED
  BY <1>1, <1>2, <1>3, OutcomesHold, PTL DEF ManagementSpec, RestoreSound

==============================================================================
