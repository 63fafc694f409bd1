------------------------ MODULE ReplayPurgeInvariant ------------------------
(***************************************************************************)
(* The inductive invariants of ReplayPurge, and that every step of a       *)
(* producer, of the dispatcher, of the persister and of a purge keeps      *)
(* them, for any subjects, readers, ring size, queue capacity, number of   *)
(* frames and number of attempts.                                          *)
(***************************************************************************)
EXTENDS ReplayPurge, TLAPS

Places == {"idle", "begun", "failed", "await", "lock", "locked", "flush", "delete", "done"}
Item == [type : {"frame"}, of : Payloads, n : Nat] \cup [type : {"ban", "barrier"}, of : Subjects, n : Nat]

Types ==
    /\ queue \in Seq(Item) /\ seq \in Nat
    /\ ring \in Seq(Entry) /\ pend \in Seq(Entry)
    /\ DOMAIN tomb \subseteq Subjects /\ \A s \in DOMAIN tomb : tomb[s] \in Nat
    /\ batches \in Seq([seq : Nat, of : Subjects])
    /\ purge \in [Subjects -> [pc : Places, n : Nat]]
    /\ mark \in [Subjects -> Nat]
    /\ ban \in [Subjects -> {"none", "queued", "sequenced", "dropped"}]

\* No entry of w names s; none that does was sequenced after m.
Free(w, s) == \A i \in 1..Len(w) : w[i].data # s
Early(w, s, m) == \A i \in 1..Len(w) : w[i].data = s => w[i].seq <= m
Upper(w, m) == \A i \in 1..Len(w) : w[i].seq <= m

\* What queue q holds of s: barriers at most; no member_ban; no barrier; no
\* barrier ahead of a member_ban.
Quiet(q, s) == \A i \in 1..Len(q) : q[i].of = s => q[i].type = "barrier"
NoBan(q, s) == \A i \in 1..Len(q) : q[i].of = s => q[i].type # "ban"
NoBarrier(q, s) == \A i \in 1..Len(q) : q[i].of = s => q[i].type # "barrier"
BanFirst(q, s) ==
    \A i, j \in 1..Len(q) : j < i /\ q[i].of = s /\ q[j].of = s /\ q[j].type = "barrier" => q[i].type # "ban"

\* No frame naming s can be sequenced any more: its tombstone drops it, or
\* nothing that names s is left to come.
Shut(s) == s \in DOMAIN tomb \/ (s \in spent /\ Quiet(queue, s))

\* What each step of a purge has made true, and nothing undoes.
StepsGood ==
    \A s \in Subjects :
        /\ purge[s].pc \in {"flush", "delete", "done"} =>
             Shut(s) /\ Free(ring, s) /\ Early(pend, s, mark[s])
        /\ purge[s].pc \in {"delete", "done"} => Free(pend, s)
        /\ purge[s].pc = "done" => \A f \in rows : f.data # s

PendGood == Upper(pend, seq)

\* A member_ban is ahead of its purge's barriers, so it is sequenced before the
\* tombstone is installed.
BanGood ==
    \A s \in Subjects :
        /\ purge[s].pc = "idle" => NoBan(queue, s) /\ NoBarrier(queue, s) /\ s \notin DOMAIN tomb
        /\ purge[s].pc \in {"lock", "locked", "flush", "delete", "done"} => NoBan(queue, s)
        /\ s \in DOMAIN tomb => NoBan(queue, s)
        /\ BanFirst(queue, s)
        /\ ban[s] # "dropped"

\* A tombstone carries the seq of its latest install, and so does a batch.
TombGood ==
    \A s \in DOMAIN tomb :
        /\ tomb[s] = mark[s]
        /\ \E i \in 1..Len(batches) : Takes(batches[i], s)

IInv == Types /\ StepsGood /\ PendGood /\ BanGood /\ TombGood

\* Frames without a gap up to n; frames in the order of their seqs; rows that
\* differ in their seqs; rows up to n that are older than the frames of w.
RingLine(w, n) == Len(w) <= n /\ \A i \in 1..Len(w) : w[i].seq = n - Len(w) + i
Rising(w) == \A i, j \in 1..Len(w) : i < j => w[i].seq < w[j].seq
Distinct(fs) == \A f, g \in fs : f.seq = g.seq => f = g
Below(fs, n, w) == \A f \in fs : f.seq <= n /\ \A i \in 1..Len(w) : f.seq < w[i].seq

\* The ring, the frames on their way to the table and the table are parts of one
\* line of frames: the ring ends at seq without a gap, and what is written is
\* older than what is pending.
LineGood ==
    /\ RingLine(ring, seq) /\ Rising(pend)
    /\ rows \subseteq Entry /\ Distinct(rows) /\ Below(rows, seq, pend)

\* A purge's in-memory step has run: its tombstone is there or it went on.
Past == {"flush", "delete", "done"}
Put(s) == s \in DOMAIN tomb \/ purge[s].pc \in Past

\* Ever after: the ring is rid of s, and cold reads wait for the rows' delete.
Closed(s) == Shut(s) /\ Free(ring, s)
Settled(s) == purge[s].pc \in Past \/ s \in unfinished

\* A frame of s among fs is no younger than m.
Old(fs, s, m) == \A f \in fs : f.data = s => f.seq <= m

\* Only the purge that holds the lock is past it, and an account whose erasure
\* has not begun still has producers.
LockGood ==
    /\ \A s \in Subjects : purge[s].pc = "idle" => s \notin spent
    /\ \A s \in Subjects : purge[s].pc \in {"locked", "flush", "delete"} => holder = s

\* The latest in-memory step of a purge parts the frames that may name its
\* subject from those that cannot, and an erasure's is below the watermark.
PutGood ==
    /\ purgeW \in Nat /\ purgeW <= seq
    /\ \A s \in Subjects : Put(s) =>
         /\ Closed(s) /\ Settled(s)
         /\ Early(pend, s, mark[s]) /\ Old(rows, s, mark[s])
         /\ mark[s] <= seq /\ (s \in users => mark[s] <= purgeW)

\* What a resume knows of the rows it read, seen against the table as it is now.
Resuming == [pc : {"idle", "select", "cold", "oldest", "count", "tail", "register"}, last : Nat,
             src : {"buffer", "db"}, rows : SUBSET Entry, before : SUBSET Subjects]
Cold(c) == c.pc \in {"oldest", "count", "tail"} \/ (c.pc = "register" /\ c.src = "db")

\* The rows name no subject purged before the resume began.
BeforeGood(r) ==
    \A s \in reader[r].before : Closed(s) /\ Settled(s) /\ \A f \in reader[r].rows : f.data # s

OwnRows(r) ==
    /\ Distinct(reader[r].rows) /\ Below(reader[r].rows, seq, pend)
    /\ \A f \in reader[r].rows : reader[r].last < f.seq
    /\ \A s \in Subjects : Put(s) => Old(reader[r].rows, s, mark[s])

\* Until the count, the table has no row in the range that was not read; after
\* it, no seq of the range is missing.
ColdRows(r) ==
    LET c == reader[r] IN
    /\ Cold(c) => c.rows # {}
    /\ c.pc \in {"oldest", "count"} =>
         \A f \in rows, g \in c.rows : c.last < f.seq /\ f.seq <= g.seq => f \in c.rows
    /\ Cold(c) /\ c.pc \notin {"oldest", "count"} =>
         \A g \in c.rows : \A n \in (c.last + 1)..g.seq : \E f \in c.rows : f.seq = n

ReaderGood == \A r \in Readers : reader[r] \in Resuming /\ BeforeGood(r) /\ OwnRows(r) /\ ColdRows(r)

SInv ==
    /\ LineGood /\ LockGood /\ PutGood /\ ReaderGood
    /\ users \subseteq Subjects /\ DOMAIN reader = Readers /\ DOMAIN got = Readers
    /\ ServedComplete /\ ServedCleanly

-----------------------------------------------------------------------------
(* Sequences of frames and of queue items.                                   *)

\* A function on 1..n is a sequence of length n.
LEMMA SeqOfFunction ==
    ASSUME NEW S, NEW n \in Nat, NEW f \in [1..n -> S]
    PROVE  f \in Seq(S) /\ Len(f) = n
OBVIOUS

\* The subjects are payloads, and no payload is the nil data of a cleared slot.
LEMMA SubjectFacts ==
    /\ Subjects \subseteq Payloads /\ NoData \notin Subjects
    /\ \A n \in Nat, d \in Payloads : Frame(n, d) \in Entry /\ Frame(n, d).data = d /\ Frame(n, d).seq = n
<1>1. Subjects \subseteq Payloads /\ NoData \notin Subjects
  BY SubjectsAssumption, NoDataAssumption, Zenon
<1>2. \A n \in Nat, d \in Payloads : Frame(n, d) \in Entry /\ Frame(n, d).data = d /\ Frame(n, d).seq = n
  BY Zenon DEF Frame, Entry
<1> QED
  BY <1>1, <1>2, Zenon

\* persistEvent hands the persister one frame more.
LEMMA AppendFrame ==
    ASSUME NEW w \in Seq(Entry), NEW e \in Entry
    PROVE  /\ Append(w, e) \in Seq(Entry)
           /\ \A s : Free(w, s) /\ e.data # s => Free(Append(w, e), s)
           /\ \A s, m : Early(w, s, m) /\ e.data # s => Early(Append(w, e), s, m)
           /\ \A m \in Nat : (\A i \in 1..Len(w) : w[i].seq <= m) /\ e.seq = m + 1 => Upper(Append(w, e), m + 1)
<1> DEFINE a == Append(w, e)
<1>1. /\ a \in Seq(Entry) /\ Len(a) = Len(w) + 1 /\ Len(w) \in Nat /\ a[Len(w) + 1] = e
      /\ \A i \in 1..Len(w) : a[i] = w[i]
  OBVIOUS
<1>2. \A i \in 1..Len(w) : w[i].seq \in Nat
  <2>1. \A i \in 1..Len(w) : w[i] \in Entry
    OBVIOUS
  <2> QED
    BY <2>1, Zenon DEF Entry
<1> HIDE DEF a
<1>3. \A i \in 1..Len(a) : (i \in 1..Len(w) /\ a[i] = w[i]) \/ a[i] = e
  BY <1>1
<1>4. \A s : Free(w, s) /\ e.data # s => Free(a, s)
  BY <1>3, Zenon DEF Free
<1>5. \A s, m : Early(w, s, m) /\ e.data # s => Early(a, s, m)
  BY <1>3, Zenon DEF Early
<1>6. \A m \in Nat : (\A i \in 1..Len(w) : w[i].seq <= m) /\ e.seq = m + 1 => Upper(a, m + 1)
  BY <1>2, <1>3 DEF Upper
<1> QED
  BY <1>1, <1>4, <1>5, <1>6, Zenon DEF a

\* The persister or a full ring loses its oldest frame.
LEMMA TailFrame ==
    ASSUME NEW w \in Seq(Entry), w # <<>>
    PROVE  /\ Tail(w) \in Seq(Entry) /\ Head(w) \in Entry
           /\ \A s : Free(w, s) => Free(Tail(w), s) /\ Head(w).data # s
           /\ \A s, m : Early(w, s, m) => Early(Tail(w), s, m)
           /\ \A m : Upper(w, m) => Upper(Tail(w), m)
<1> DEFINE a == Tail(w)
<1>1. /\ a \in Seq(Entry) /\ Head(w) \in Entry /\ Head(w) = w[1] /\ 1 \in 1..Len(w)
      /\ \A i \in 1..Len(a) : a[i] = w[i + 1] /\ i + 1 \in 1..Len(w)
  OBVIOUS
<1> HIDE DEF a
<1> QED
  BY <1>1, Zenon DEF Free, Early, Upper, a

\* pushEntry brings only its own frame into the ring.
LEMMA PushFree ==
    ASSUME NEW w \in Seq(Entry), NEW e \in Entry
    PROVE  /\ PushEntry(w, e) \in Seq(Entry)
           /\ \A s : Free(w, s) /\ e.data # s => Free(PushEntry(w, e), s)
<1>1. CASE Len(w) < RingSize
  BY <1>1, AppendFrame, Zenon DEF PushEntry
<1>2. CASE ~(Len(w) < RingSize)
  <2>1. w # <<>>
    BY <1>2, RingSizeAssumption
  <2> QED
    BY <1>2, <2>1, TailFrame, AppendFrame, Zenon DEF PushEntry
<1> QED
  BY <1>1, <1>2, Zenon

\* RemoveWhere frees the ring of its subject and brings in no other.
LEMMA RemoveFree ==
    ASSUME NEW w \in Seq(Entry), NEW s \in Subjects
    PROVE  /\ RemoveWhere(w, {s}) \in Seq(Entry)
           /\ Free(RemoveWhere(w, {s}), s)
           /\ \A t \in Subjects : Free(w, t) => Free(RemoveWhere(w, {s}), t)
<1> DEFINE a == RemoveWhere(w, {s})
<1>1. \A i \in 1..Len(w) : w[i] \in Entry
  OBVIOUS
<1>2. \A e \in Entry : /\ Cleared(e, {s}) \in Entry
                       /\ Cleared(e, {s}).data = IF e.data = s THEN NoData ELSE e.data
  BY Zenon DEF Cleared, Entry
<1>3. /\ a = [i \in 1..Len(w) |-> Cleared(w[i], {s})] /\ Len(w) \in Nat
  BY DEF RemoveWhere
<1>4. a \in Seq(Entry) /\ Len(a) = Len(w)
  <2>1. \A i \in 1..Len(w) : Cleared(w[i], {s}) \in Entry
    BY <1>1, <1>2, Zenon
  <2> HIDE DEF a
  <2> DEFINE g(i) == Cleared(w[i], {s})
  <2>2. a = [i \in 1..Len(w) |-> g(i)] /\ \A i \in 1..Len(w) : g(i) \in Entry
    BY <1>3, <2>1, Zenon
  <2> HIDE DEF g
  <2>3. a \in [1..Len(w) -> Entry]
    BY <2>2, Zenon
  <2> QED
    BY <1>3, <2>3, SeqOfFunction, Zenon
<1>5. \A i \in 1..Len(a) : a[i].data = IF w[i].data = s THEN NoData ELSE w[i].data
  BY <1>1, <1>2, <1>3, <1>4, Zenon
<1> HIDE DEF a
<1>6. Free(a, s) /\ \A t \in Subjects : Free(w, t) => Free(a, t)
  BY <1>4, <1>5, SubjectFacts DEF Free
<1> QED
  BY <1>4, <1>6, Zenon DEF a

\* One item more in the queue.
LEMMA AppendItem ==
    ASSUME NEW q \in Seq(Item), NEW e \in Item
    PROVE  /\ Append(q, e) \in Seq(Item)
           /\ \A s : Quiet(q, s) /\ (e.of = s => e.type = "barrier") => Quiet(Append(q, e), s)
           /\ \A s : NoBan(q, s) /\ (e.of = s => e.type # "ban") => NoBan(Append(q, e), s)
           /\ \A s : NoBarrier(q, s) /\ (e.of = s => e.type # "barrier") => NoBarrier(Append(q, e), s)
           /\ \A s : BanFirst(q, s) /\ (e.of = s /\ e.type = "ban" => NoBarrier(q, s)) => BanFirst(Append(q, e), s)
<1> DEFINE a == Append(q, e)
<1>1. /\ a \in Seq(Item) /\ Len(a) = Len(q) + 1 /\ Len(q) \in Nat /\ a[Len(q) + 1] = e
      /\ \A i \in 1..Len(q) : a[i] = q[i]
  OBVIOUS
<1> HIDE DEF a
<1>2. \A i \in 1..Len(a) : (i \in 1..Len(q) /\ a[i] = q[i]) \/ (i = Len(q) + 1 /\ a[i] = e)
  BY <1>1
<1>3. \A s : Quiet(q, s) /\ (e.of = s => e.type = "barrier") => Quiet(a, s)
  BY <1>2, Zenon DEF Quiet
<1>4. \A s : NoBan(q, s) /\ (e.of = s => e.type # "ban") => NoBan(a, s)
  BY <1>2, Zenon DEF NoBan
<1>5. \A s : NoBarrier(q, s) /\ (e.of = s => e.type # "barrier") => NoBarrier(a, s)
  BY <1>2, Zenon DEF NoBarrier
<1>6. ASSUME NEW s, BanFirst(q, s), e.of = s /\ e.type = "ban" => NoBarrier(q, s)
      PROVE  BanFirst(a, s)
  <2> SUFFICES ASSUME NEW i \in 1..Len(a), NEW j \in 1..Len(a), j < i, a[i].of = s, a[j].of = s,
                      a[j].type = "barrier", a[i].type = "ban"
               PROVE  FALSE
    BY Zenon DEF BanFirst
  <2>1. j \in 1..Len(q) /\ a[j] = q[j]
    BY <1>1, <1>2
  <2>2. CASE i \in 1..Len(q)
    BY <1>1, <1>6, <2>1, <2>2, Zenon DEF BanFirst
  <2>3. CASE i = Len(q) + 1
    BY <1>1, <1>6, <2>1, <2>3, Zenon DEF NoBarrier
  <2> QED
    BY <1>2, <2>2, <2>3, Zenon
<1> QED
  BY <1>1, <1>3, <1>4, <1>5, <1>6, Zenon DEF a

\* dispatch takes the queue's first item.
LEMMA TailItem ==
    ASSUME NEW q \in Seq(Item), q # <<>>
    PROVE  /\ Tail(q) \in Seq(Item) /\ Head(q) \in Item
           /\ \A s : Quiet(q, s) => Quiet(Tail(q), s) /\ (Head(q).of = s => Head(q).type = "barrier")
           /\ \A s : NoBan(q, s) => NoBan(Tail(q), s) /\ (Head(q).of = s => Head(q).type # "ban")
           /\ \A s : NoBarrier(q, s) => NoBarrier(Tail(q), s) /\ (Head(q).of = s => Head(q).type # "barrier")
           /\ \A s : BanFirst(q, s) => /\ BanFirst(Tail(q), s)
                                       /\ Head(q).of = s /\ Head(q).type = "barrier" => NoBan(Tail(q), s)
<1> DEFINE a == Tail(q)
<1>1. /\ a \in Seq(Item) /\ Head(q) \in Item /\ Head(q) = q[1] /\ 1 \in 1..Len(q)
      /\ Len(a) \in Nat
      /\ \A i \in 1..Len(a) : a[i] = q[i + 1] /\ i + 1 \in 1..Len(q)
  OBVIOUS
<1> HIDE DEF a
<1>2. \A s : Quiet(q, s) => Quiet(a, s) /\ (Head(q).of = s => Head(q).type = "barrier")
  BY <1>1, Zenon DEF Quiet
<1>3. \A s : NoBan(q, s) => NoBan(a, s) /\ (Head(q).of = s => Head(q).type # "ban")
  BY <1>1, Zenon DEF NoBan
<1>4. \A s : NoBarrier(q, s) => NoBarrier(a, s) /\ (Head(q).of = s => Head(q).type # "barrier")
  BY <1>1, Zenon DEF NoBarrier
<1>5. ASSUME NEW s, BanFirst(q, s)
      PROVE  BanFirst(a, s) /\ (Head(q).of = s /\ Head(q).type = "barrier" => NoBan(a, s))
  <2>1. \A i, j \in 1..Len(a) : j < i => j + 1 < i + 1
    OBVIOUS
  <2>2. BanFirst(a, s)
    BY <1>1, <1>5, <2>1, Zenon DEF BanFirst
  <2>3. \A i \in 1..Len(a) : 1 < i + 1
    OBVIOUS
  <2>4. Head(q).of = s /\ Head(q).type = "barrier" => NoBan(a, s)
    BY <1>1, <1>5, <2>3, Zenon DEF BanFirst, NoBan
  <2> QED
    BY <2>2, <2>4, Zenon
<1> QED
  BY <1>1, <1>2, <1>3, <1>4, <1>5, Zenon DEF a

-----------------------------------------------------------------------------
(* What the parts of a step do.                                              *)

\* The purge of s goes to place p, every other one stays.
Moved(s, p) ==
    /\ purge' \in [Subjects -> [pc : Places, n : Nat]]
    /\ \A t \in Subjects : purge'[t].pc = IF t = s THEN p ELSE purge[t].pc

LEMMA GoMoves ==
    ASSUME Types, NEW s \in Subjects, NEW p \in Places, Go(s, p)
    PROVE  Moved(s, p)
<1>1. purge \in [Subjects -> [pc : Places, n : Nat]]
  BY Zenon DEF Types
<1>2. purge' = [purge EXCEPT ![s].pc = p]
  BY Zenon DEF Go
<1> QED
  BY <1>1, <1>2, Zenon DEF Moved

\* nextSeq, pushEntry and persistEvent: nothing changes for a subject the frame
\* does not name, nor for a tombstoned one.
LEMMA SequenceOK ==
    ASSUME Types, PendGood, NEW d \in Payloads, sequence(d)
    PROVE  /\ seq' \in Nat /\ ring' \in Seq(Entry) /\ pend' \in Seq(Entry) /\ PendGood'
           /\ \A s \in Subjects : s # d \/ s \in DOMAIN tomb =>
                /\ Free(ring, s) => Free(ring', s)
                /\ Free(pend, s) => Free(pend', s)
                /\ \A m : Early(pend, s, m) => Early(pend', s, m)
<1>1. seq \in Nat /\ ring \in Seq(Entry) /\ pend \in Seq(Entry)
  BY Zenon DEF Types
<1>2. CASE d \in DOMAIN tomb
  <2>1. UNCHANGED <<seq, ring, pend>>
    BY <1>2, Zenon DEF sequence, dropsForTombstones
  <2> QED
    BY <1>1, <2>1, Zenon DEF PendGood
<1>3. CASE d \notin DOMAIN tomb
  <2> DEFINE e == Frame(seq + 1, d)
  <2>1. e \in Entry /\ e.data = d /\ e.seq = seq + 1
    BY <1>1, SubjectFacts
  <2>2. seq' = seq + 1 /\ ring' = PushEntry(ring, e) /\ pend' = Append(pend, e)
    BY <1>3, Zenon DEF sequence, dropsForTombstones
  <2> HIDE DEF e
  <2>3. \A s \in Subjects : s # d \/ s \in DOMAIN tomb => e.data # s
    BY <1>3, <2>1, Zenon
  <2>4. ring' \in Seq(Entry) /\ \A s : Free(ring, s) /\ e.data # s => Free(ring', s)
    BY <1>1, <2>1, <2>2, PushFree, Zenon
  <2>5. /\ pend' \in Seq(Entry)
        /\ \A s : Free(pend, s) /\ e.data # s => Free(pend', s)
        /\ \A s, m : Early(pend, s, m) /\ e.data # s => Early(pend', s, m)
        /\ (\A i \in 1..Len(pend) : pend[i].seq <= seq) /\ e.seq = seq + 1 => Upper(pend', seq + 1)
    BY <1>1, <2>1, <2>2, AppendFrame, Zenon
  <2>6. PendGood'
    BY <2>1, <2>2, <2>5, Zenon DEF PendGood, Upper
  <2> QED
    BY <1>1, <2>2, <2>3, <2>4, <2>5, <2>6
<1> QED
  BY <1>2, <1>3, Zenon

\* The seq of an entry is a natural number.
LEMMA EntrySeq == \A e \in Entry : e.seq \in Nat
BY Zenon DEF Entry

\* pushEntry keeps the ring's line, one frame further.
LEMMA PushLine ==
    ASSUME NEW w \in Seq(Entry), NEW n \in Nat, RingLine(w, n), NEW e \in Entry, e.seq = n + 1
    PROVE  RingLine(PushEntry(w, e), n + 1)
<1>1. Len(w) \in Nat
  OBVIOUS
<1>2. CASE Len(w) < RingSize
  <2> DEFINE v == Append(w, e)
  <2>1. /\ PushEntry(w, e) = v /\ Len(v) = Len(w) + 1 /\ v[Len(w) + 1] = e
        /\ \A i \in 1..Len(w) : v[i] = w[i]
    BY <1>2 DEF PushEntry
  <2> HIDE DEF v
  <2>2. \A i \in 1..Len(w) : v[i].seq = n - Len(w) + i
    BY <2>1, Zenon DEF RingLine
  <2>3. \A i \in 1..Len(v) : v[i].seq = (n + 1) - Len(v) + i
    <3>1. \A i \in 1..Len(v) : i \in 1..Len(w) \/ i = Len(w) + 1
      BY <1>1, <2>1
    <3>2. v[Len(w) + 1].seq = n + 1 /\ (n + 1) - Len(v) + (Len(w) + 1) = n + 1
      BY <1>1, <2>1
    <3>3. \A i \in 1..Len(w) : n - Len(w) + i = (n + 1) - Len(v) + i
      BY <1>1, <2>1
    <3> QED
      BY <2>2, <3>1, <3>2, <3>3, Zenon
  <2>4. Len(v) <= n + 1
    BY <1>1, <2>1 DEF RingLine
  <2> QED
    BY <2>1, <2>3, <2>4, Zenon DEF RingLine
<1>3. CASE ~(Len(w) < RingSize)
  <2> DEFINE t == Tail(w)
             v == Append(t, e)
  <2>1. /\ w # <<>> /\ t \in Seq(Entry) /\ Len(t) = Len(w) - 1 /\ Len(t) \in Nat
        /\ \A i \in 1..Len(t) : t[i] = w[i + 1] /\ i + 1 \in 1..Len(w)
    BY <1>1, <1>3, RingSizeAssumption
  <2> HIDE DEF t
  <2>2. /\ Len(v) = Len(t) + 1 /\ v[Len(t) + 1] = e /\ \A i \in 1..Len(t) : v[i] = t[i]
    BY <2>1
  <2>3. PushEntry(w, e) = v
    BY <1>3, Zenon DEF PushEntry, t
  <2> HIDE DEF v
  <2>4. \A i \in 1..Len(t) : v[i].seq = n - Len(w) + (i + 1)
    BY <2>1, <2>2, Zenon DEF RingLine
  <2>5. \A i \in 1..Len(v) : v[i].seq = (n + 1) - Len(v) + i
    BY <1>1, <2>1, <2>2, <2>4
  <2>6. Len(v) <= n + 1
    BY <1>1, <2>1, <2>2 DEF RingLine
  <2> QED
    BY <2>3, <2>5, <2>6, Zenon DEF RingLine
<1> QED
  BY <1>2, <1>3, Zenon

\* RemoveWhere clears slots and keeps their seqs.
LEMMA RemoveLine ==
    ASSUME NEW w \in Seq(Entry), NEW n \in Nat, RingLine(w, n), NEW drop
    PROVE  RingLine(RemoveWhere(w, drop), n)
<1> DEFINE a == RemoveWhere(w, drop)
<1>1. a = [i \in 1..Len(w) |-> Cleared(w[i], drop)] /\ Len(w) \in Nat
  BY DEF RemoveWhere
<1>2. Len(a) = Len(w) /\ \A i \in 1..Len(w) : a[i] = Cleared(w[i], drop)
  BY <1>1
<1>3. \A e : Cleared(e, drop).seq = e.seq
  BY Zenon DEF Cleared
<1> HIDE DEF a
<1> QED
  BY <1>2, <1>3, Zenon DEF RingLine, a

-----------------------------------------------------------------------------
(* What the other steps do to frames and purges, and what that leaves true.  *)

\* The line goes on, new rows were pending, and nothing that names a shut
\* subject comes into ring or persister.
Flow ==
    /\ seq' \in Nat /\ seq <= seq' /\ LineGood'
    /\ \A f \in rows' : f \in rows \/ (pend # <<>> /\ f = pend[1])
    /\ \A fs \in SUBSET Entry : Below(fs, seq, pend) => Below(fs, seq', pend')
    /\ \A s \in Subjects : Shut(s) =>
         /\ Free(ring, s) => Free(ring', s)
         /\ \A m : Early(pend, s, m) => Early(pend', s, m)

\* A shut subject stays shut, and cold reads stay off until its rows are gone.
Guarded ==
    /\ LockGood'
    /\ \A s \in Subjects : (Shut(s) => Shut(s)') /\ (Settled(s) => Settled(s)')

\* A purge past its in-memory step was so before, or has just run it.
Fresh(s) == Closed(s)' /\ Settled(s)' /\ mark'[s] = seq' /\ (s \in users => seq' <= purgeW')
PutStep ==
    /\ purgeW' \in Nat /\ purgeW <= purgeW' /\ purgeW' <= seq'
    /\ \A s \in Subjects : Put(s)' => Fresh(s) \/ (Put(s) /\ mark'[s] = mark[s])

Goes == Flow /\ Guarded /\ PutStep /\ UNCHANGED <<users, reader, got>>

\* The invariant outlasts every step outside the resumes.
LEMMA GoesOK ==
    ASSUME IInv, SInv, Goes, IInv'
    PROVE  SInv'
<1>1. /\ LineGood' /\ LockGood' /\ PutStep /\ seq' \in Nat /\ seq <= seq'
      /\ UNCHANGED <<users, reader, got>>
  BY Zenon DEF Goes, Flow, Guarded
<1>2. seq \in Nat /\ mark \in [Subjects -> Nat] /\ pend \in Seq(Entry)
  BY Zenon DEF IInv, Types
<1>3. ASSUME NEW s \in Subjects, Closed(s) PROVE Closed(s)'
  BY <1>3, Zenon DEF Closed, Goes, Flow, Guarded
<1>4. ASSUME NEW s \in Subjects, Settled(s) PROVE Settled(s)'
  BY <1>4, Zenon DEF Goes, Guarded
<1>5. Upper(pend', seq') /\ Below(rows', seq', pend')
  BY <1>1, Zenon DEF IInv, PendGood, LineGood
<1>6. PutGood'
  <2> SUFFICES ASSUME NEW s \in Subjects, Put(s)'
               PROVE  /\ Closed(s)' /\ Settled(s)'
                      /\ Early(pend', s, mark'[s]) /\ Old(rows', s, mark'[s])
                      /\ mark'[s] <= seq' /\ (s \in users' => mark'[s] <= purgeW')
    BY <1>1, Zenon DEF PutGood, PutStep
  <2>1. CASE Fresh(s)
    <3>1. Closed(s)' /\ Settled(s)' /\ mark'[s] = seq' /\ (s \in users => seq' <= purgeW')
      BY <2>1, Zenon DEF Fresh
    <3>2. Early(pend', s, seq') /\ Old(rows', s, seq')
      BY <1>5, Zenon DEF Early, Old, Upper, Below
    <3> QED
      BY <1>1, <3>1, <3>2
  <2>2. CASE Put(s) /\ mark'[s] = mark[s]
    <3>1. /\ Closed(s) /\ Settled(s) /\ Early(pend, s, mark[s]) /\ Old(rows, s, mark[s])
          /\ mark[s] <= seq /\ (s \in users => mark[s] <= purgeW) /\ mark[s] \in Nat /\ purgeW \in Nat
      BY <1>2, <2>2, Zenon DEF PutGood, SInv
    <3>2. Early(pend', s, mark[s])
      BY <3>1, Zenon DEF Goes, Flow, Closed
    <3>3. Old(rows', s, mark[s])
      <4>1. \A f \in rows' : f \in rows \/ (pend # <<>> /\ f = pend[1])
        BY Zenon DEF Goes, Flow
      <4>2. pend # <<>> => 1 \in 1..Len(pend)
        BY <1>2
      <4> QED
        BY <3>1, <4>1, <4>2, Zenon DEF Old, Early
    <3>4. mark[s] <= seq' /\ (s \in users => mark[s] <= purgeW')
      BY <1>1, <1>2, <3>1 DEF PutStep
    <3> QED
      BY <1>1, <1>3, <1>4, <2>2, <3>1, <3>2, <3>3, <3>4, Zenon
  <2> QED
    BY <1>1, <2>1, <2>2, Zenon DEF PutStep
<1>7. ReaderGood'
  <2> SUFFICES ASSUME NEW r \in Readers
               PROVE  reader'[r] \in Resuming /\ BeforeGood(r)' /\ OwnRows(r)' /\ ColdRows(r)'
    BY Zenon DEF ReaderGood
  <2>1. /\ reader' = reader /\ reader[r] \in Resuming /\ BeforeGood(r) /\ OwnRows(r) /\ ColdRows(r)
        /\ reader[r].rows \in SUBSET Entry /\ reader[r].before \in SUBSET Subjects
    BY <1>1, Zenon DEF SInv, ReaderGood, Resuming
  <2>2. BeforeGood(r)'
    BY <1>3, <1>4, <2>1, Zenon DEF BeforeGood
  <2>3. Below(reader[r].rows, seq, pend) /\ Below(reader[r].rows, seq', pend')
    BY <2>1, Zenon DEF OwnRows, Goes, Flow
  <2>4. OwnRows(r)'
    <3>1. ASSUME NEW s \in Subjects, Put(s)' PROVE Old(reader[r].rows, s, mark'[s])
      <4>1. CASE Fresh(s)
        BY <2>3, <4>1, Zenon DEF Fresh, Below, Old
      <4>2. CASE Put(s) /\ mark'[s] = mark[s]
        BY <2>1, <4>2, Zenon DEF OwnRows
      <4> QED
        BY <1>1, <3>1, <4>1, <4>2, Zenon DEF PutStep
    <3> QED
      BY <2>1, <2>3, <3>1, Zenon DEF OwnRows
  <2>5. ASSUME NEW f \in rows', NEW g \in reader[r].rows, f.seq <= g.seq PROVE f \in rows
    <3>1. CASE pend # <<>> /\ f = pend[1]
      <4>1. 1 \in 1..Len(pend) /\ pend[1] \in Entry /\ g \in Entry
        BY <1>2, <2>1, <3>1
      <4>2. g.seq < f.seq
        BY <2>3, <3>1, <4>1, Zenon DEF Below
      <4> QED
        BY <2>5, <3>1, <4>1, <4>2, EntrySeq
    <3> QED
      BY <3>1, Zenon DEF Goes, Flow
  <2>6. ColdRows(r)'
    BY <2>1, <2>5, Zenon DEF ColdRows
  <2> QED
    BY <2>1, <2>2, <2>4, <2>6, Zenon
<1>8. (users \subseteq Subjects /\ DOMAIN reader = Readers /\ DOMAIN got = Readers)'
  BY <1>1, Zenon DEF SInv
<1>9. ServedComplete' /\ ServedCleanly'
  BY <1>1, Zenon DEF SInv, ServedComplete, ServedCleanly, ServedClean, ServedCleanAfter
<1> QED
  BY <1>1, <1>6, <1>7, <1>8, <1>9, Zenon DEF SInv

-----------------------------------------------------------------------------
(* The frames.                                                               *)

\* sequence moves the line by one frame, or by none.
LEMMA SequenceFlow ==
    ASSUME IInv, LineGood, NEW d \in Payloads, sequence(d), rows' = rows,
           \A s \in Subjects : Shut(s) => s # d \/ s \in DOMAIN tomb
    PROVE  Flow
<1>1. Types /\ PendGood /\ seq \in Nat /\ ring \in Seq(Entry) /\ pend \in Seq(Entry)
  BY Zenon DEF IInv, Types
<1>2. /\ RingLine(ring, seq) /\ Rising(pend)
      /\ rows \subseteq Entry /\ Distinct(rows) /\ Below(rows, seq, pend)
  BY Zenon DEF LineGood
<1>3. \A s \in Subjects : Shut(s) =>
         /\ Free(ring, s) => Free(ring', s)
         /\ \A m : Early(pend, s, m) => Early(pend', s, m)
  BY <1>1, SequenceOK, Zenon
<1>4. \A f \in rows' : f \in rows \/ (pend # <<>> /\ f = pend[1])
  BY Zenon
<1>5. CASE d \in DOMAIN tomb
  <2>1. UNCHANGED <<seq, ring, pend>>
    BY <1>5, Zenon DEF sequence, dropsForTombstones
  <2> QED
    BY <1>1, <1>2, <1>3, <1>4, <2>1 DEF Flow, LineGood
<1>6. CASE d \notin DOMAIN tomb
  <2> DEFINE e == Frame(seq + 1, d)
             v == Append(pend, e)
  <2>1. e \in Entry /\ e.seq = seq + 1
    BY <1>1, SubjectFacts
  <2>2. seq' = seq + 1 /\ ring' = PushEntry(ring, e) /\ pend' = v
    BY <1>6, Zenon DEF sequence, dropsForTombstones
  <2> HIDE DEF e
  <2>3. /\ Len(v) = Len(pend) + 1 /\ Len(pend) \in Nat /\ v[Len(pend) + 1] = e
        /\ \A i \in 1..Len(pend) : v[i] = pend[i]
    BY <1>1, <2>1
  <2> HIDE DEF v
  <2>4. \A i \in 1..Len(v) : i \in 1..Len(pend) \/ i = Len(pend) + 1
    BY <2>3
  <2>5. \A i \in 1..Len(pend) : pend[i].seq <= seq /\ pend[i].seq \in Nat
    <3>1. \A i \in 1..Len(pend) : pend[i] \in Entry
      BY <1>1
    <3> QED
      BY <1>1, <3>1, EntrySeq, Zenon DEF PendGood, Upper
  <2>6. RingLine(ring', seq')
    BY <1>1, <1>2, <2>1, <2>2, PushLine, Zenon
  <2>7. Rising(pend')
    <3> SUFFICES ASSUME NEW i \in 1..Len(v), NEW j \in 1..Len(v), i < j
                 PROVE  v[i].seq < v[j].seq
      BY <2>2, Zenon DEF Rising
    <3>1. i \in 1..Len(pend) /\ v[i] = pend[i]
      BY <2>3, <2>4
    <3>2. CASE j \in 1..Len(pend)
      BY <1>2, <2>3, <3>1, <3>2, Zenon DEF Rising
    <3>3. CASE j = Len(pend) + 1
      BY <1>1, <2>1, <2>3, <2>5, <3>1, <3>3
    <3> QED
      BY <2>4, <3>2, <3>3, Zenon
  <2>8. ASSUME NEW fs \in SUBSET Entry, Below(fs, seq, pend) PROVE Below(fs, seq', pend')
    <3> SUFFICES ASSUME NEW f \in fs
                 PROVE  f.seq <= seq + 1 /\ \A i \in 1..Len(v) : f.seq < v[i].seq
      BY <2>2, Zenon DEF Below
    <3>1. f.seq \in Nat /\ f.seq <= seq /\ \A i \in 1..Len(pend) : f.seq < pend[i].seq
      BY <2>8, EntrySeq, Zenon DEF Below
    <3> DEFINE n == f.seq
    <3> HIDE DEF n
    <3>2. n <= seq + 1 /\ n < seq + 1
      <4>1. n \in Nat /\ n <= seq
        BY <3>1, Zenon DEF n
      <4> QED
        BY <1>1, <4>1
    <3>3. ASSUME NEW i \in 1..Len(v) PROVE n < v[i].seq
      <4>1. CASE i \in 1..Len(pend)
        BY <2>3, <3>1, <4>1, Zenon DEF n
      <4>2. CASE i = Len(pend) + 1
        BY <2>1, <2>3, <3>2, <4>2, Zenon
      <4> QED
        BY <2>4, <4>1, <4>2, Zenon
    <3> QED
      BY <3>2, <3>3, Zenon DEF n
  <2>9. LineGood'
    BY <1>2, <2>6, <2>7, <2>8, Zenon DEF LineGood
  <2> QED
    BY <1>1, <1>3, <1>4, <2>2, <2>8, <2>9 DEF Flow
<1> QED
  BY <1>5, <1>6, Zenon

\* The persister's write moves its oldest frame into the table, where it is the
\* youngest row.
LEMMA PersistFlow ==
    ASSUME IInv, LineGood, NEW lost \in BOOLEAN, persist(lost)
    PROVE  Flow
<1> DEFINE t == Tail(pend)
           h == Head(pend)
<1> pend \in Seq(Entry) /\ pend # <<>> /\ seq \in Nat
  BY Zenon DEF IInv, Types, persist
<1>1. pend' = t /\ seq' = seq /\ ring' = ring /\ rows' = IF lost THEN rows ELSE rows \cup {h}
  BY Zenon DEF persist
<1>2. /\ 1 \in 1..Len(pend) /\ h = pend[1] /\ h \in Entry
      /\ Len(t) \in Nat /\ \A i \in 1..Len(t) : t[i] = pend[i + 1] /\ i + 1 \in 1..Len(pend)
  OBVIOUS
<1> HIDE DEF t, h
<1>3. h.seq \in Nat /\ h.seq <= seq
  BY <1>2, EntrySeq, Zenon DEF IInv, PendGood, Upper
<1>4. \A i, j \in 1..Len(t) : i + 1 \in 1..Len(pend) /\ 1 < i + 1 /\ (i < j => i + 1 < j + 1)
  BY <1>2
<1>5. (\A i \in 1..Len(t) : h.seq < t[i].seq) /\ Rising(t)
  BY <1>2, <1>4, Zenon DEF LineGood, Rising
<1>6. \A fs \in SUBSET Entry : Below(fs, seq, pend) => Below(fs, seq, t)
  BY <1>2, Zenon DEF Below
<1>7. rows \subseteq Entry /\ Below(rows, seq, t) /\ \A f \in rows : f.seq < h.seq /\ f.seq \in Nat
  BY <1>2, <1>6, EntrySeq, Zenon DEF LineGood, Below
<1>8. \A f \in rows' : f \in rows \/ f = h
  BY <1>1, Zenon
<1>9. rows' \subseteq Entry /\ Below(rows', seq, t)
  BY <1>2, <1>3, <1>5, <1>7, <1>8, Zenon DEF Below
<1>10. Distinct(rows')
  BY <1>3, <1>7, <1>8 DEF LineGood, Distinct
<1>11. LineGood'
  BY <1>1, <1>5, <1>9, <1>10, Zenon DEF LineGood
<1>12. \A s, m : Early(pend, s, m) => Early(t, s, m)
  BY <1>2, Zenon DEF Early
<1> QED
  BY <1>1, <1>2, <1>6, <1>8, <1>11, <1>12 DEF Flow

\* A step that only takes rows away.
LEMMA StillFlow ==
    ASSUME IInv, LineGood, UNCHANGED <<seq, ring, pend>>, rows' \subseteq rows
    PROVE  Flow
<1>1. seq \in Nat
  BY Zenon DEF IInv, Types
<1>2. LineGood'
  BY Zenon DEF LineGood, Distinct, Below
<1> QED
  BY <1>1, <1>2 DEF Flow

\* RemoveWhere clears slots of the ring.
LEMMA InstallFlow ==
    ASSUME IInv, LineGood, NEW s \in Subjects, installAndDrop(s)
    PROVE  Flow
<1>1. seq \in Nat /\ ring \in Seq(Entry) /\ ring' = RemoveWhere(ring, {s}) /\ UNCHANGED <<seq, pend, rows>>
  BY Zenon DEF IInv, Types, installAndDrop
<1>2. LineGood'
  <2>1. RingLine(ring', seq)
    BY <1>1, RemoveLine, Zenon DEF LineGood
  <2> QED
    BY <1>1, <2>1, Zenon DEF LineGood
<1>3. \A t \in Subjects : Free(ring, t) => Free(ring', t)
  BY <1>1, RemoveFree, Zenon
<1>4. seq' \in Nat /\ seq <= seq' /\ rows' = rows /\ pend' = pend
  BY <1>1
<1>5. \A fs \in SUBSET Entry : Below(fs, seq, pend) => Below(fs, seq', pend')
  BY <1>1, Zenon
<1>6. \A t, m : Early(pend, t, m) => Early(pend', t, m)
  BY <1>1, Zenon
<1> QED
  BY <1>2, <1>3, <1>4, <1>5, <1>6, Zenon DEF Flow

-----------------------------------------------------------------------------
(* The purges.                                                               *)

Critical == {"locked", "flush", "delete"}

\* Steps in which no purge moves: producers, dispatch of a frame, the persister.
LEMMA SameKeeps ==
    ASSUME IInv, LockGood, PutGood, seq' \in Nat, seq <= seq',
           UNCHANGED <<purge, tomb, mark, purgeW, holder, unfinished>>, spent \subseteq spent',
           \A s \in Subjects : s \in spent' => s \in spent \/ purge[s].pc # "idle",
           \A s \in spent : Quiet(queue, s) => Quiet(queue', s)
    PROVE  Guarded /\ PutStep
<1>1. LockGood'
  BY Zenon DEF LockGood
<1>2. \A s \in Subjects : (Shut(s) => Shut(s)') /\ (Settled(s) => Settled(s)')
  BY Zenon DEF Shut, Settled
<1>3. PutStep
  <2>1. seq \in Nat /\ purgeW \in Nat /\ purgeW <= seq
    BY Zenon DEF IInv, Types, PutGood
  <2> QED
    BY <2>1 DEF PutStep, Put
<1> QED
  BY <1>1, <1>2, <1>3, Zenon DEF Guarded

\* Steps in which the purge of s goes to p.
LEMMA MoveKeeps ==
    ASSUME IInv, LockGood, PutGood, NEW s \in Subjects, NEW p \in Places \ {"idle"}, Moved(s, p),
           UNCHANGED <<seq, tomb, spent, mark, purgeW>>,
           \A t \in spent : Quiet(queue, t) => Quiet(queue', t),
           p \in Past => purge[s].pc \in Past,
           purge[s].pc \in Past => p \in Past \/ s \in unfinished',
           p \notin Past /\ s \in unfinished => s \in unfinished',
           \A t \in Subjects \ {s} : t \in unfinished => t \in unfinished',
           \/ holder' = holder
           \/ holder = NoOne /\ holder' = s
           \/ purge[s].pc \in Critical,
           p \in Critical => holder' = s
    PROVE  Guarded /\ PutStep
<1>1. \A t \in Subjects : purge'[t].pc = IF t = s THEN p ELSE purge[t].pc
  BY Zenon DEF Moved
<1>2. LockGood'
  <2>1. \A t \in Subjects : purge'[t].pc = "idle" => t \notin spent'
    BY <1>1, Zenon DEF LockGood
  <2>2. ASSUME NEW t \in Subjects, purge'[t].pc \in Critical PROVE holder' = t
    <3>1. CASE t = s
      BY <1>1, <2>2, <3>1, Zenon
    <3>2. CASE t # s
      <4>1. purge[t].pc \in Critical
        BY <1>1, <2>2, <3>2, Zenon
      <4>2. holder = t /\ t # NoOne
        BY <4>1, NoOneAssumption, Zenon DEF LockGood, Critical
      <4>3. purge[s].pc \notin Critical
        BY <3>2, <4>2, Zenon DEF LockGood, Critical
      <4> QED
        BY <4>2, <4>3, Zenon
    <3> QED
      BY <3>1, <3>2, Zenon
  <2> QED
    BY <2>1, <2>2, Zenon DEF LockGood, Critical
<1>3. ASSUME NEW t \in Subjects PROVE Shut(t) => Shut(t)'
  BY Zenon DEF Shut
<1>4. ASSUME NEW t \in Subjects, Settled(t) PROVE Settled(t)'
  <2>1. CASE t = s
    BY <1>1, <1>4, <2>1, Zenon DEF Settled
  <2>2. CASE t # s
    BY <1>1, <1>4, <2>2, Zenon DEF Settled
  <2> QED
    BY <2>1, <2>2, Zenon
<1>5. PutStep
  <2>1. seq \in Nat /\ purgeW \in Nat /\ purgeW <= seq
    BY Zenon DEF IInv, Types, PutGood
  <2>2. ASSUME NEW t \in Subjects, Put(t)' PROVE Put(t)
    BY <1>1, <2>2, Zenon DEF Put
  <2> QED
    BY <2>1, <2>2 DEF PutStep
<1> QED
  BY <1>2, <1>3, <1>4, <1>5, Zenon DEF Guarded

\* The in-memory step of a purge: tombstone, watermark, ring.
LEMMA InstallKeeps ==
    ASSUME IInv, LockGood, PutGood, NEW s \in Subjects, installAndDrop(s)
    PROVE  Guarded /\ PutStep
<1>1. /\ purge[s].pc = "locked" /\ DOMAIN tomb' = DOMAIN tomb \cup {s}
      /\ purgeW' = BumpedPurge(s) /\ ring' = RemoveWhere(ring, {s})
      /\ mark' = [mark EXCEPT ![s] = seq] /\ Go(s, "flush")
      /\ UNCHANGED <<queue, seq, pend, rows, users, holder, unfinished, spent>>
  BY Zenon DEF installAndDrop
<1>2. Types /\ seq \in Nat /\ ring \in Seq(Entry) /\ mark \in [Subjects -> Nat]
  BY Zenon DEF IInv, Types
<1>3. \A t \in Subjects : purge'[t].pc = IF t = s THEN "flush" ELSE purge[t].pc
  <2>1. "flush" \in Places
    BY Zenon DEF Places
  <2> QED
    BY <1>1, <1>2, <2>1, GoMoves, Zenon DEF Moved
<1>4. LockGood'
  <2>1. \A t \in Subjects : purge'[t].pc = "idle" => t \notin spent'
    BY <1>1, <1>3, Zenon DEF LockGood
  <2>2. \A t \in Subjects : purge'[t].pc \in {"locked", "flush", "delete"} => holder' = t
    BY <1>1, <1>3, Zenon DEF LockGood
  <2> QED
    BY <2>1, <2>2, Zenon DEF LockGood
<1>5. ASSUME NEW t \in Subjects PROVE Shut(t) => Shut(t)'
  BY <1>1, Zenon DEF Shut
<1>6. ASSUME NEW t \in Subjects PROVE Settled(t) => Settled(t)'
  BY <1>1, <1>3, Zenon DEF Settled, Past
<1>7. purgeW \in Nat /\ purgeW <= seq /\ purgeW' = IF s \in users THEN seq ELSE purgeW
  BY <1>1, Zenon DEF PutGood, BumpedPurge
<1>8. Fresh(s)
  <2>1. Free(ring', s)
    BY <1>1, <1>2, RemoveFree, Zenon
  <2>2. Closed(s)'
    BY <1>1, <2>1, Zenon DEF Closed, Shut
  <2>3. Settled(s)'
    BY <1>3, Zenon DEF Settled, Past
  <2>4. mark'[s] = seq'
    BY <1>1, <1>2, Zenon
  <2> QED
    BY <1>1, <1>2, <1>7, <2>2, <2>3, <2>4 DEF Fresh
<1>9. ASSUME NEW t \in Subjects, t # s, Put(t)' PROVE Put(t) /\ mark'[t] = mark[t]
  BY <1>1, <1>2, <1>3, <1>9, Zenon DEF Put
<1>10. Guarded
  BY <1>4, <1>5, <1>6, Zenon DEF Guarded
<1>11. purgeW' \in Nat /\ purgeW <= purgeW' /\ purgeW' <= seq'
  <2>1. seq' = seq
    BY <1>1, Zenon
  <2> QED
    BY <1>2, <1>7, <2>1
<1>12. PutStep
  BY <1>8, <1>9, <1>11, Zenon DEF PutStep
<1> QED
  BY <1>10, <1>12, Zenon

\* expireReplayTombstones takes only subjects of which nothing is left to come.
LEMMA ExpireKeeps ==
    ASSUME IInv, LockGood, PutGood, expire
    PROVE  Guarded /\ PutStep
<1>1. /\ DOMAIN tomb' = {t \in DOMAIN tomb : \A i \in Expired : ~Takes(batches[i], t)}
      /\ UNCHANGED <<queue, seq, purgeW, holder, unfinished, purge, mark, spent>>
  BY Zenon DEF expire, pipeline
<1>2. ASSUME NEW s \in Subjects, Shut(s) PROVE Shut(s)'
  <2>1. CASE s \in DOMAIN tomb /\ s \notin DOMAIN tomb'
    <3>1. PICK i \in Expired : Takes(batches[i], s)
      BY <1>1, <2>1, Zenon
    <3>2. i \in 1..i
      BY <3>1 DEF Expired, IInv, Types
    <3>3. Aged(batches[i]) /\ batches[i].of = s
      BY <3>1, <3>2, Zenon DEF Expired, Takes
    <3> QED
      BY <1>1, <3>3, Zenon DEF Aged, Shut, Quiet
  <2>2. CASE s \notin DOMAIN tomb \/ s \in DOMAIN tomb'
    BY <1>1, <1>2, <2>2, Zenon DEF Shut
  <2> QED
    BY <2>1, <2>2, Zenon
<1>3. LockGood' /\ \A s \in Subjects : Settled(s) => Settled(s)'
  BY <1>1, Zenon DEF LockGood, Settled
<1>4. PutStep
  <2>1. seq \in Nat /\ purgeW \in Nat /\ purgeW <= seq
    BY Zenon DEF IInv, Types, PutGood
  <2> QED
    BY <1>1, <2>1 DEF PutStep, Put
<1> QED
  BY <1>2, <1>3, <1>4, Zenon DEF Guarded

-----------------------------------------------------------------------------
(* Every step outside the resumes does both.                                 *)

\* A producer queues a frame of a subject it still may hold rows of.
LEMMA ProduceGoes ==
    ASSUME IInv, LineGood, LockGood, PutGood, NEW d \in Payloads, produce(d)
    PROVE  Goes
<1>1. /\ d \notin spent /\ queue' = Append(queue, Named(d))
      /\ UNCHANGED <<seq, ring, pend, rows, users, purgeW, tomb, holder, unfinished, purge, mark, spent, reader, got>>
  BY Zenon DEF produce, purging, reading
<1>2. queue \in Seq(Item) /\ seq \in Nat
  BY Zenon DEF IInv, Types
<1>3. Named(d) \in Item /\ Named(d).of = d
  BY Zenon DEF Named, Item
<1>4. \A s \in spent : Quiet(queue, s) => Quiet(queue', s)
  BY <1>1, <1>2, <1>3, AppendItem, Zenon
<1>5. Guarded /\ PutStep
  BY <1>1, <1>2, <1>4, SameKeeps
<1>6. Flow
  BY <1>1, StillFlow, Zenon
<1> QED
  BY <1>1, <1>5, <1>6, Zenon DEF Goes

\* sendSequencedToUsers sequences a frame past the queue.
LEMMA SendGoes ==
    ASSUME IInv, LineGood, LockGood, PutGood, NEW d \in Payloads, sendSequencedToUsers(d)
    PROVE  Goes
<1>1. /\ d \notin spent /\ sequence(d)
      /\ UNCHANGED <<queue, rows, users, purgeW, tomb, holder, unfinished, purge, mark, spent, reader, got>>
  BY Zenon DEF sendSequencedToUsers, purging, reading
<1>2. Flow
  <2>1. \A s \in Subjects : Shut(s) => s # d \/ s \in DOMAIN tomb
    BY <1>1, Zenon DEF Shut
  <2> QED
    BY <1>1, <2>1, SequenceFlow, Zenon
<1>3. seq' \in Nat /\ seq <= seq'
  BY <1>2, Zenon DEF Flow
<1>4. Guarded /\ PutStep
  BY <1>1, <1>3, SameKeeps, Zenon
<1> QED
  BY <1>1, <1>2, <1>4, Zenon DEF Goes

\* dispatch sequences the queue's first frame or answers its first barrier.
LEMMA DispatchGoes ==
    ASSUME IInv, LineGood, LockGood, PutGood, dispatch
    PROVE  Goes
<1> DEFINE e == Head(queue)
<1>1. /\ queue # <<>> /\ queue' = Tail(queue)
      /\ UNCHANGED <<rows, users, purgeW, tomb, holder, unfinished, mark, spent, reader, got>>
  BY Zenon DEF dispatch, reading
<1>2. Types /\ queue \in Seq(Item) /\ seq \in Nat
  BY Zenon DEF IInv, Types
<1>3. e \in Item /\ \A s : Quiet(queue, s) => Quiet(queue', s) /\ (e.of = s => e.type = "barrier")
  BY <1>1, <1>2, TailItem, Zenon
<1>4. CASE e.type = "barrier"
  <2>1. /\ purge' = IF purge[e.of] = [pc |-> "await", n |-> e.n]
                    THEN [purge EXCEPT ![e.of].pc = "lock"] ELSE purge
        /\ UNCHANGED <<seq, ring, pend>>
    BY <1>4, Zenon DEF dispatch
  <2>2. e.of \in Subjects
    BY <1>3, <1>4, Zenon DEF Item
  <2> HIDE DEF e
  <2>3. Flow
    BY <1>1, <2>1, StillFlow, Zenon
  <2>4. CASE purge[e.of] = [pc |-> "await", n |-> e.n]
    <3> DEFINE s == e.of
    <3>1. Go(s, "lock") /\ purge[s].pc = "await"
      BY <2>1, <2>4 DEF Go
    <3> HIDE DEF s
    <3>2. s \in Subjects /\ "lock" \in Places \ {"idle"} /\ "lock" \notin Past /\ "lock" \notin Critical
      BY <2>2, Zenon DEF s, Places, Past, Critical
    <3>3. Moved(s, "lock")
      BY <1>2, <3>1, <3>2, GoMoves, Zenon
    <3>4. purge[s].pc \notin Past
      BY <3>1, Zenon DEF Past
    <3>5. Guarded /\ PutStep
      BY <1>1, <1>3, <2>1, <3>2, <3>3, <3>4, MoveKeeps, Zenon
    <3> QED
      BY <1>1, <2>3, <3>5, Zenon DEF Goes
  <2>5. CASE purge[e.of] # [pc |-> "await", n |-> e.n]
    <3>1. purge' = purge
      BY <2>1, <2>5, Zenon
    <3>2. Guarded /\ PutStep
      BY <1>1, <1>2, <1>3, <2>1, <3>1, SameKeeps
    <3> QED
      BY <1>1, <2>3, <3>2, Zenon DEF Goes
  <2> QED
    BY <2>4, <2>5, Zenon
<1>5. CASE e.type # "barrier"
  <2>1. sequence(e.of) /\ purge' = purge
    BY <1>5, Zenon DEF dispatch
  <2>2. e.of \in Payloads
    BY <1>3, SubjectFacts, Zenon DEF Item
  <2> HIDE DEF e
  <2>3. \A s \in Subjects : Shut(s) => s # e.of \/ s \in DOMAIN tomb
    BY <1>3, <1>5, Zenon DEF Shut
  <2>4. Flow
    BY <1>1, <2>1, <2>2, <2>3, SequenceFlow, Zenon
  <2>5. seq' \in Nat /\ seq <= seq'
    BY <2>4, Zenon DEF Flow
  <2>6. Guarded /\ PutStep
    BY <1>1, <1>3, <2>1, <2>5, SameKeeps, Zenon
  <2> QED
    BY <1>1, <2>4, <2>6, Zenon DEF Goes
<1> QED
  BY <1>4, <1>5, Zenon

\* The persister writes or loses a frame.
LEMMA PersistGoes ==
    ASSUME IInv, LineGood, LockGood, PutGood, NEW lost \in BOOLEAN, persist(lost)
    PROVE  Goes
<1>1. UNCHANGED <<queue, seq, users, purgeW, tomb, holder, unfinished, purge, mark, spent, reader, got>>
  BY Zenon DEF persist, purging, reading
<1>2. seq \in Nat
  BY Zenon DEF IInv, Types
<1>3. Guarded /\ PutStep
  BY <1>1, <1>2, SameKeeps
<1> QED
  BY <1>1, <1>3, PersistFlow, Zenon DEF Goes

\* The last producer that held rows of s is done.
LEMMA ProducersDoneGoes ==
    ASSUME IInv, LineGood, LockGood, PutGood, NEW s \in Subjects, producersDone(s)
    PROVE  Goes
<1>1. /\ purge[s].pc # "idle" /\ spent' = spent \cup {s}
      /\ UNCHANGED <<queue, seq, ring, pend, rows, users, purgeW, tomb, holder, unfinished, purge, mark, reader, got>>
  BY Zenon DEF producersDone, pipeline, reading
<1>2. seq \in Nat
  BY Zenon DEF IInv, Types
<1>3. Guarded /\ PutStep
  BY <1>1, <1>2, SameKeeps
<1> QED
  BY <1>1, <1>3, StillFlow, Zenon DEF Goes

\* expireReplayTombstones.
LEMMA ExpireGoes ==
    ASSUME IInv, LineGood, LockGood, PutGood, expire
    PROVE  Goes
<1>1. UNCHANGED <<seq, ring, pend, rows, users, reader, got>>
  BY Zenon DEF expire, pipeline, reading
<1> QED
  BY <1>1, ExpireKeeps, StillFlow, Zenon DEF Goes

\* finishErasure's member_ban, and the barrier of an attempt.
LEMMA QueueGoes ==
    ASSUME IInv, LineGood, LockGood, PutGood, NEW s \in Subjects, BroadcastMemberBan(s) \/ awaitDispatch(s)
    PROVE  Goes
<1>1. Types /\ queue \in Seq(Item) /\ seq \in Nat /\ purge \in [Subjects -> [pc : Places, n : Nat]]
  BY Zenon DEF IInv, Types
<1>2. UNCHANGED <<seq, ring, pend, rows, users, purgeW, tomb, holder, unfinished, mark, spent, reader, got>>
  BY Zenon DEF BroadcastMemberBan, awaitDispatch, reading
<1>3. Flow
  BY <1>2, StillFlow, Zenon
<1>4. CASE BroadcastMemberBan(s)
  <2>1. purge[s].pc = "idle" /\ queue' = Append(queue, Ban(s)) /\ Go(s, "begun")
    BY <1>4, Zenon DEF BroadcastMemberBan
  <2>2. "begun" \in Places \ {"idle"} /\ "begun" \notin Past /\ "begun" \notin Critical /\ purge[s].pc \notin Past
    BY <2>1, Zenon DEF Places, Past, Critical
  <2>3. Moved(s, "begun")
    BY <1>1, <2>1, <2>2, GoMoves, Zenon
  <2>4. s \notin spent
    BY <2>1, Zenon DEF LockGood
  <2>5. Ban(s) \in Item /\ Ban(s).of = s
    BY Zenon DEF Ban, Item
  <2>6. \A t \in spent : Quiet(queue, t) => Quiet(queue', t)
    BY <1>1, <2>1, <2>4, <2>5, AppendItem, Zenon
  <2> QED
    BY <1>2, <1>3, <2>2, <2>3, <2>6, MoveKeeps, Zenon DEF Goes
<1>5. CASE awaitDispatch(s)
  <2>1. /\ purge[s].pc \in {"begun", "idle", "failed"} /\ queue' = Append(queue, Barrier(s, purge[s].n + 1))
        /\ purge' = [purge EXCEPT ![s] = [pc |-> "await", n |-> @.n + 1]]
    BY <1>5, Zenon DEF awaitDispatch
  <2>2. "await" \in Places \ {"idle"} /\ "await" \notin Past /\ "await" \notin Critical /\ purge[s].pc \notin Past
    BY <2>1, Zenon DEF Places, Past, Critical
  <2>3. Moved(s, "await")
    BY <1>1, <2>1, <2>2 DEF Moved
  <2>4. Barrier(s, purge[s].n + 1) \in Item /\ Barrier(s, purge[s].n + 1).type = "barrier"
    BY <1>1 DEF Barrier, Item
  <2>5. \A t \in spent : Quiet(queue, t) => Quiet(queue', t)
    BY <1>1, <2>1, <2>4, AppendItem, Zenon
  <2> QED
    BY <1>2, <1>3, <2>2, <2>3, <2>5, MoveKeeps, Zenon DEF Goes
<1> QED
  BY <1>4, <1>5, Zenon

\* The purge takes the lock, gives up before it, or passes the persister's barrier.
LEMMA WaitGoes ==
    ASSUME IInv, LineGood, LockGood, PutGood, NEW s \in Subjects, lock(s) \/ giveUp(s) \/ flushReturns(s)
    PROVE  Goes
<1>1. Types
  BY Zenon DEF IInv
<1>2. UNCHANGED <<queue, seq, ring, pend, rows, users, purgeW, tomb, unfinished, mark, spent, reader, got>>
  BY Zenon DEF lock, giveUp, flushReturns, pipeline, reading
<1>3. Flow
  BY <1>2, StillFlow, Zenon
<1>4. CASE lock(s)
  <2>1. purge[s].pc = "lock" /\ holder = NoOne /\ holder' = s /\ Go(s, "locked")
    BY <1>4, Zenon DEF lock
  <2>2. "locked" \in Places \ {"idle"} /\ "locked" \notin Past /\ purge[s].pc \notin Past
    BY <2>1, Zenon DEF Places, Past
  <2>3. Moved(s, "locked")
    BY <1>1, <2>1, <2>2, GoMoves, Zenon
  <2> QED
    BY <1>2, <1>3, <2>1, <2>2, <2>3, MoveKeeps, Zenon DEF Goes
<1>5. CASE giveUp(s)
  <2>1. purge[s].pc \in {"await", "lock"} /\ holder' = holder /\ Go(s, "failed")
    BY <1>5, Zenon DEF giveUp
  <2>2. "failed" \in Places \ {"idle"} /\ "failed" \notin Past /\ "failed" \notin Critical /\ purge[s].pc \notin Past
    BY <2>1, Zenon DEF Places, Past, Critical
  <2>3. Moved(s, "failed")
    BY <1>1, <2>1, <2>2, GoMoves, Zenon
  <2> QED
    BY <1>2, <1>3, <2>1, <2>2, <2>3, MoveKeeps, Zenon DEF Goes
<1>6. CASE flushReturns(s)
  <2>1. purge[s].pc = "flush" /\ holder' = holder /\ Go(s, "delete")
    BY <1>6, Zenon DEF flushReturns
  <2>2. "delete" \in Places \ {"idle"} /\ "delete" \in Past /\ purge[s].pc \in Past
    BY <2>1, Zenon DEF Places, Past
  <2>3. Moved(s, "delete")
    BY <1>1, <2>1, <2>2, GoMoves, Zenon
  <2>4. holder' = s
    BY <2>1, Zenon DEF LockGood
  <2> QED
    BY <1>2, <1>3, <2>1, <2>2, <2>3, <2>4, MoveKeeps, Zenon DEF Goes
<1> QED
  BY <1>4, <1>5, <1>6, Zenon

\* The purge fails under its lock, or deletes the rows: settlePurge, unlock.
LEMMA SettleGoes ==
    ASSUME IInv, LineGood, LockGood, PutGood, NEW s \in Subjects, purgeFails(s) \/ deleteRows(s)
    PROVE  Goes
<1>1. Types
  BY Zenon DEF IInv
<1>2. UNCHANGED <<queue, seq, ring, pend, users, purgeW, tomb, mark, spent, reader, got>>
  BY Zenon DEF purgeFails, deleteRows, pipeline, reading
<1>3. rows' \subseteq rows
  BY Zenon DEF purgeFails, deleteRows, pipeline
<1>4. Flow
  BY <1>2, <1>3, StillFlow, Zenon
<1>5. CASE purgeFails(s)
  <2>1. purge[s].pc \in {"flush", "delete"} /\ unfinished' = unfinished \cup {s} /\ Go(s, "failed")
    BY <1>5, Zenon DEF purgeFails
  <2>2. "failed" \in Places \ {"idle"} /\ "failed" \notin Past /\ "failed" \notin Critical /\ purge[s].pc \in Critical
    BY <2>1, Zenon DEF Places, Past, Critical
  <2>3. Moved(s, "failed")
    BY <1>1, <2>1, <2>2, GoMoves, Zenon
  <2> QED
    BY <1>2, <1>4, <2>1, <2>2, <2>3, MoveKeeps, Zenon DEF Goes
<1>6. CASE deleteRows(s)
  <2>1. purge[s].pc = "delete" /\ unfinished' = unfinished \ {s} /\ Go(s, "done")
    BY <1>6, Zenon DEF deleteRows
  <2>2. /\ "done" \in Places \ {"idle"} /\ "done" \in Past /\ "done" \notin Critical
        /\ purge[s].pc \in Critical /\ purge[s].pc \in Past
    BY <2>1, Zenon DEF Places, Past, Critical
  <2>3. Moved(s, "done")
    BY <1>1, <2>1, <2>2, GoMoves, Zenon
  <2> QED
    BY <1>2, <1>4, <2>1, <2>2, <2>3, MoveKeeps, Zenon DEF Goes
<1> QED
  BY <1>5, <1>6, Zenon

\* The in-memory step.
LEMMA InstallGoes ==
    ASSUME IInv, LineGood, LockGood, PutGood, NEW s \in Subjects, installAndDrop(s)
    PROVE  Goes
<1>1. UNCHANGED <<users, reader, got>>
  BY Zenon DEF installAndDrop, reading
<1> QED
  BY <1>1, InstallFlow, InstallKeeps, Zenon DEF Goes

-----------------------------------------------------------------------------
(* Every action keeps the invariant.                                         *)

\* The invariant of the state a process starts in.
LEMMA InitOK == Init => IInv
<1> SUFFICES ASSUME Init PROVE IInv
  BY Zenon
<1>1. /\ queue = <<>> /\ seq = 0 /\ ring = <<>> /\ pend = <<>> /\ rows = {} /\ tomb = <<>> /\ batches = <<>>
      /\ purge = [s \in Subjects |-> [pc |-> "idle", n |-> 0]]
      /\ mark = [s \in Subjects |-> 0] /\ ban = [s \in Subjects |-> "none"]
  BY Zenon DEF Init
<1>2. DOMAIN tomb = {}
  BY <1>1
<1>3. Len(queue) = 0 /\ Len(ring) = 0 /\ Len(pend) = 0
  BY <1>1, Zenon
<1>4. Types
  BY <1>1, <1>2 DEF Types, Places
<1>5. StepsGood /\ PendGood /\ TombGood
  BY <1>1, <1>2, <1>3 DEF StepsGood, PendGood, TombGood, Upper
<1>6. BanGood
  BY <1>1, <1>2, <1>3 DEF BanGood, NoBan, NoBarrier, BanFirst
<1> QED
  BY <1>4, <1>5, <1>6, Zenon DEF IInv

\* A producer queues a frame.
LEMMA ProduceOK ==
    ASSUME IInv, NEW d \in Payloads, produce(d)
    PROVE  IInv'
<1> DEFINE e == Named(d)
<1>1. /\ d \notin spent /\ queue' = Append(queue, e)
      /\ UNCHANGED <<seq, ring, pend, rows, tomb, batches, purge, mark, spent, ban>>
  BY Zenon DEF produce, purging
<1>2. e \in Item /\ e.of = d /\ e.type = "frame"
  BY Zenon DEF Named, Item
<1> HIDE DEF e
<1>3. queue \in Seq(Item)
  BY Zenon DEF IInv, Types
<1>4. Types'
  BY <1>1, <1>2, <1>3, AppendItem, Zenon DEF IInv, Types
<1>5. \A s : Quiet(queue, s) /\ s \in spent => Quiet(queue', s)
  BY <1>1, <1>2, <1>3, AppendItem, Zenon
<1>6. \A s \in Subjects : Shut(s) => Shut(s)'
  BY <1>1, <1>5, Zenon DEF Shut
<1>7. StepsGood' /\ PendGood' /\ TombGood'
  BY <1>1, <1>6, Zenon DEF IInv, StepsGood, PendGood, TombGood, Takes
<1>8. \A s : /\ NoBan(queue, s) => NoBan(queue', s)
             /\ NoBarrier(queue, s) => NoBarrier(queue', s)
             /\ BanFirst(queue, s) => BanFirst(queue', s)
  BY <1>1, <1>2, <1>3, AppendItem, Zenon
<1>9. BanGood'
  BY <1>1, <1>8, Zenon DEF IInv, BanGood
<1> QED
  BY <1>4, <1>7, <1>9, Zenon DEF IInv

\* The last producer of s is done: more is shut, never less.
LEMMA ProducersDoneOK ==
    ASSUME IInv, NEW s \in Subjects, producersDone(s)
    PROVE  IInv'
<1>1. /\ spent' = spent \cup {s}
      /\ UNCHANGED <<queue, seq, ring, pend, rows, tomb, batches, purge, mark, ban>>
  BY Zenon DEF producersDone, pipeline
<1>2. \A t \in Subjects : Shut(t) => Shut(t)'
  BY <1>1, Zenon DEF Shut
<1>3. StepsGood' /\ PendGood' /\ TombGood' /\ BanGood'
  BY <1>1, <1>2, Zenon DEF IInv, StepsGood, PendGood, TombGood, BanGood, Takes
<1>4. Types'
  BY <1>1, Zenon DEF IInv, Types
<1> QED
  BY <1>3, <1>4, Zenon DEF IInv

\* A frame sequenced past the queue.
LEMMA SendOK ==
    ASSUME IInv, NEW d \in Payloads, sendSequencedToUsers(d)
    PROVE  IInv'
<1>1. /\ d \notin spent /\ sequence(d)
      /\ UNCHANGED <<queue, rows, tomb, batches, purge, mark, spent, ban>>
  BY Zenon DEF sendSequencedToUsers, purging
<1>2. /\ seq' \in Nat /\ ring' \in Seq(Entry) /\ pend' \in Seq(Entry) /\ PendGood'
      /\ \A s \in Subjects : s # d \/ s \in DOMAIN tomb =>
           /\ Free(ring, s) => Free(ring', s)
           /\ Free(pend, s) => Free(pend', s)
           /\ \A m : Early(pend, s, m) => Early(pend', s, m)
  BY <1>1, SequenceOK, Zenon DEF IInv
<1>3. \A s \in Subjects : Shut(s) => Shut(s)' /\ (s # d \/ s \in DOMAIN tomb)
  BY <1>1, Zenon DEF Shut
<1>4. StepsGood'
  BY <1>1, <1>2, <1>3, Zenon DEF IInv, StepsGood
<1>5. TombGood' /\ BanGood'
  BY <1>1, Zenon DEF IInv, TombGood, BanGood, Takes
<1>6. Types'
  BY <1>1, <1>2, Zenon DEF IInv, Types
<1> QED
  BY <1>2, <1>4, <1>5, <1>6, Zenon DEF IInv

\* The dispatch goroutine takes an item: a barrier, or a frame to sequence.
LEMMA DispatchOK ==
    ASSUME IInv, dispatch
    PROVE  IInv'
<1> DEFINE e == Head(queue)
<1>1. /\ queue # <<>> /\ queue' = Tail(queue)
      /\ IF e.type = "barrier"
         THEN /\ purge' = IF purge[e.of] = [pc |-> "await", n |-> e.n]
                          THEN [purge EXCEPT ![e.of].pc = "lock"] ELSE purge
              /\ UNCHANGED <<seq, ring, pend, ban>>
         ELSE /\ sequence(e.of)
              /\ ban' = IF e.type # "ban" THEN ban
                        ELSE [ban EXCEPT ![e.of] = IF dropsForTombstones(e.of) THEN "dropped" ELSE "sequenced"]
              /\ UNCHANGED purge
      /\ UNCHANGED <<rows, tomb, batches, mark, spent>>
  BY Zenon DEF dispatch
<1>2. queue \in Seq(Item)
  BY Zenon DEF IInv, Types
<1>3. /\ queue' \in Seq(Item) /\ e \in Item
      /\ \A s : Quiet(queue, s) => Quiet(queue', s) /\ (e.of = s => e.type = "barrier")
      /\ \A s : NoBan(queue, s) => NoBan(queue', s) /\ (e.of = s => e.type # "ban")
      /\ \A s : NoBarrier(queue, s) => NoBarrier(queue', s) /\ (e.of = s => e.type # "barrier")
      /\ \A s : BanFirst(queue, s) => /\ BanFirst(queue', s)
                                      /\ e.of = s /\ e.type = "barrier" => NoBan(queue', s)
  BY <1>1, <1>2, TailItem, Zenon
<1> HIDE DEF e
<1>4. e.of \in Payloads /\ (e.type # "frame" => e.of \in Subjects)
  BY <1>3, SubjectFacts, Zenon DEF Item
<1>5. \A s \in Subjects : Shut(s) => Shut(s)'
  BY <1>1, <1>3, Zenon DEF Shut
<1>6. CASE e.type = "barrier"
  <2>1. UNCHANGED <<seq, ring, pend, ban, rows, tomb, batches, mark, spent>>
    BY <1>1, <1>6, Zenon
  <2>2. e.of \in Subjects
    BY <1>4, <1>6, Zenon
  <2>3. CASE purge' = purge
    <3>1. StepsGood' /\ PendGood' /\ TombGood'
      BY <1>5, <2>1, <2>3, Zenon DEF IInv, StepsGood, PendGood, TombGood, Takes
    <3>2. BanGood'
      BY <1>3, <2>1, <2>3, Zenon DEF IInv, BanGood
    <3>3. Types'
      BY <1>3, <2>1, <2>3, Zenon DEF IInv, Types
    <3> QED
      BY <3>1, <3>2, <3>3, Zenon DEF IInv
  <2>4. CASE purge[e.of] = [pc |-> "await", n |-> e.n] /\ Go(e.of, "lock")
    <3>1. Moved(e.of, "lock") /\ purge[e.of].pc = "await"
      BY <2>2, <2>4, GoMoves DEF IInv, Places
    <3>2. StepsGood' /\ PendGood' /\ TombGood'
      BY <1>5, <2>1, <3>1 DEF IInv, StepsGood, PendGood, TombGood, Takes, Moved
    <3>3. BanGood'
      BY <1>3, <1>6, <2>1, <3>1, Zenon DEF IInv, BanGood, Moved
    <3>4. Types'
      BY <1>3, <2>1, <3>1, Zenon DEF IInv, Types, Moved
    <3> QED
      BY <3>2, <3>3, <3>4, Zenon DEF IInv
  <2> QED
    BY <1>1, <1>6, <2>3, <2>4, Zenon DEF Go
<1>7. CASE e.type # "barrier"
  <2>1. sequence(e.of) /\ UNCHANGED <<purge, rows, tomb, batches, mark, spent>>
    BY <1>1, <1>7, Zenon
  <2>2. /\ seq' \in Nat /\ ring' \in Seq(Entry) /\ pend' \in Seq(Entry) /\ PendGood'
        /\ \A s \in Subjects : s # e.of \/ s \in DOMAIN tomb =>
             /\ Free(ring, s) => Free(ring', s)
             /\ Free(pend, s) => Free(pend', s)
             /\ \A m : Early(pend, s, m) => Early(pend', s, m)
    BY <1>4, <2>1, SequenceOK, Zenon DEF IInv
  <2>3. \A s \in Subjects : Shut(s) => s # e.of \/ s \in DOMAIN tomb
    BY <1>3, <1>7, Zenon DEF Shut
  <2>4. StepsGood'
    BY <1>5, <2>1, <2>2, <2>3, Zenon DEF IInv, StepsGood
  <2>5. TombGood'
    BY <2>1, Zenon DEF IInv, TombGood, Takes
  <2>6. e.type = "ban" => e.of \in Subjects /\ ~dropsForTombstones(e.of)
    BY <1>3, <1>4, Zenon DEF IInv, BanGood, Types, dropsForTombstones
  <2>7. ban' \in [Subjects -> {"none", "queued", "sequenced", "dropped"}] /\ \A s \in Subjects : ban'[s] # "dropped"
    <3>1. ban \in [Subjects -> {"none", "queued", "sequenced", "dropped"}] /\ \A s \in Subjects : ban[s] # "dropped"
      BY Zenon DEF IInv, Types, BanGood
    <3>2. ban' = ban \/ (e.of \in Subjects /\ ban' = [ban EXCEPT ![e.of] = "sequenced"])
      BY <1>1, <1>7, <2>6, Zenon
    <3> QED
      BY <3>1, <3>2, Zenon
  <2>8. BanGood'
    BY <1>3, <2>1, <2>7, Zenon DEF IInv, BanGood
  <2>9. Types'
    BY <1>3, <2>1, <2>2, <2>7, Zenon DEF IInv, Types
  <2> QED
    BY <2>2, <2>4, <2>5, <2>8, <2>9, Zenon DEF IInv
<1> QED
  BY <1>6, <1>7, Zenon

\* The persister writes or loses its oldest frame, which names no purged subject.
LEMMA PersistOK ==
    ASSUME IInv, NEW lost \in BOOLEAN, persist(lost)
    PROVE  IInv'
<1>1. /\ pend # <<>> /\ pend' = Tail(pend) /\ rows' \subseteq rows \cup {Head(pend)}
      /\ UNCHANGED <<queue, seq, ring, tomb, batches, purge, mark, spent, ban>>
  BY Zenon DEF persist, purging
<1>2. pend \in Seq(Entry)
  BY Zenon DEF IInv, Types
<1>3. /\ pend' \in Seq(Entry)
      /\ \A s : Free(pend, s) => Free(pend', s) /\ Head(pend).data # s
      /\ \A s, m : Early(pend, s, m) => Early(pend', s, m)
      /\ Upper(pend, seq) => Upper(pend', seq)
  BY <1>1, <1>2, TailFrame, Zenon
<1>4. \A s \in Subjects : Shut(s) => Shut(s)'
  BY <1>1, Zenon DEF Shut
<1>5. StepsGood'
  BY <1>1, <1>3, <1>4, Zenon DEF IInv, StepsGood
<1>6. PendGood' /\ TombGood' /\ BanGood'
  BY <1>1, <1>3, Zenon DEF IInv, PendGood, TombGood, BanGood, Takes
<1>7. Types'
  BY <1>1, <1>3, Zenon DEF IInv, Types
<1> QED
  BY <1>5, <1>6, <1>7, Zenon DEF IInv

\* The member_ban is queued while no purge of its subject has sent a barrier.
LEMMA BanOK ==
    ASSUME IInv, NEW s \in Subjects, BroadcastMemberBan(s)
    PROVE  IInv'
<1> DEFINE e == Ban(s)
<1>1. /\ purge[s].pc = "idle" /\ queue' = Append(queue, e) /\ ban' = [ban EXCEPT ![s] = "queued"] /\ Go(s, "begun")
      /\ UNCHANGED <<seq, ring, pend, rows, tomb, batches, mark, spent>>
  BY Zenon DEF BroadcastMemberBan
<1>2. e \in Item /\ e.of = s /\ e.type = "ban"
  BY Zenon DEF Ban, Item
<1> HIDE DEF e
<1>3. Moved(s, "begun")
  BY <1>1, GoMoves, Zenon DEF IInv, Places
<1>4. queue \in Seq(Item)
  BY Zenon DEF IInv, Types
<1>5. \A t : t # s => /\ Quiet(queue, t) => Quiet(queue', t)
                      /\ NoBan(queue, t) => NoBan(queue', t)
                      /\ NoBarrier(queue, t) => NoBarrier(queue', t)
                      /\ BanFirst(queue, t) => BanFirst(queue', t)
  BY <1>1, <1>2, <1>4, AppendItem, Zenon
<1>6. s \notin DOMAIN tomb /\ NoBarrier(queue, s) /\ BanFirst(queue', s)
  BY <1>1, <1>2, <1>4, AppendItem, Zenon DEF IInv, BanGood
<1>7. \A t \in Subjects \ {s} : Shut(t) => Shut(t)'
  BY <1>1, <1>5, Zenon DEF Shut
<1>8. StepsGood'
  BY <1>1, <1>3, <1>7, Zenon DEF IInv, StepsGood, Moved
<1>9. PendGood' /\ TombGood'
  BY <1>1, Zenon DEF IInv, PendGood, TombGood, Takes
<1>10. ban' \in [Subjects -> {"none", "queued", "sequenced", "dropped"}] /\ \A t \in Subjects : ban'[t] # "dropped"
  BY <1>1, Zenon DEF IInv, Types, BanGood
<1>11. BanGood'
  BY <1>1, <1>3, <1>5, <1>6, <1>10, Zenon DEF IInv, BanGood, Moved
<1>12. Types'
  BY <1>1, <1>2, <1>3, <1>4, <1>10, AppendItem, Zenon DEF IInv, Types, Moved
<1> QED
  BY <1>8, <1>9, <1>11, <1>12, Zenon DEF IInv

\* An attempt sends its barrier, behind whatever is queued.
LEMMA AwaitOK ==
    ASSUME IInv, NEW s \in Subjects, awaitDispatch(s)
    PROVE  IInv'
<1> DEFINE e == Barrier(s, purge[s].n + 1)
<1>1. /\ purge[s].pc \in {"begun", "idle", "failed"} /\ queue' = Append(queue, e)
      /\ purge' = [purge EXCEPT ![s] = [pc |-> "await", n |-> @.n + 1]]
      /\ UNCHANGED <<seq, ring, pend, rows, tomb, batches, mark, spent, ban>>
  BY Zenon DEF awaitDispatch
<1>2. purge \in [Subjects -> [pc : Places, n : Nat]]
  BY Zenon DEF IInv, Types
<1>3. Moved(s, "await")
  BY <1>1, <1>2 DEF Moved, Places
<1>4. e \in Item /\ e.of = s /\ e.type = "barrier"
  BY <1>2 DEF Barrier, Item
<1> HIDE DEF e
<1>5. queue \in Seq(Item)
  BY Zenon DEF IInv, Types
<1>6. \A t : /\ Quiet(queue, t) => Quiet(queue', t)
             /\ NoBan(queue, t) => NoBan(queue', t)
             /\ NoBarrier(queue, t) /\ t # s => NoBarrier(queue', t)
             /\ BanFirst(queue, t) => BanFirst(queue', t)
  BY <1>1, <1>4, <1>5, AppendItem, Zenon
<1>7. \A t \in Subjects : Shut(t) => Shut(t)'
  BY <1>1, <1>6, Zenon DEF Shut
<1>8. StepsGood'
  BY <1>1, <1>3, <1>7, Zenon DEF IInv, StepsGood, Moved
<1>9. PendGood' /\ TombGood'
  BY <1>1, Zenon DEF IInv, PendGood, TombGood, Takes
<1>10. BanGood'
  BY <1>1, <1>3, <1>6, Zenon DEF IInv, BanGood, Moved
<1>11. Types'
  BY <1>1, <1>3, <1>4, <1>5, AppendItem, Zenon DEF IInv, Types, Moved
<1> QED
  BY <1>8, <1>9, <1>10, <1>11, Zenon DEF IInv

\* A purge moves to a place where no more is claimed than before, and the
\* frames and tombstones stay: giveUp, lock, purgeFails.
LEMMA StepAsideOK ==
    ASSUME IInv, NEW s \in Subjects, NEW p \in {"failed", "locked"}, Moved(s, p),
           purge[s].pc # "idle", p = "locked" => purge[s].pc = "lock",
           UNCHANGED <<queue, seq, ring, pend, rows, tomb, batches, mark, spent, ban>>
    PROVE  IInv'
<1>1. \A t \in Subjects : Shut(t) => Shut(t)'
  BY Zenon DEF Shut
<1>2. StepsGood'
  BY <1>1, Zenon DEF IInv, StepsGood, Moved
<1>3. PendGood' /\ TombGood'
  BY SMTT(30) DEF IInv, PendGood, TombGood, Takes
<1>4. BanGood'
  BY Zenon DEF IInv, BanGood, Moved
<1>5. Types'
  BY Zenon DEF IInv, Types, Moved
<1> QED
  BY <1>2, <1>3, <1>4, <1>5, Zenon DEF IInv

\* An attempt gives up, takes the purge lock, or fails after its install.
LEMMA AsideOK ==
    ASSUME IInv, NEW s \in Subjects, giveUp(s) \/ lock(s) \/ purgeFails(s)
    PROVE  IInv'
<1>1. CASE giveUp(s)
  <2>1. /\ purge[s].pc \in {"await", "lock"} /\ Go(s, "failed")
        /\ UNCHANGED <<queue, seq, ring, pend, rows, tomb, batches, mark, spent, ban>>
    BY <1>1, Zenon DEF giveUp, pipeline
  <2>2. Moved(s, "failed")
    BY <2>1, GoMoves, Zenon DEF IInv, Places
  <2> QED
    BY <2>1, <2>2, StepAsideOK, Zenon
<1>2. CASE lock(s)
  <2>1. /\ purge[s].pc = "lock" /\ Go(s, "locked")
        /\ UNCHANGED <<queue, seq, ring, pend, rows, tomb, batches, mark, spent, ban>>
    BY <1>2, Zenon DEF lock, pipeline
  <2>2. Moved(s, "locked")
    BY <2>1, GoMoves, Zenon DEF IInv, Places
  <2> QED
    BY <2>1, <2>2, StepAsideOK, Zenon
<1>3. CASE purgeFails(s)
  <2>1. /\ purge[s].pc \in {"flush", "delete"} /\ Go(s, "failed")
        /\ UNCHANGED <<queue, seq, ring, pend, rows, tomb, batches, mark, spent, ban>>
    BY <1>3, Zenon DEF purgeFails, pipeline
  <2>2. Moved(s, "failed")
    BY <2>1, GoMoves, Zenon DEF IInv, Places
  <2> QED
    BY <2>1, <2>2, StepAsideOK, Zenon
<1> QED
  BY <1>1, <1>2, <1>3, Zenon

\* The in-memory step: the tombstone, its batch and the cleared ring.
LEMMA InstallOK ==
    ASSUME IInv, NEW s \in Subjects, installAndDrop(s)
    PROVE  IInv'
<1>1. /\ purge[s].pc = "locked"
      /\ tomb' = [t \in DOMAIN tomb \cup {s} |-> IF t = s THEN seq ELSE tomb[t]]
      /\ batches' = Append(batches, [seq |-> seq, of |-> s])
      /\ ring' = RemoveWhere(ring, {s})
      /\ mark' = [mark EXCEPT ![s] = seq]
      /\ Go(s, "flush")
      /\ UNCHANGED <<queue, seq, pend, rows, spent, ban>>
  BY Zenon DEF installAndDrop
<1>2. /\ seq \in Nat /\ ring \in Seq(Entry) /\ DOMAIN tomb \subseteq Subjects /\ mark \in [Subjects -> Nat]
      /\ batches \in Seq([seq : Nat, of : Subjects]) /\ \A t \in DOMAIN tomb : tomb[t] \in Nat
  BY Zenon DEF IInv, Types
<1>3. Moved(s, "flush")
  BY <1>1, GoMoves, SMTT(30) DEF IInv, Places
<1>4. ring' \in Seq(Entry) /\ Free(ring', s) /\ \A t \in Subjects : Free(ring, t) => Free(ring', t)
  BY <1>1, <1>2, RemoveFree, Zenon
<1>5. /\ DOMAIN tomb' = DOMAIN tomb \cup {s} /\ tomb'[s] = seq
      /\ \A t \in DOMAIN tomb \ {s} : tomb'[t] = tomb[t]
  BY <1>1, Zenon
<1>6. /\ mark' \in [Subjects -> Nat] /\ mark'[s] = seq
      /\ \A t \in Subjects \ {s} : mark'[t] = mark[t]
  BY <1>1, <1>2, Zenon
<1>7. Early(pend, s, seq)
  BY Zenon DEF IInv, PendGood, Upper, Early
<1>8. StepsGood'
  <2> SUFFICES ASSUME NEW t \in Subjects
               PROVE  /\ purge'[t].pc \in {"flush", "delete", "done"} =>
                           Shut(t)' /\ Free(ring', t) /\ Early(pend', t, mark'[t])
                      /\ purge'[t].pc \in {"delete", "done"} => Free(pend', t)
                      /\ purge'[t].pc = "done" => \A f \in rows' : f.data # t
    BY Zenon DEF StepsGood
  <2>1. CASE t = s
    BY <1>1, <1>3, <1>4, <1>5, <1>6, <1>7, <2>1, Zenon DEF Shut, Moved
  <2>2. CASE t # s
    <3>1. Shut(t) => Shut(t)'
      BY <1>1, <1>5, Zenon DEF Shut
    <3> QED
      BY <1>1, <1>3, <1>4, <1>6, <2>2, <3>1, Zenon DEF IInv, StepsGood, Moved
  <2> QED
    BY <2>1, <2>2, Zenon
<1>9. BanGood'
  BY <1>1, <1>3, <1>5, Zenon DEF IInv, BanGood, Moved
<1>10. /\ batches' \in Seq([seq : Nat, of : Subjects]) /\ Len(batches') = Len(batches) + 1
       /\ batches'[Len(batches) + 1] = [seq |-> seq, of |-> s]
       /\ \A i \in 1..Len(batches) : batches'[i] = batches[i]
       /\ Len(batches) \in Nat
  BY <1>1, <1>2
<1>11. TombGood'
  <2> SUFFICES ASSUME NEW t \in DOMAIN tomb'
               PROVE  /\ tomb'[t] = mark'[t]
                      /\ \E i \in 1..Len(batches') : batches'[i].of = t /\ tomb'[t] = batches'[i].seq
    BY Zenon DEF TombGood, Takes
  <2>1. CASE t = s
    BY <1>5, <1>6, <1>10, <2>1, SMTT(30)
  <2>2. CASE t # s
    <3>1. t \in DOMAIN tomb /\ t \in Subjects
      BY <1>2, <1>5, <2>2, Zenon
    <3>2. tomb[t] = mark[t]
      BY <3>1, Zenon DEF IInv, TombGood
    <3>3. PICK i \in 1..Len(batches) : batches[i].of = t /\ tomb[t] = batches[i].seq
      BY <3>1, Zenon DEF IInv, TombGood, Takes
    <3>4. i \in 1..Len(batches') /\ batches'[i] = batches[i]
      BY <1>10
    <3>5. tomb'[t] = tomb[t] /\ mark'[t] = mark[t]
      BY <1>5, <1>6, <2>2, <3>1, Zenon
    <3>6. batches'[i].of = t /\ tomb'[t] = batches'[i].seq
      BY <3>3, <3>4, <3>5, Zenon
    <3> QED
      BY <3>2, <3>4, <3>5, <3>6, Zenon
  <2> QED
    BY <2>1, <2>2, Zenon
<1>12. PendGood'
  BY <1>1, Zenon DEF IInv, PendGood
<1>13. Types'
  BY <1>1, <1>2, <1>3, <1>4, <1>5, <1>6, <1>10, Zenon DEF IInv, Types, Moved
<1> QED
  BY <1>8, <1>9, <1>11, <1>12, <1>13, SMTT(30) DEF IInv

\* p.Flush has returned: what the persister still holds was sequenced after the
\* install, and names no subject installed by then.
LEMMA FlushOK ==
    ASSUME IInv, NEW s \in Subjects, flushReturns(s)
    PROVE  IInv'
<1>1. /\ purge[s].pc = "flush" /\ \A i \in 1..Len(pend) : pend[i].seq > mark[s]
      /\ Go(s, "delete")
      /\ UNCHANGED <<queue, seq, ring, pend, rows, tomb, batches, mark, spent, ban>>
  BY Zenon DEF flushReturns, pipeline
<1>2. Moved(s, "delete")
  BY <1>1, GoMoves, Zenon DEF IInv, Places
<1>3. Free(pend, s)
  <2>1. \A i \in 1..Len(pend) : pend[i].seq \in Nat
    <3>1. \A i \in 1..Len(pend) : pend[i] \in Entry
      BY DEF IInv, Types
    <3> QED
      BY <3>1, Zenon DEF Entry
  <2>2. mark[s] \in Nat /\ Early(pend, s, mark[s])
    BY <1>1, Zenon DEF IInv, Types, StepsGood
  <2> QED
    BY <1>1, <2>1, <2>2 DEF Early, Free
<1>4. \A t \in Subjects : Shut(t) => Shut(t)'
  BY <1>1, SMTT(30) DEF Shut
<1>5. StepsGood'
  BY <1>1, <1>2, <1>3, <1>4, Zenon DEF IInv, StepsGood, Moved
<1>6. PendGood' /\ TombGood'
  BY <1>1, Zenon DEF IInv, PendGood, TombGood, Takes
<1>7. BanGood'
  BY <1>1, <1>2, Zenon DEF IInv, BanGood, Moved
<1>8. Types'
  BY <1>1, <1>2, Zenon DEF IInv, Types, Moved
<1> QED
  BY <1>5, <1>6, <1>7, <1>8, Zenon DEF IInv

\* The rows go, and the purge is done.
LEMMA DeleteOK ==
    ASSUME IInv, NEW s \in Subjects, deleteRows(s)
    PROVE  IInv'
<1>1. /\ purge[s].pc = "delete" /\ rows' = {f \in rows : f.data # s} /\ Go(s, "done")
      /\ UNCHANGED <<queue, seq, ring, pend, tomb, batches, mark, spent, ban>>
  BY Zenon DEF deleteRows
<1>2. Moved(s, "done")
  BY <1>1, GoMoves, Zenon DEF IInv, Places
<1>3. \A t \in Subjects : Shut(t) => Shut(t)'
  BY <1>1, Zenon DEF Shut
<1>4. StepsGood'
  BY <1>1, <1>2, <1>3, Zenon DEF IInv, StepsGood, Moved
<1>5. PendGood' /\ TombGood'
  BY <1>1, Zenon DEF IInv, PendGood, TombGood, Takes
<1>6. BanGood'
  BY <1>1, <1>2, Zenon DEF IInv, BanGood, Moved
<1>7. Types'
  BY <1>1, <1>2, Zenon DEF IInv, Types, Moved
<1> QED
  BY <1>4, <1>5, <1>6, <1>7, Zenon DEF IInv

\* The state a process starts in.
LEMMA ServedInit == Init => SInv
<1> SUFFICES ASSUME Init PROVE SInv
  BY Zenon
<1>1. /\ seq = 0 /\ ring = <<>> /\ purgeW = 0 /\ pend = <<>> /\ rows = {} /\ users \in SUBSET Subjects
      /\ tomb = <<>> /\ holder = NoOne /\ unfinished = {} /\ spent = {}
      /\ purge = [s \in Subjects |-> [pc |-> "idle", n |-> 0]]
      /\ reader = [r \in Readers |-> Idle] /\ got = [r \in Readers |-> NotServed]
  BY Zenon DEF Init
<1>2. Len(ring) = 0 /\ Len(pend) = 0 /\ DOMAIN tomb = {}
  BY <1>1
<1>3. LineGood
  BY <1>1, <1>2 DEF LineGood, RingLine, Rising, Distinct, Below
<1>4. \A s \in Subjects : purge[s].pc = "idle"
  BY <1>1, Zenon
<1>5. LockGood /\ PutGood
  BY <1>1, <1>2, <1>4 DEF LockGood, PutGood, Put, Past
<1>6. ReaderGood
  <2>1. /\ Idle.pc = "idle" /\ Idle.rows = {} /\ Idle.before = {} /\ Idle \in Resuming
    BY Zenon DEF Idle, Resuming
  <2>2. \A r \in Readers : reader[r] = Idle
    BY <1>1, Zenon
  <2>3. \A r \in Readers : BeforeGood(r) /\ OwnRows(r)
    BY <2>1, <2>2, Zenon DEF BeforeGood, OwnRows, Distinct, Below, Old
  <2>4. \A r \in Readers : ColdRows(r)
    BY <2>1, <2>2, Zenon DEF ColdRows, Cold
  <2> QED
    BY <2>1, <2>2, <2>3, <2>4, Zenon DEF ReaderGood
<1>7. \A r \in Readers : got[r] = NotServed
  BY <1>1, Zenon
<1>8. NotServed.frames = <<>> /\ NotServed.from = 0 /\ NotServed.upto = 0 /\ NotServed.purged = {} /\ NotServed.before = {}
  BY Zenon DEF NotServed
<1>9. ServedComplete /\ ServedCleanly
  BY <1>7, <1>8 DEF ServedComplete, ServedCleanly, ServedClean, ServedCleanAfter
<1> QED
  BY <1>1, <1>3, <1>5, <1>6, <1>9, Zenon DEF SInv

=============================================================================
