------------------------- MODULE ReplayPurgeProofs --------------------------
(***************************************************************************)
(* Proofs about ReplayPurge for any subjects, readers, ring size, queue    *)
(* capacity, number of frames and number of attempts: the expiry of        *)
(* tombstones, the steps of a resume, and the theorems.                    *)
(***************************************************************************)
EXTENDS ReplayPurgeInvariant, FiniteSetTheorems

-----------------------------------------------------------------------------
(* Rows and frames by seq.                                                   *)

\* Two sequences, one after the other.
LEMMA Joined ==
    ASSUME NEW S, NEW a \in Seq(S), NEW b \in Seq(S)
    PROVE  /\ a \o b \in Seq(S) /\ Len(a \o b) = Len(a) + Len(b)
           /\ \A i \in 1..Len(a) : (a \o b)[i] = a[i]
           /\ \A i \in 1..Len(b) : (a \o b)[Len(a) + i] = b[i]
OBVIOUS

\* Distinct frames between a and b are as many as the seqs there just when no
\* seq is missing: what CountEventsInRange is asked for.
LEMMA CountIsFull ==
    ASSUME NEW fs \in SUBSET Entry, Distinct(fs), NEW a \in Nat, NEW b \in Nat, a <= b,
           \A f \in fs : a < f.seq /\ f.seq <= b
    PROVE  /\ IsFiniteSet(fs)
           /\ Cardinality(fs) = b - a <=> \A n \in (a + 1)..b : \E f \in fs : f.seq = n
<1> DEFINE T == (a + 1)..b
           m == [f \in fs |-> f.seq]
<1>1. \A f \in fs : f.seq \in T
  BY EntrySeq
<1>2. m \in [fs -> T] /\ \A f \in fs : m[f] = f.seq
  BY <1>1, Zenon
<1>3. m \in Injection(fs, T)
  <2>1. IsInjective(m)
    BY <1>2, Zenon DEF IsInjective, Distinct
  <2> QED
    BY <1>2, <2>1, Zenon DEF Injection
<1>4. IsFiniteSet(T) /\ Cardinality(T) = b - a
  <2>1. PICK k \in Int : k = a + 1
    OBVIOUS
  <2> b \in Int
    OBVIOUS
  <2>2. IsFiniteSet(k..b) /\ Cardinality(k..b) = IF k > b THEN 0 ELSE b - k + 1
    BY <2>1, FS_Interval, Zenon
  <2> QED
    BY <2>1, <2>2
<1> HIDE DEF T
<1>5. IsFiniteSet(fs) /\ (Cardinality(fs) = Cardinality(T) <=> m \in Surjection(fs, T))
  BY <1>3, <1>4, FS_Injection, Zenon
<1>6. m \in Surjection(fs, T) <=> \A n \in T : \E f \in fs : f.seq = n
  BY <1>2, Zenon DEF Surjection
<1> QED
  BY <1>4, <1>5, <1>6, Zenon DEF T

\* ORDER BY seq: rows without a hole come out one seq after the other.
LEMMA BySeqOK ==
    ASSUME NEW fs \in SUBSET Entry, Distinct(fs), NEW a \in Nat, NEW b \in Nat, a <= b,
           \A f \in fs : a < f.seq /\ f.seq <= b,
           \A n \in (a + 1)..b : \E f \in fs : f.seq = n
    PROVE  /\ BySeq(fs) \in Seq(Entry) /\ Len(BySeq(fs)) = b - a
           /\ \A i \in 1..(b - a) : BySeq(fs)[i] \in fs /\ BySeq(fs)[i].seq = a + i
<1> DEFINE H(f) == {g \in fs : g.seq <= f.seq}
           pick(i) == CHOOSE f \in fs : Cardinality({g \in fs : g.seq <= f.seq}) = i
<1>1. Cardinality(fs) = b - a /\ b - a \in Nat
  BY CountIsFull
<1>2. ASSUME NEW f \in fs PROVE Cardinality(H(f)) = f.seq - a
  <2> DEFINE h == H(f)
             m == f.seq
  <2>1. m \in Nat /\ a <= m /\ m <= b
    BY EntrySeq
  <2>2. h \in SUBSET Entry /\ Distinct(h) /\ (\A g \in h : a < g.seq /\ g.seq <= m)
    BY Zenon DEF Distinct
  <2>3. \A n \in (a + 1)..m : \E g \in h : g.seq = n
    <3>1. \A n \in (a + 1)..m : n \in (a + 1)..b /\ n <= m
      BY <2>1
    <3> QED
      BY <3>1, Zenon
  <2> HIDE DEF h, m
  <2>4. Cardinality(h) = m - a
    BY <2>1, <2>2, <2>3, CountIsFull, Zenon
  <2> QED
    BY <2>4, Zenon DEF h, m
<1>3. ASSUME NEW i \in 1..(b - a) PROVE pick(i) \in fs /\ pick(i).seq = a + i
  <2>1. i \in Nat /\ a + i \in (a + 1)..b
    OBVIOUS
  <2>2. PICK f \in fs : f.seq = a + i
    BY <2>1, Zenon
  <2>3. Cardinality(H(f)) = i
    BY <1>2, <2>1, <2>2
  <2>4. pick(i) \in fs /\ Cardinality(H(pick(i))) = i
    BY <2>3, Zenon
  <2> HIDE DEF pick, H
  <2> QED
    BY <1>2, <2>1, <2>4, EntrySeq
<1>4. BySeq(fs) = [i \in 1..(b - a) |-> pick(i)]
  BY <1>1, Zenon DEF BySeq
<1> HIDE DEF pick
<1>5. BySeq(fs) \in [1..(b - a) -> Entry] /\ \A i \in 1..(b - a) : BySeq(fs)[i] = pick(i)
  BY <1>3, <1>4, Zenon
<1>6. BySeq(fs) \in Seq(Entry) /\ Len(BySeq(fs)) = b - a
  <2>1. PICK k \in Nat : k = b - a
    BY <1>1, Zenon
  <2> QED
    BY <1>5, <2>1, SeqOfFunction, Zenon
<1> QED
  BY <1>3, <1>5, <1>6, Zenon

\* eventsSince: everything in the ring after n, up to seq.
LEMMA RingTailOK ==
    ASSUME ring \in Seq(Entry), seq \in Nat, RingLine(ring, seq), NEW n \in Nat, Covers(ring, n) \/ n = seq
    PROVE  /\ RingTail(n) \in Seq(Entry) /\ Len(RingTail(n)) = seq - n
           /\ \A i \in 1..Len(RingTail(n)) : /\ RingTail(n)[i].seq = n + i
                                             /\ \E j \in 1..Len(ring) : RingTail(n)[i] = ring[j]
<1> DEFINE L == Len(ring)
           newer == {i \in 1..L : ring[i].seq > n}
           k == n - seq + L + 1
<1>1. L \in Nat /\ L <= seq /\ \A i \in 1..L : ring[i].seq = seq - L + i
  <2>1. L \in Nat
    OBVIOUS
  <2> QED
    BY <2>1, Zenon DEF RingLine
<1>2. \A i \in 1..L : i \in newer <=> i >= k
  <2> HIDE DEF L
  <2> SUFFICES ASSUME NEW i \in 1..L PROVE ring[i].seq > n <=> i >= k
    BY Zenon
  <2>1. ring[i].seq = seq - L + i
    BY <1>1, Zenon
  <2>2. seq - L + i > n <=> i >= k
    BY <1>1
  <2> QED
    BY <2>1, <2>2, Zenon
<1>3. CASE ~(Covers(ring, n) /\ newer # {})
  <2>1. RingTail(n) = <<>>
    BY <1>3, Zenon DEF RingTail
  <2>2. n = seq
    <3>1. CASE Covers(ring, n) /\ newer = {}
      <4>1. ring # <<>> /\ n <= ring[L].seq
        BY <3>1, Zenon DEF Covers, NewestSeq
      <4>2. L \in 1..L
        BY <1>1, <4>1
      <4>3. ~(ring[L].seq > n)
        BY <3>1, <4>2, Zenon
      <4> QED
        BY <1>1, <4>1, <4>2, <4>3, SMTT(30)
    <3> QED
      BY <1>3, <3>1, Zenon
  <2> QED
    BY <2>1, <2>2
<1>4. CASE Covers(ring, n) /\ newer # {}
  <2> DEFINE c == CHOOSE i \in newer : \A j \in newer : i <= j
             t == SubSeq(ring, c, L)
  <2>1. RingTail(n) = t
    BY <1>4, Zenon DEF RingTail
  <2>2. k \in Int /\ 1 <= k /\ k <= L
    <3>1. n > ring[1].seq /\ ring # <<>>
      BY <1>4, Zenon DEF Covers, OldestSeq
    <3>2. 1 \in 1..L
      BY <1>1, <3>1
    <3>3. PICK i \in newer : TRUE
      BY <1>4, Zenon
    <3>4. ring[1].seq = seq - L + 1 /\ i \in 1..L /\ i >= k
      BY <1>1, <1>2, <3>2, <3>3, Zenon
    <3>5. n > seq - L + 1
      BY <3>1, <3>4, Zenon
    <3> HIDE DEF L
    <3> QED
      BY <1>1, <3>4, <3>5
  <2>3. k \in newer /\ \A j \in newer : k <= j
    <3>1. k \in 1..L /\ k >= k
      <4> HIDE DEF L
      <4> QED
        BY <1>1, <2>2
    <3>2. \A j \in 1..L : j >= k => k <= j
      <4> HIDE DEF L
      <4> QED
        BY <1>1, <2>2
    <3> QED
      BY <1>2, <3>1, <3>2, Zenon
  <2>4. c = k
    <3>1. c \in newer /\ \A j \in newer : c <= j
      BY <2>3, Zenon
    <3> HIDE DEF c, newer
    <3>2. c <= k /\ k <= c /\ c \in Int
      BY <2>3, <3>1 DEF newer
    <3> QED
      BY <2>2, <3>2
  <2> HIDE DEF c, k
  <2>5. t \in Seq(Entry) /\ Len(t) = L - k + 1 /\ \A i \in 1..Len(t) : t[i] = ring[k + i - 1] /\ k + i - 1 \in 1..L
    BY <1>1, <2>2, <2>4
  <2> HIDE DEF t
  <2>6. Len(t) = seq - n
    BY <1>1, <2>5 DEF k
  <2>7. \A i \in 1..Len(t) : t[i].seq = n + i /\ \E j \in 1..L : t[i] = ring[j]
    <3> SUFFICES ASSUME NEW i \in 1..Len(t) PROVE t[i].seq = n + i /\ \E j \in 1..L : t[i] = ring[j]
      BY Zenon
    <3>1. t[i] = ring[k + i - 1] /\ k + i - 1 \in 1..L
      BY <2>5, Zenon
    <3>2. ring[k + i - 1].seq = seq - L + (k + i - 1)
      BY <1>1, <3>1, Zenon
    <3>3. seq - L + (k + i - 1) = n + i
      BY <1>1, <2>5 DEF k
    <3> QED
      BY <3>1, <3>2, <3>3, Zenon
  <2> QED
    BY <2>1, <2>5, <2>6, <2>7, Zenon
<1> QED
  BY <1>3, <1>4, Zenon

\* A nonempty set of naturals has a least member.
LEMMA LeastMember ==
    ASSUME NEW S \in SUBSET Nat, S # {}
    PROVE  \E m \in S : \A n \in S : m <= n
<1>1. IsWellFoundedOn(OpToRel(<, Nat), Nat)
  BY NatLessThanWellFounded, Zenon
<1>2. PICK m \in S : \A n \in S : ~(<<n, m>> \in OpToRel(<, Nat))
  BY <1>1, WFMin, Zenon
<1>3. \A n \in S : <<n, m>> \in Nat \X Nat /\ <<n, m>>[1] = n /\ <<n, m>>[2] = m
  BY Zenon
<1>4. \A n \in S : ~(n < m)
  BY <1>2, <1>3, Zenon DEF OpToRel
<1>5. \A n \in S : m <= n
  BY <1>4
<1> QED
  BY <1>5, Zenon

\* Rows no younger than n have a youngest.
LEMMA YoungestRow ==
    ASSUME NEW fs \in SUBSET Entry, fs # {}, NEW n \in Nat, \A f \in fs : f.seq <= n
    PROVE  \E f \in fs : \A g \in fs : g.seq <= f.seq
<1> DEFINE S == {n - f.seq : f \in fs}
<1>1. S \in SUBSET Nat /\ S # {}
  BY EntrySeq
<1>2. PICK m \in S : \A k \in S : m <= k
  BY <1>1, LeastMember, Zenon
<1>3. PICK f \in fs : m = n - f.seq
  BY <1>2, Zenon
<1>4. \A g \in fs : n - f.seq <= n - g.seq
  BY <1>2, <1>3, Zenon
<1> QED
  BY <1>4, EntrySeq

-----------------------------------------------------------------------------
(* The steps of a resume.                                                    *)

\* A resume leaves frames and purges alone.
LEMMA ReadStill ==
    ASSUME UNCHANGED <<pipeline, purging>>
    PROVE  /\ UNCHANGED <<seq, ring, pend, rows, users, mark, purgeW, spent, holder>>
           /\ \A s \in Subjects : (Closed(s)' <=> Closed(s)) /\ (Settled(s)' <=> Settled(s)) /\ (Put(s)' <=> Put(s))
           /\ LineGood => LineGood'
           /\ LockGood => LockGood'
           /\ PutGood => PutGood'
<1>1. UNCHANGED <<queue, seq, ring, pend, rows, users, purgeW, tomb, holder, unfinished, purge, mark, spent>>
  BY Zenon DEF pipeline, purging
<1>2. \A s \in Subjects : (Closed(s)' <=> Closed(s)) /\ (Settled(s)' <=> Settled(s)) /\ (Put(s)' <=> Put(s))
  BY <1>1, Zenon DEF Closed, Shut, Settled, Put
<1>3. LineGood => LineGood'
  BY <1>1, Zenon DEF LineGood
<1>4. LockGood => LockGood'
  BY <1>1, Zenon DEF LockGood
<1>5. PutGood => PutGood'
  BY <1>1, <1>2, Zenon DEF PutGood
<1> QED
  BY <1>1, <1>2, <1>3, <1>4, <1>5, Zenon

OneGood(r) == reader[r] \in Resuming /\ BeforeGood(r) /\ OwnRows(r) /\ ColdRows(r)

\* The other resumes keep what they know.
LEMMA OthersKeep ==
    ASSUME SInv, UNCHANGED <<pipeline, purging>>, NEW r \in Readers, NEW q \in Readers, reader'[q] = reader[q]
    PROVE  OneGood(q)'
<1>1. reader[q] \in Resuming /\ BeforeGood(q) /\ OwnRows(q) /\ ColdRows(q) /\ reader[q].before \in SUBSET Subjects
  BY Zenon DEF SInv, ReaderGood, Resuming
<1>2. BeforeGood(q)'
  BY <1>1, ReadStill, Zenon DEF BeforeGood
<1>3. OwnRows(q)'
  BY <1>1, ReadStill, Zenon DEF OwnRows
<1>4. ColdRows(q)'
  BY <1>1, ReadStill, Zenon DEF ColdRows
<1> QED
  BY <1>1, <1>2, <1>3, <1>4, Zenon DEF OneGood

\* A resume that takes the full ready is over.
LEMMA IdleKeeps ==
    ASSUME NEW r \in Readers, reader'[r] = Idle
    PROVE  OneGood(r)'
<1>1. /\ Idle.pc = "idle" /\ Idle.rows = {} /\ Idle.before = {} /\ Idle \in Resuming
  BY Zenon DEF Idle, Resuming
<1>2. BeforeGood(r)' /\ OwnRows(r)'
  BY <1>1, Zenon DEF BeforeGood, OwnRows, Distinct, Below, Old
<1>3. ColdRows(r)'
  BY <1>1, Zenon DEF ColdRows, Cold
<1> QED
  BY <1>1, <1>2, <1>3, Zenon DEF OneGood

\* One step of a resume, seen from its own session.
LEMMA StepKeeps ==
    ASSUME SInv, NEW r \in Readers, NEW ok \in BOOLEAN, NEW next, Step(r, ok, next),
           ok /\ reader'[r] = next => OneGood(r)'
    PROVE  SInv'
<1>1. UNCHANGED <<pipeline, purging>> /\ got' = got /\ reader' = [reader EXCEPT ![r] = IF ok THEN next ELSE Idle]
  BY Zenon DEF Step
<1>2. DOMAIN reader = Readers /\ DOMAIN reader' = Readers
  BY <1>1, Zenon DEF SInv
<1>3. OneGood(r)'
  <2>1. CASE ok
    BY <1>1, <1>2, <2>1, Zenon
  <2>2. CASE ~ok
    BY <1>1, <1>2, <2>2, IdleKeeps, Zenon
  <2> QED
    BY <2>1, <2>2, Zenon
<1>4. ASSUME NEW q \in Readers, q # r PROVE OneGood(q)'
  BY <1>1, <1>2, <1>4, OthersKeep, Zenon
<1>5. ReaderGood'
  BY <1>3, <1>4, Zenon DEF ReaderGood, OneGood
<1>6. LineGood' /\ LockGood' /\ PutGood' /\ users' = users
  BY <1>1, ReadStill, Zenon DEF SInv
<1>7. ServedComplete' /\ ServedCleanly'
  BY <1>1, <1>6, Zenon DEF SInv, ServedComplete, ServedCleanly, ServedClean, ServedCleanAfter
<1>8. (users \subseteq Subjects /\ DOMAIN got = Readers)'
  BY <1>1, <1>6, Zenon DEF SInv
<1> QED
  BY <1>2, <1>5, <1>6, <1>7, <1>8, Zenon DEF SInv

\* A step that keeps the rows of the resume and what it knows of them.
LEMMA SameRows ==
    ASSUME SInv, NEW r \in Readers, UNCHANGED <<pipeline, purging>>, reader'[r] \in Resuming,
           reader'[r].rows = reader[r].rows, reader'[r].last = reader[r].last, reader'[r].before = reader[r].before
    PROVE  BeforeGood(r)' /\ OwnRows(r)'
<1>1. BeforeGood(r) /\ OwnRows(r) /\ reader[r].before \in SUBSET Subjects
  BY Zenon DEF SInv, ReaderGood, Resuming
<1>2. BeforeGood(r)'
  BY <1>1, ReadStill, Zenon DEF BeforeGood
<1>3. OwnRows(r)'
  BY <1>1, ReadStill, Zenon DEF OwnRows
<1> QED
  BY <1>2, <1>3, Zenon

\* reconnectPrecheck: what was purged before it began is purged.
LEMMA PrecheckOK ==
    ASSUME IInv, SInv, NEW r \in Readers, NEW last \in 1..MaxSeq, reconnectPrecheck(r, last)
    PROVE  SInv'
<1> DEFINE next == [Idle EXCEPT !.pc = "select", !.last = last, !.before = Purged]
           ok == ~mustFullResync(last)
<1>1. Step(r, ok, next)
  BY Zenon DEF reconnectPrecheck
<1>2. last \in Nat /\ Purged \subseteq Subjects
  BY DEF IInv, Types, Purged
<1>3. /\ next.pc = "select" /\ next.last = last /\ next.rows = {} /\ next.before = Purged
      /\ next \in Resuming
  BY <1>2, Zenon DEF Idle, Resuming
<1>4. \A s \in Purged : Closed(s) /\ Settled(s)
  <2>1. \A s \in Purged : s \in Subjects /\ Put(s)
    BY <1>2, Zenon DEF Purged, Put, Past
  <2> QED
    BY <2>1, Zenon DEF SInv, PutGood
<1>5. UNCHANGED <<pipeline, purging>> /\ ok \in BOOLEAN
  BY <1>1, Zenon DEF Step, mustFullResync
<1> HIDE DEF next, ok
<1>6. ASSUME reader'[r] = next PROVE OneGood(r)'
  <2>1. BeforeGood(r)'
    BY <1>2, <1>3, <1>4, <1>5, <1>6, ReadStill, Zenon DEF BeforeGood
  <2>2. OwnRows(r)'
    BY <1>3, <1>6, Zenon DEF OwnRows, Distinct, Below, Old
  <2>3. ColdRows(r)'
    BY <1>3, <1>6, Zenon DEF ColdRows, Cold
  <2> QED
    BY <1>3, <1>6, <2>1, <2>2, <2>3, Zenon DEF OneGood
<1> QED
  BY <1>1, <1>5, <1>6, StepKeeps, Zenon

\* The ring is looked at, and ring or table chosen.
LEMMA SelectOK ==
    ASSUME IInv, SInv, NEW r \in Readers, selectRing(r)
    PROVE  SInv'
<1> DEFINE hit == Covers(ring, reader[r].last)
           next == [reader[r] EXCEPT !.pc = IF hit THEN "register" ELSE "cold", !.src = IF hit THEN "buffer" ELSE "db"]
<1>1. Step(r, TRUE, next)
  BY Zenon DEF selectRing
<1>2. UNCHANGED <<pipeline, purging>>
  BY <1>1, Zenon DEF Step
<1>3. reader[r] \in Resuming
  BY Zenon DEF SInv, ReaderGood
<1> HIDE DEF hit
<1>4. /\ next.pc \in {"register", "cold"} /\ (next.pc = "register" => next.src = "buffer")
      /\ next.last = reader[r].last /\ next.rows = reader[r].rows /\ next.before = reader[r].before
      /\ next \in Resuming
  BY <1>3, Zenon DEF Resuming
<1> HIDE DEF next
<1>5. ASSUME reader'[r] = next PROVE OneGood(r)'
  <2>1. BeforeGood(r)' /\ OwnRows(r)'
    BY <1>2, <1>4, <1>5, SameRows, Zenon
  <2>2. ColdRows(r)'
    BY <1>4, <1>5, Zenon DEF ColdRows, Cold
  <2> QED
    BY <1>4, <1>5, <2>1, <2>2, Zenon DEF OneGood
<1> QED
  BY <1>1, <1>5, StepKeeps, Zenon

\* The query: no row it sees names a subject purged before the resume began,
\* since tryColdRead found every such purge done.
LEMMA QueryOK ==
    ASSUME IInv, SInv, NEW r \in Readers, coldQuery(r)
    PROVE  SInv'
<1> DEFINE all == {f \in rows : f.seq > reader[r].last}
           ok == tryColdRead /\ all # {} /\ Cardinality(all) < ColdCap
           next == [reader[r] EXCEPT !.pc = "oldest", !.rows = all]
<1>1. Step(r, ok, next)
  BY Zenon DEF coldQuery
<1>2. UNCHANGED <<pipeline, purging>> /\ ok \in BOOLEAN
  BY <1>1, Zenon DEF Step, tryColdRead
<1>3. reader[r] \in Resuming /\ BeforeGood(r) /\ reader[r].before \in SUBSET Subjects /\ reader[r].last \in Nat
  BY Zenon DEF SInv, ReaderGood, Resuming
<1>4. /\ rows \in SUBSET Entry /\ Distinct(rows) /\ Below(rows, seq, pend)
      /\ \A s \in Subjects : Put(s) => Old(rows, s, mark[s])
  BY Zenon DEF SInv, LineGood, PutGood
<1>5. all \in SUBSET Entry /\ all \subseteq rows /\ (\A f \in rows : f \in all <=> f.seq > reader[r].last)
  BY <1>4, Zenon
<1>6. ok => tryColdRead /\ all # {}
  BY Zenon
<1> HIDE DEF all, ok
<1>7. /\ next.pc = "oldest" /\ next.rows = all
      /\ next.last = reader[r].last /\ next.before = reader[r].before
      /\ next \in Resuming
  BY <1>3, <1>5, Zenon DEF Resuming
<1> HIDE DEF next
<1>8. ASSUME ok, reader'[r] = next PROVE OneGood(r)'
  <2>1. \A s \in reader[r].before : \A f \in rows : f.data # s
    <3> SUFFICES ASSUME NEW s \in reader[r].before PROVE \A f \in rows : f.data # s
      BY Zenon
    <3>1. s \in Subjects /\ Settled(s)
      BY <1>3, Zenon DEF BeforeGood
    <3>2. holder = NoOne /\ s \notin unfinished
      BY <1>6, <1>8, Zenon DEF tryColdRead
    <3>3. purge[s].pc \notin {"flush", "delete"}
      BY <3>1, <3>2, NoOneAssumption, Zenon DEF SInv, LockGood
    <3>4. purge[s].pc = "done"
      BY <3>1, <3>2, <3>3, Zenon DEF Settled, Past
    <3> QED
      BY <3>1, <3>4, Zenon DEF IInv, StepsGood
  <2>2. BeforeGood(r)'
    BY <1>2, <1>3, <1>5, <1>7, <1>8, <2>1, ReadStill, SMTT(30) DEF BeforeGood
  <2>3. OwnRows(r)'
    <3>1. Distinct(all) /\ Below(all, seq, pend) /\ \A f \in all : reader[r].last < f.seq
      BY <1>3, <1>4, <1>5, EntrySeq, Zenon DEF Distinct, Below
    <3>2. \A s \in Subjects : Put(s) => Old(all, s, mark[s])
      BY <1>4, <1>5, Zenon DEF Old
    <3> QED
      BY <1>2, <1>7, <1>8, <3>1, <3>2, ReadStill, Zenon DEF OwnRows
  <2>4. ColdRows(r)'
    <3>1. \A f \in rows : reader[r].last < f.seq => f \in all
      BY <1>3, <1>4, <1>5, EntrySeq, Zenon
    <3> QED
      BY <1>2, <1>6, <1>7, <1>8, <3>1, ReadStill, Zenon DEF ColdRows, Cold
  <2> QED
    BY <1>7, <1>8, <2>2, <2>3, <2>4, Zenon DEF OneGood
<1> QED
  BY <1>1, <1>2, <1>8, StepKeeps, Zenon

\* The oldest row is looked at.
LEMMA OldestOK ==
    ASSUME IInv, SInv, NEW r \in Readers, coldOldest(r)
    PROVE  SInv'
<1> DEFINE ok == tryColdRead /\ \E f \in rows : f.seq <= reader[r].last + 1
           next == [reader[r] EXCEPT !.pc = "count"]
<1>1. Step(r, ok, next) /\ reader[r].pc = "oldest"
  BY Zenon DEF coldOldest
<1>2. UNCHANGED <<pipeline, purging>> /\ ok \in BOOLEAN
  BY <1>1, Zenon DEF Step, tryColdRead
<1>3. reader[r] \in Resuming /\ ColdRows(r)
  BY Zenon DEF SInv, ReaderGood
<1>4. /\ next.pc = "count" /\ next.rows = reader[r].rows
      /\ next.last = reader[r].last /\ next.before = reader[r].before
      /\ next \in Resuming
  BY <1>3, Zenon DEF Resuming
<1> HIDE DEF next, ok
<1>5. ASSUME reader'[r] = next PROVE OneGood(r)'
  <2>1. BeforeGood(r)' /\ OwnRows(r)'
    BY <1>2, <1>4, <1>5, SameRows, Zenon
  <2>2. ColdRows(r)'
    BY <1>1, <1>2, <1>3, <1>4, <1>5, ReadStill, Zenon DEF ColdRows, Cold
  <2> QED
    BY <1>4, <1>5, <2>1, <2>2, Zenon DEF OneGood
<1> QED
  BY <1>1, <1>2, <1>5, StepKeeps, Zenon

\* Upto is the youngest of the rows read.
LEMMA UptoOK ==
    ASSUME IInv, SInv, NEW r \in Readers, reader[r].rows # {}
    PROVE  /\ Upto(r) \in Nat /\ reader[r].last < Upto(r) /\ Upto(r) <= seq
           /\ \E f \in reader[r].rows : f.seq = Upto(r)
           /\ \A g \in reader[r].rows : g.seq <= Upto(r)
<1>1. /\ reader[r] \in Resuming /\ reader[r].rows \in SUBSET Entry /\ reader[r].last \in Nat /\ seq \in Nat
      /\ \A f \in reader[r].rows : f.seq <= seq /\ reader[r].last < f.seq
  BY Zenon DEF IInv, Types, SInv, ReaderGood, Resuming, OwnRows, Below
<1> DEFINE top == CHOOSE f \in reader[r].rows : \A g \in reader[r].rows : g.seq <= f.seq
<1>2. \E f \in reader[r].rows : \A g \in reader[r].rows : g.seq <= f.seq
  BY <1>1, YoungestRow, Zenon
<1>3. top \in reader[r].rows /\ \A g \in reader[r].rows : g.seq <= top.seq
  BY <1>2, Zenon
<1>4. Upto(r) = top.seq
  BY Zenon DEF Upto
<1> HIDE DEF top
<1> QED
  BY <1>1, <1>3, <1>4, EntrySeq, Zenon

\* CountEventsInRange: the table has as many rows as the range has seqs, and
\* none of them was missed by the query.
LEMMA CountOK ==
    ASSUME IInv, SInv, NEW r \in Readers, coldCount(r)
    PROVE  SInv'
<1> DEFINE ok == tryColdRead /\ NoHole(r)
           next == [reader[r] EXCEPT !.pc = "tail"]
           A == {f \in rows : f.seq > reader[r].last /\ f.seq <= Upto(r)}
<1>1. Step(r, ok, next) /\ reader[r].pc = "count" /\ (ok => Cardinality(A) = Upto(r) - reader[r].last)
  BY Zenon DEF coldCount, NoHole
<1>2. UNCHANGED <<pipeline, purging>> /\ ok \in BOOLEAN
  BY <1>1, Zenon DEF Step, tryColdRead, NoHole
<1>3. /\ reader[r] \in Resuming /\ ColdRows(r) /\ reader[r].last \in Nat
      /\ rows \in SUBSET Entry /\ Distinct(rows)
  BY Zenon DEF SInv, ReaderGood, Resuming, LineGood
<1>4. /\ next.pc = "tail" /\ next.rows = reader[r].rows
      /\ next.last = reader[r].last /\ next.before = reader[r].before
      /\ next \in Resuming
  BY <1>3, Zenon DEF Resuming
<1> HIDE DEF next, ok
<1>5. reader[r].rows # {}
  BY <1>1, <1>3, Zenon DEF ColdRows, Cold
<1>6. /\ Upto(r) \in Nat /\ reader[r].last < Upto(r)
      /\ \E f \in reader[r].rows : f.seq = Upto(r)
      /\ \A g \in reader[r].rows : g.seq <= Upto(r)
  BY <1>5, UptoOK, Zenon
<1>7. A \subseteq reader[r].rows
  <2>1. \A f \in rows, g \in reader[r].rows : reader[r].last < f.seq /\ f.seq <= g.seq => f \in reader[r].rows
    BY <1>1, <1>3, Zenon DEF ColdRows
  <2> QED
    BY <1>3, <1>6, <2>1, EntrySeq, Zenon
<1>8. /\ A \in SUBSET Entry /\ Distinct(A) /\ \A f \in A : reader[r].last < f.seq /\ f.seq <= Upto(r)
  BY <1>3, EntrySeq, Zenon DEF Distinct
<1> HIDE DEF A
<1>9. ASSUME ok PROVE \A g \in reader[r].rows : \A n \in (reader[r].last + 1)..g.seq : \E f \in reader[r].rows : f.seq = n
  <2> DEFINE a == reader[r].last
             b == Upto(r)
  <2>1. a \in Nat /\ b \in Nat /\ a <= b /\ Cardinality(A) = b - a /\ \A f \in A : a < f.seq /\ f.seq <= b
    BY <1>1, <1>3, <1>6, <1>8, <1>9
  <2>2. \A g \in reader[r].rows : g.seq <= b /\ g.seq \in Nat
    <3>1. reader[r].rows \in SUBSET Entry
      BY <1>3, Zenon DEF Resuming
    <3> QED
      BY <1>6, <3>1, EntrySeq, Zenon
  <2> HIDE DEF a, b
  <2>3. \A n \in (a + 1)..b : \E f \in A : f.seq = n
    BY <1>8, <2>1, CountIsFull, Zenon
  <2>4. \A g \in reader[r].rows : \A n \in (a + 1)..g.seq : n \in (a + 1)..b
    BY <2>1, <2>2
  <2> QED
    BY <1>7, <2>3, <2>4, Zenon DEF a
<1>10. ASSUME ok, reader'[r] = next PROVE OneGood(r)'
  <2>1. BeforeGood(r)' /\ OwnRows(r)'
    BY <1>2, <1>4, <1>10, SameRows, Zenon
  <2>2. ColdRows(r)'
    BY <1>4, <1>5, <1>9, <1>10, Zenon DEF ColdRows
  <2> QED
    BY <1>4, <1>10, <2>1, <2>2, Zenon DEF OneGood
<1> QED
  BY <1>1, <1>2, <1>10, StepKeeps, Zenon

\* The ring's tail is looked at.
LEMMA TailStepOK ==
    ASSUME IInv, SInv, NEW r \in Readers, coldTail(r)
    PROVE  SInv'
<1> DEFINE ok == TailCovered(r)
           next == [reader[r] EXCEPT !.pc = "register"]
<1>1. Step(r, ok, next) /\ reader[r].pc = "tail"
  BY Zenon DEF coldTail
<1>2. UNCHANGED <<pipeline, purging>> /\ ok \in BOOLEAN
  BY <1>1, Zenon DEF Step, TailCovered, Covers
<1>3. reader[r] \in Resuming /\ ColdRows(r)
  BY Zenon DEF SInv, ReaderGood
<1>4. /\ next.pc = "register" /\ next.rows = reader[r].rows
      /\ next.last = reader[r].last /\ next.before = reader[r].before
      /\ next \in Resuming
  BY <1>3, Zenon DEF Resuming
<1> HIDE DEF next, ok
<1>5. ASSUME reader'[r] = next PROVE OneGood(r)'
  <2>1. BeforeGood(r)' /\ OwnRows(r)'
    BY <1>2, <1>4, <1>5, SameRows, Zenon
  <2>2. ColdRows(r)'
    BY <1>1, <1>3, <1>4, <1>5, Zenon DEF ColdRows, Cold
  <2> QED
    BY <1>4, <1>5, <2>1, <2>2, Zenon DEF OneGood
<1> QED
  BY <1>1, <1>2, <1>5, StepKeeps, Zenon

\* The frames of a served resume: the line from last_seq to seq, each from the
\* rows it read or from the ring.
Line(w, a, b) == w \in Seq(Entry) /\ Len(w) = b - a /\ \A i \in 1..Len(w) : w[i].seq = a + i
FromEither(w, fs) == \A i \in 1..Len(w) : w[i] \in fs \/ \E j \in 1..Len(ring) : w[i] = ring[j]
Served(r) == IF reader[r].src = "buffer" THEN RingTail(reader[r].last) ELSE BySeq(reader[r].rows) \o RingTail(Upto(r))

LEMMA ServedOK ==
    ASSUME IInv, SInv, NEW r \in Readers, reader[r].pc = "register",
           IF reader[r].src = "buffer" THEN Covers(ring, reader[r].last) ELSE TailCovered(r)
    PROVE  Line(Served(r), reader[r].last, seq) /\ FromEither(Served(r), reader[r].rows)
<1>1. /\ reader[r] \in Resuming /\ reader[r].last \in Nat /\ reader[r].rows \in SUBSET Entry
      /\ reader[r].src \in {"buffer", "db"} /\ OwnRows(r) /\ ColdRows(r)
      /\ ring \in Seq(Entry) /\ seq \in Nat /\ RingLine(ring, seq)
  BY Zenon DEF IInv, Types, SInv, ReaderGood, Resuming, LineGood
<1>2. CASE reader[r].src = "buffer"
  <2> DEFINE a == reader[r].last
             w == RingTail(a)
  <2>1. a \in Nat /\ Covers(ring, a) /\ Served(r) = w
    BY <1>1, <1>2, Zenon DEF Served
  <2> HIDE DEF a
  <2>2. /\ w \in Seq(Entry) /\ Len(w) = seq - a
        /\ \A i \in 1..Len(w) : w[i].seq = a + i /\ \E j \in 1..Len(ring) : w[i] = ring[j]
    BY <1>1, <2>1, RingTailOK, Zenon
  <2> HIDE DEF w
  <2> QED
    BY <2>1, <2>2, Zenon DEF Line, FromEither, a
<1>3. CASE reader[r].src = "db"
  <2> DEFINE a == reader[r].last
             b == Upto(r)
             fs == reader[r].rows
             u == BySeq(fs)
             v == RingTail(b)
             w == u \o v
  <2>1. Cold(reader[r]) /\ fs # {} /\ Served(r) = w /\ TailCovered(r)
    BY <1>1, <1>3, Zenon DEF ColdRows, Cold, Served
  <2>2. /\ b \in Nat /\ a < b /\ b <= seq /\ (\E f \in fs : f.seq = b) /\ \A g \in fs : g.seq <= b
    BY <2>1, UptoOK, Zenon
  <2>3. /\ a \in Nat /\ a <= b /\ fs \in SUBSET Entry /\ Distinct(fs) /\ (\A f \in fs : a < f.seq /\ f.seq <= b)
        /\ \A n \in (a + 1)..b : \E f \in fs : f.seq = n
    BY <1>1, <2>1, <2>2 DEF OwnRows, ColdRows
  <2>4. Covers(ring, b) \/ b = seq
    BY <2>1, Zenon DEF TailCovered
  <2> HIDE DEF a, b, fs
  <2>5. u \in Seq(Entry) /\ Len(u) = b - a /\ \A i \in 1..(b - a) : u[i] \in fs /\ u[i].seq = a + i
    BY <2>2, <2>3, BySeqOK, Zenon
  <2>6. /\ v \in Seq(Entry) /\ Len(v) = seq - b
        /\ \A i \in 1..Len(v) : v[i].seq = b + i /\ \E j \in 1..Len(ring) : v[i] = ring[j]
    BY <1>1, <2>2, <2>4, RingTailOK, Zenon
  <2> HIDE DEF u, v
  <2>7. /\ w \in Seq(Entry) /\ Len(w) = Len(u) + Len(v)
        /\ \A i \in 1..Len(u) : w[i] = u[i]
        /\ \A i \in 1..Len(v) : w[Len(u) + i] = v[i]
    <3>1. u \in Seq(Entry) /\ v \in Seq(Entry)
      BY <2>5, <2>6, Zenon
    <3> QED
      BY <3>1, Joined
  <2> HIDE DEF w
  <2>8. Len(w) = seq - a
    BY <1>1, <2>2, <2>3, <2>5, <2>6, <2>7, SMTT(30)
  <2>9. ASSUME NEW i \in 1..Len(w)
        PROVE  w[i].seq = a + i /\ (w[i] \in fs \/ \E j \in 1..Len(ring) : w[i] = ring[j])
    <3>1. CASE i <= Len(u)
      <4>1. i \in 1..Len(u) /\ i \in 1..(b - a) /\ w[i] = u[i]
        BY <2>2, <2>3, <2>5, <2>7, <3>1
      <4> QED
        BY <2>5, <4>1, Zenon
    <3>2. CASE ~(i <= Len(u))
      <4>1. PICK k \in 1..Len(v) : i = Len(u) + k
        <5>1. Len(u) \in Nat /\ Len(v) \in Nat
          BY <2>5, <2>6
        <5>2. i - Len(u) \in 1..Len(v) /\ i = Len(u) + (i - Len(u))
          BY <2>7, <3>2, <5>1
        <5> QED
          BY <5>2, Zenon
      <4>2. w[i] = v[k] /\ b + k = a + i
        BY <2>2, <2>3, <2>5, <2>7, <4>1
      <4> QED
        BY <2>6, <4>2, Zenon
    <3> QED
      BY <3>1, <3>2, Zenon
  <2> QED
    BY <2>1, <2>7, <2>8, <2>9, Zenon DEF Line, FromEither, a, fs
<1> QED
  BY <1>1, <1>2, <1>3, Zenon

\* Under seqMu the ring is read again and the watermark checked again.
LEMMA RegisterOK ==
    ASSUME IInv, SInv, NEW r \in Readers, reconnectRegister(r)
    PROVE  SInv'
<1> DEFINE ok == /\ ~mustFullResync(reader[r].last)
                 /\ IF reader[r].src = "buffer" THEN Covers(ring, reader[r].last) ELSE TailCovered(r)
           g == [frames |-> Served(r), from |-> reader[r].last, upto |-> seq, purged |-> Purged,
                 before |-> reader[r].before]
<1>1. /\ reader[r].pc = "register" /\ reader' = [reader EXCEPT ![r] = Idle]
      /\ got' = IF ~ok THEN [got EXCEPT ![r] = NotServed] ELSE [got EXCEPT ![r] = g]
      /\ UNCHANGED <<pipeline, purging>>
  BY Zenon DEF reconnectRegister, Served
<1>2. DOMAIN reader = Readers /\ DOMAIN reader' = Readers /\ DOMAIN got = Readers /\ DOMAIN got' = Readers
  BY <1>1, Zenon DEF SInv
<1>3. reader'[r] = Idle /\ \A q \in Readers \ {r} : reader'[q] = reader[q] /\ got'[q] = got[q]
  BY <1>1, <1>2, Zenon
<1>4. ReaderGood'
  <2>1. OneGood(r)'
    BY <1>3, IdleKeeps, Zenon
  <2>2. ASSUME NEW q \in Readers, q # r PROVE OneGood(q)'
    BY <1>1, <1>3, <2>2, OthersKeep, Zenon
  <2> QED
    BY <2>1, <2>2, Zenon DEF ReaderGood, OneGood
<1>5. LineGood' /\ LockGood' /\ PutGood' /\ users' = users
  BY <1>1, ReadStill, Zenon DEF SInv
<1> DEFINE Good(x) == /\ Len(x.frames) = x.upto - x.from
                      /\ \A i \in 1..Len(x.frames) : x.frames[i].seq = x.from + i
                      /\ \A s \in x.purged : s \in users => s \notin Data(x.frames)
                      /\ \A s \in x.before : s \notin Data(x.frames)
<1>6. Good(NotServed)
  BY DEF NotServed
<1>7. ASSUME ok PROVE Good(g)
  <2> DEFINE w == Served(r)
             a == reader[r].last
             fs == reader[r].rows
  <2>1. Line(w, a, seq) /\ FromEither(w, fs)
    BY <1>1, <1>7, ServedOK, Zenon
  <2>2. /\ a \in Nat /\ fs \in SUBSET Entry /\ OwnRows(r) /\ BeforeGood(r) /\ reader[r].before \subseteq Subjects
        /\ \A f \in fs : a < f.seq
    BY Zenon DEF SInv, ReaderGood, Resuming, OwnRows
  <2>3. ~(purgeW > 0 /\ a < purgeW)
    BY <1>7, Zenon DEF mustFullResync
  <2> HIDE DEF w, a, fs
  <2>4. ASSUME NEW s \in Purged, s \in users PROVE s \notin Data(w)
    <3>1. s \in Subjects /\ Put(s)
      BY Zenon DEF Purged, Put, Past, IInv, Types
    <3>2. Free(ring, s) /\ mark[s] <= purgeW /\ purgeW \in Nat /\ mark[s] \in Nat /\ Old(fs, s, mark[s])
      BY <2>2, <2>4, <3>1, ZenonT(30) DEF SInv, PutGood, Closed, IInv, Types, OwnRows, fs
    <3>3. \A f \in fs : f.data # s
      <4> SUFFICES ASSUME NEW f \in fs, f.data = s PROVE FALSE
        BY Zenon
      <4>1. f.seq \in Nat /\ a < f.seq /\ f.seq <= mark[s]
        BY <2>2, <3>2, EntrySeq, Zenon DEF Old
      <4> QED
        BY <2>2, <2>3, <3>2, <4>1, SMTT(30)
    <3> QED
      BY <2>1, <3>2, <3>3, Zenon DEF FromEither, Free, Data
  <2>5. ASSUME NEW s \in reader[r].before PROVE s \notin Data(w)
    <3>1. Free(ring, s) /\ \A f \in fs : f.data # s
      BY <2>2, Zenon DEF BeforeGood, Closed, fs
    <3> QED
      BY <2>1, <3>1, Zenon DEF FromEither, Free, Data
  <2>6. g.frames = w /\ g.from = a /\ g.upto = seq /\ g.purged = Purged /\ g.before = reader[r].before
    BY Zenon DEF w, a
  <2> HIDE DEF g
  <2>7. Len(g.frames) = g.upto - g.from /\ \A i \in 1..Len(g.frames) : g.frames[i].seq = g.from + i
    BY <2>1, <2>6, Zenon DEF Line
  <2> QED
    BY <2>4, <2>5, <2>6, <2>7, Zenon
<1>8. got'[r] = NotServed \/ (ok /\ got'[r] = g)
  BY <1>1, <1>2, Zenon
<1> HIDE DEF g, ok
<1>9. \A q \in Readers : Good(got'[q])
  <2>1. ASSUME NEW q \in Readers PROVE Good(got[q])
    BY Zenon DEF SInv, ServedComplete, ServedCleanly, ServedClean, ServedCleanAfter
  <2>2. Good(got'[r])
    BY <1>6, <1>7, <1>8, Zenon
  <2> QED
    BY <1>3, <2>1, <2>2, SMTT(30)
<1>10. ServedComplete' /\ ServedCleanly'
  BY <1>5, <1>9, Zenon DEF ServedComplete, ServedCleanly, ServedClean, ServedCleanAfter, Data
<1>11. (users \subseteq Subjects)'
  BY <1>5, Zenon DEF SInv
<1> QED
  BY <1>2, <1>4, <1>5, <1>10, <1>11, Zenon DEF SInv

-----------------------------------------------------------------------------
(* Tombstones expire; every action keeps the invariants.                     *)

\* The first n numbers are n (expire counts the aged batches at the front).
LEMMA FirstNumbers ==
    ASSUME NEW n \in Nat
    PROVE  IsFiniteSet(1..n) /\ Cardinality(1..n) = n
<1>1. 1 \in Int /\ n \in Int
  OBVIOUS
<1>2. IsFiniteSet(1..n) /\ Cardinality(1..n) = IF 1 > n THEN 0 ELSE n - 1 + 1
  BY <1>1, FS_Interval, Zenon
<1> QED
  BY <1>2

\* A batch that stays is behind every expired one.
LEMMA ExpiredBelow ==
    ASSUME NEW n \in 1..Len(batches), n \notin Expired, Len(batches) \in Nat
    PROVE  Cardinality(Expired) \in 0..(n - 1)
<1>1. n \in Nat \ {0} /\ n - 1 \in Nat
  OBVIOUS
<1>2. Expired \subseteq 1..(n - 1)
  <2> SUFFICES ASSUME NEW i \in Expired, ~(i < n) PROVE FALSE
    BY DEF Expired
  <2>1. i \in 1..Len(batches) /\ n \in 1..i
    BY DEF Expired
  <2>2. \A j \in 1..n : j \in 1..i
    BY <2>1
  <2> QED
    BY <2>1, <2>2, Zenon DEF Expired
<1>3. IsFiniteSet(1..(n - 1)) /\ Cardinality(1..(n - 1)) = n - 1
  BY <1>1, FirstNumbers, Zenon
<1>4. IsFiniteSet(Expired) /\ Cardinality(Expired) <= n - 1
  BY <1>2, <1>3, FS_Subset, ZenonT(30)
<1>5. Cardinality(Expired) \in Nat
  BY <1>4, FS_CardinalityType, Zenon
<1> QED
  BY <1>1, <1>4, <1>5, SMTT(30)

\* expire takes the tombstone of a subject nothing names any more, and every
\* tombstone it leaves keeps its batch.
LEMMA ExpireOK ==
    ASSUME IInv, expire
    PROVE  IInv'
<1> DEFINE c == Cardinality(Expired)
           kept == {t \in DOMAIN tomb : \A i \in Expired : ~Takes(batches[i], t)}
<1>1. /\ tomb' = [s \in kept |-> tomb[s]]
      /\ batches' = SubSeq(batches, c + 1, Len(batches))
      /\ UNCHANGED <<queue, seq, ring, pend, rows, purge, mark, spent, ban>>
  BY Zenon DEF expire, pipeline
<1>2. /\ batches \in Seq([seq : Nat, of : Subjects]) /\ Len(batches) \in Nat
      /\ DOMAIN tomb \subseteq Subjects /\ \A t \in DOMAIN tomb : tomb[t] \in Nat
  BY DEF IInv, Types
<1>3. DOMAIN tomb' = kept /\ \A t \in kept : tomb'[t] = tomb[t]
  BY <1>1, Zenon
<1>4. \A s \in DOMAIN tomb \ kept : s \in spent /\ Quiet(queue, s)
  <2> SUFFICES ASSUME NEW s \in DOMAIN tomb, s \notin kept PROVE s \in spent /\ Quiet(queue, s)
    BY Zenon
  <2>1. PICK i \in Expired : Takes(batches[i], s)
    BY Zenon
  <2>2. Aged(batches[i]) /\ batches[i].of = s
    <3>1. i \in 1..i
      BY <1>2, <2>1 DEF Expired
    <3> QED
      BY <2>1, <3>1, Zenon DEF Expired, Takes
  <2> QED
    BY <2>2, Zenon DEF Aged, Quiet
<1>5. c \in Nat /\ c <= Len(batches)
  <2>1. IsFiniteSet(1..Len(batches)) /\ Cardinality(1..Len(batches)) = Len(batches)
    BY <1>2, FirstNumbers, Zenon
  <2>2. Expired \subseteq 1..Len(batches)
    BY Zenon DEF Expired
  <2> QED
    BY <2>1, <2>2, FS_Subset, FS_CardinalityType, Zenon
<1>6. TombGood'
  <2> SUFFICES ASSUME NEW t \in DOMAIN tomb'
               PROVE  /\ tomb'[t] = mark'[t]
                      /\ \E i \in 1..Len(batches') : batches'[i].of = t /\ tomb'[t] = batches'[i].seq
    BY Zenon DEF TombGood, Takes
  <2>1. t \in kept /\ t \in DOMAIN tomb /\ tomb'[t] = tomb[t]
    BY <1>3, Zenon
  <2>2. PICK i \in 1..Len(batches) : Takes(batches[i], t)
    BY <2>1, Zenon DEF IInv, TombGood
  <2>3. i \notin Expired
    BY <2>1, <2>2, Zenon
  <2>4. c \in 0..(i - 1)
    BY <1>2, <2>3, ExpiredBelow, Zenon
  <2> HIDE DEF c, kept
  <2>5. i - c \in 1..Len(batches') /\ batches'[i - c] = batches[i]
    BY <1>1, <1>2, <2>4, SMTT(30)
  <2>6. tomb'[t] = mark'[t]
    BY <1>1, <2>1, Zenon DEF IInv, TombGood
  <2> QED
    BY <2>1, <2>2, <2>5, <2>6, Zenon DEF Takes
<1>7. batches' \in Seq([seq : Nat, of : Subjects])
  <2> DEFINE B == [seq : Nat, of : Subjects]
  <2>1. batches \in Seq(B)
    BY <1>2, Zenon
  <2> HIDE DEF c, B
  <2>2. SubSeq(batches, c + 1, Len(batches)) \in Seq(B)
    BY <1>5, <2>1
  <2> QED
    BY <1>1, <2>2, Zenon DEF B
<1>8. \A s \in Subjects : Shut(s) => Shut(s)'
  BY <1>1, <1>3, <1>4, Zenon DEF Shut
<1>9. StepsGood' /\ PendGood'
  BY <1>1, <1>8, Zenon DEF IInv, StepsGood, PendGood
<1>10. BanGood'
  BY <1>1, <1>3, Zenon DEF IInv, BanGood
<1>11. Types'
  BY <1>1, <1>2, <1>3, <1>7, Zenon DEF IInv, Types
<1> QED
  BY <1>6, <1>9, <1>10, <1>11, Zenon DEF IInv

\* What a resume does leaves the whole invariant alone.
LEMMA ReadOK ==
    ASSUME IInv, UNCHANGED <<pipeline, purging>>
    PROVE  IInv'
<1>1. UNCHANGED <<queue, seq, ring, pend, rows, tomb, batches, purge, mark, spent, ban>>
  BY Zenon DEF pipeline, purging
<1>2. Types' /\ PendGood'
  BY <1>1, Zenon DEF IInv, Types, PendGood
<1>3. StepsGood'
  BY <1>1, Zenon DEF IInv, StepsGood, Shut
<1>4. BanGood' /\ TombGood'
  BY <1>1, SMTT(30) DEF IInv, BanGood, TombGood, Takes
<1> QED
  BY <1>2, <1>3, <1>4, Zenon DEF IInv

\* The steps of a resume only read the pipeline and the purge.
LEMMA ResumeReads ==
    ASSUME NEW r \in Readers, Resume(r) \/ \E last \in 1..MaxSeq : reconnectPrecheck(r, last)
    PROVE  UNCHANGED <<pipeline, purging>>
BY Zenon DEF Resume, Step, reconnectPrecheck, selectRing, coldQuery, coldOldest, coldCount, coldTail, reconnectRegister

\* Every step keeps the invariant.
LEMMA NextOK == IInv /\ [Next]_vars => IInv'
<1> SUFFICES ASSUME IInv, [Next]_vars PROVE IInv'
  BY Zenon
<1>1. CASE UNCHANGED vars
  BY <1>1, ReadOK, Zenon DEF vars
<1>2. ASSUME NEW d \in Payloads, produce(d) \/ sendSequencedToUsers(d) PROVE IInv'
  BY <1>2, ProduceOK, SendOK, Zenon
<1>3. CASE dispatch
  BY <1>3, DispatchOK, Zenon
<1>4. ASSUME NEW lost \in BOOLEAN, persist(lost) PROVE IInv'
  BY <1>4, PersistOK, Zenon
<1>5. ASSUME NEW s \in Subjects, Purge(s) \/ giveUp(s) \/ purgeFails(s) \/ producersDone(s) PROVE IInv'
  BY <1>5, BanOK, AwaitOK, AsideOK, InstallOK, FlushOK, DeleteOK, ProducersDoneOK, ZenonT(30) DEF Purge
<1>6. CASE expire
  BY <1>6, ExpireOK, Zenon
<1>7. ASSUME NEW r \in Readers, Resume(r) \/ \E last \in 1..MaxSeq : reconnectPrecheck(r, last) PROVE IInv'
  BY <1>7, ResumeReads, ReadOK, Zenon
<1> QED
  BY <1>1, <1>2, <1>3, <1>4, <1>5, <1>6, <1>7, ZenonT(30) DEF Next

\* Every step keeps the invariant.
LEMMA ServedNext == IInv /\ SInv /\ [Next]_vars /\ IInv' => SInv'
<1> SUFFICES ASSUME IInv, SInv, [Next]_vars, IInv' PROVE SInv'
  BY Zenon
<1>1. LineGood /\ LockGood /\ PutGood
  BY Zenon DEF SInv
<1>2. CASE UNCHANGED vars
  <2>1. UNCHANGED <<pipeline, purging>> /\ UNCHANGED <<reader, got>>
    BY <1>2, Zenon DEF vars, reading
  <2>2. ASSUME NEW q \in Readers PROVE OneGood(q)'
    BY <2>1, OthersKeep, Zenon
  <2>3. ReaderGood'
    BY <2>2, Zenon DEF ReaderGood, OneGood
  <2>4. LineGood' /\ LockGood' /\ PutGood' /\ users' = users
    BY <1>1, <2>1, ReadStill, Zenon
  <2>5. ServedComplete' /\ ServedCleanly'
    BY <2>1, <2>4, Zenon DEF SInv, ServedComplete, ServedCleanly, ServedClean, ServedCleanAfter
  <2> QED
    BY <2>1, <2>3, <2>4, <2>5, Zenon DEF SInv
<1>3. ASSUME NEW d \in Payloads, produce(d) \/ sendSequencedToUsers(d) PROVE SInv'
  BY <1>1, <1>3, ProduceGoes, SendGoes, GoesOK, Zenon
<1>4. CASE dispatch
  BY <1>1, <1>4, DispatchGoes, GoesOK, Zenon
<1>5. ASSUME NEW lost \in BOOLEAN, persist(lost) PROVE SInv'
  BY <1>1, <1>5, PersistGoes, GoesOK, Zenon
<1>6. ASSUME NEW s \in Subjects, Purge(s) \/ giveUp(s) \/ purgeFails(s) \/ producersDone(s) PROVE SInv'
  <2>1. Goes
    BY <1>1, <1>6, QueueGoes, WaitGoes, InstallGoes, SettleGoes, ProducersDoneGoes, ZenonT(30) DEF Purge
  <2> QED
    BY <2>1, GoesOK, Zenon
<1>7. CASE expire
  BY <1>1, <1>7, ExpireGoes, GoesOK, Zenon
<1>8. ASSUME NEW r \in Readers, Resume(r) PROVE SInv'
  BY <1>8, SelectOK, QueryOK, OldestOK, CountOK, TailStepOK, RegisterOK, SMTT(30) DEF Resume
<1>9. ASSUME NEW r \in Readers, NEW last \in 1..MaxSeq, reconnectPrecheck(r, last) PROVE SInv'
  BY <1>9, PrecheckOK, Zenon
<1> QED
  BY <1>2, <1>3, <1>4, <1>5, <1>6, <1>7, <1>8, <1>9, ZenonT(30) DEF Next

-----------------------------------------------------------------------------
(* The theorems.                                                             *)

\* The inductive invariant of the replay purge holds in every reachable state.
THEOREM PurgeInvariant == Spec => []IInv
BY InitOK, NextOK, PTL DEF Spec

\* A purge that returned without an error has taken every frame naming its
\* subject out of ring, persister and table, and none comes back: the tombstone,
\* then the end of the last producer, outlast whatever was queued.
THEOREM ErasedIsForGood == Spec => []ErasedForGood
<1>1. IInv => ErasedForGood
  BY Zenon DEF IInv, StepsGood, Free, ErasedForGood, Data
<1> QED
  BY <1>1, PurgeInvariant, PTL

\* The tombstone of an erasure never drops the erasure's own member_ban, however
\* many attempts were made, given up or failed: the barrier of every attempt is
\* behind it in the queue.
THEOREM BanIsSequenced == Spec => []BanSequenced
<1>1. IInv => BanSequenced
  BY Zenon DEF IInv, BanGood, BanSequenced
<1> QED
  BY <1>1, PurgeInvariant, PTL

\* expireReplayTombstones never takes a tombstone that a replay from ring or
\* table could still need, and every tombstone has a batch that takes it.
THEOREM TombstonesAreKept == Spec => TombstonesKept
<1>1. IInv => NoneForgotten
  BY Zenon DEF IInv, TombGood, NoneForgotten
<1> DEFINE Outlives == \A s \in DOMAIN tomb \ DOMAIN tomb' : seq - mark[s] > RingSize + ColdCap
<1>2. IInv /\ [Next]_vars => [Outlives]_vars
  <2> SUFFICES ASSUME IInv, Next PROVE Outlives
    BY Zenon
  <2>1. CASE expire
    <3> SUFFICES ASSUME NEW s \in DOMAIN tomb, s \notin DOMAIN tomb'
                 PROVE  seq - mark[s] > RingSize + ColdCap
      BY Zenon
    <3>1. PICK i \in Expired : Takes(batches[i], s)
      BY <2>1, Zenon DEF expire
    <3>2. seq - batches[i].seq > RingSize + ColdCap
      <4>1. i \in 1..i
        BY <3>1 DEF Expired, IInv, Types
      <4> QED
        BY <3>1, <4>1, Zenon DEF Expired
    <3>3. batches[i].seq = mark[s]
      BY <3>1, Zenon DEF Takes, IInv, TombGood
    <3> QED
      BY <3>2, <3>3, Zenon
  <2>2. CASE ~expire
    <3>1. DOMAIN tomb \subseteq DOMAIN tomb'
      BY <2>2, ResumeReads, Zenon DEF Next, produce, sendSequencedToUsers, dispatch, persist, Purge, BroadcastMemberBan,
         awaitDispatch, lock, installAndDrop, flushReturns, deleteRows, giveUp, purgeFails, producersDone, purging
    <3> QED
      BY <3>1, Zenon
  <2> QED
    BY <2>1, <2>2, Zenon
<1>3. Spec => []NoneForgotten
  BY <1>1, PurgeInvariant, PTL
<1>4. Spec => OutlivesReplay
  BY <1>2, PurgeInvariant, PTL DEF Spec, OutlivesReplay
<1> QED
  BY <1>3, <1>4, Zenon DEF TombstonesKept

\* The invariant of resumes beside purges holds in every reachable state.
THEOREM ServedInvariant == Spec => []SInv
<1>1. Spec => [](IInv /\ SInv)
  BY InitOK, NextOK, ServedInit, ServedNext, PTL DEF Spec
<1> QED
  BY <1>1, PTL

\* A resume that is served from ring or table gets every frame after its last_seq,
\* in order: a slot RemoveWhere cleared, a row the purge deleted or the persister
\* lost sends it to the full ready instead.
THEOREM ServedIsComplete == Spec => []ServedComplete
<1>1. SInv => ServedComplete
  BY Zenon DEF SInv
<1> QED
  BY <1>1, ServedInvariant, PTL

\* No resume is served a frame of an erased user once the watermark moved, even
\* when it read the rows before, nor a frame of any subject purged before it began.
THEOREM ServedIsClean == Spec => []ServedCleanly
<1>1. SInv => ServedCleanly
  BY Zenon DEF SInv
<1> QED
  BY <1>1, ServedInvariant, PTL

=============================================================================
