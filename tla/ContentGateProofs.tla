-------------------------- MODULE ContentGateProofs --------------------------
(***************************************************************************)
(* Proofs about ContentGate for any channels, queue capacity, number of    *)
(* entries, relabellings and panics: the inductive invariant, the steps of *)
(* the lanes, the dispatch of a queued entry, and the theorems.            *)
(***************************************************************************)
EXTENDS ContentGate, TLAPS, FiniteSetTheorems, WellFoundedInduction

Kinds == {"content", "scoped", "global", "barrier"}
Entry == [id : Nat, ticket : Nat, content : BOOLEAN, gate : Nat]

Types ==
    /\ sent \in Seq([kind : Kinds, ch : Chans \cup {0}])
    /\ queue \in Seq(Nat)
    /\ lanes \in [Chans -> Seq(Entry)]
    /\ reads \in [Chans -> [through : Nat, epoch : Nat]]
    /\ ticket \in Nat /\ policy \in Nat \ {0}
    /\ barriers \subseteq [id : Nat, ticket : Nat]
    /\ gone \in Seq([id : Nat, gate : Nat])
    /\ stopped \in BOOLEAN
    /\ \A n \in DOMAIN asOf : asOf[n] \in Nat /\ asOf[n] <= policy

\* An entry that has left the queue: everything still queued came later.
Before(n, s, q) == n \in 1..Len(s) /\ \A i \in 1..Len(q) : n < q[i]

QueueGood ==
    /\ \A n \in 1..Len(sent) : sent[n].kind = "content" => sent[n].ch # 0
    /\ \A i \in 1..Len(queue) : queue[i] \in 1..Len(sent)
    /\ \A i, j \in 1..Len(queue) : i < j => queue[i] < queue[j]

\* What was dequeued was queued before what is queued now.
PastGood ==
    /\ \A c \in Chans : \A i \in 1..Len(lanes[c]) : Before(lanes[c][i].id, sent, queue)
    /\ \A i \in 1..Len(gone) : Before(gone[i].id, sent, queue)
    /\ \A b \in barriers : Before(b.id, sent, queue)
    /\ \A n \in closed \cup DOMAIN asOf : Before(n, sent, queue)

\* A lane holds its own channel's frames in order, each with its ticket.
LaneGood ==
    \A c \in Chans :
        /\ reads[c].through <= ticket
        /\ \A i \in 1..Len(lanes[c]) :
             /\ sent[lanes[c][i].id].ch = c
             /\ lanes[c][i].content <=> sent[lanes[c][i].id].kind = "content"
             /\ lanes[c][i].ticket <= ticket
        /\ \A i, j \in 1..Len(lanes[c]) :
             i < j => lanes[c][i].id < lanes[c][j].id /\ lanes[c][i].ticket < lanes[c][j].ticket

\* An answer applied, or to be applied, to a parked frame is no older than the frame.
GateGood ==
    \A c \in Chans : \A i \in 1..Len(lanes[c]) : lanes[c][i].content =>
        /\ lanes[c][i].id \in DOMAIN asOf
        /\ lanes[c][i].gate # 0 => asOf[lanes[c][i].id] <= lanes[c][i].gate
        /\ reads[c].epoch # 0 /\ lanes[c][i].ticket <= reads[c].through =>
             asOf[lanes[c][i].id] <= reads[c].epoch

\* What has gone out is older than what its channel's lane still holds.
GoneGood ==
    /\ ChannelOrder
    /\ \A i \in 1..Len(gone), c \in Chans : \A j \in 1..Len(lanes[c]) :
         sent[gone[i].id].ch = c => gone[i].id < lanes[c][j].id
    /\ \A i \in 1..Len(gone) : sent[gone[i].id].kind = "content" =>
         gone[i].id \in DOMAIN asOf /\ asOf[gone[i].id] <= gone[i].gate

\* Tickets order barriers and parked frames as the queue did.
BarrierGood ==
    /\ \A b \in barriers : b.ticket <= ticket
    /\ \A b \in barriers, c \in Chans : \A i \in 1..Len(lanes[c]) :
         b.ticket < lanes[c][i].ticket => b.id < lanes[c][i].id
    /\ ~stopped => \A n \in closed, c \in Chans : \A i \in 1..Len(lanes[c]) : n < lanes[c][i].id

\* g.parked is the number of parked frames.
Counted == IsFiniteSet(InLanes) /\ parked = Cardinality(InLanes)

IInv == Types /\ QueueGood /\ PastGood /\ LaneGood /\ GateGood /\ GoneGood /\ BarrierGood /\ Counted

-----------------------------------------------------------------------------
\* A set of naturals that is not empty has a least member.
LEMMA FirstFacts ==
    ASSUME NEW S \in SUBSET Nat, S # {}
    PROVE  First(S) \in S /\ \A n \in S : First(S) <= n
<1>1. IsWellFoundedOn(OpToRel(<, Nat), Nat)
  BY NatLessThanWellFounded, Zenon
<1>2. PICK m \in S : \A n \in S : ~(<<n, m>> \in OpToRel(<, Nat))
  BY <1>1, WFMin, Zenon
<1>3. \A n \in S : <<n, m>> \in Nat \X Nat /\ <<n, m>>[1] = n /\ <<n, m>>[2] = m
  BY Zenon
<1>4. \A n \in S : ~(n < m)
  BY <1>2, <1>3, Zenon DEF OpToRel
<1>5. \A n \in S : m <= n
  BY <1>4
<1> QED
  BY <1>5, Zenon DEF First

\* What the lanes and the reads are made of.
LEMMA LaneTypes ==
    ASSUME Types, NEW c \in Chans
    PROVE  /\ reads[c].through \in Nat /\ reads[c].epoch \in Nat
           /\ lanes[c] \in Seq(Entry) /\ Len(lanes[c]) \in Nat /\ DOMAIN lanes[c] = 1..Len(lanes[c])
           /\ \A i \in 1..Len(lanes[c]) :
                /\ lanes[c][i] \in Entry
                /\ lanes[c][i].id \in Nat /\ lanes[c][i].ticket \in Nat
                /\ lanes[c][i].content \in BOOLEAN /\ lanes[c][i].gate \in Nat
<1>1. reads[c].through \in Nat /\ reads[c].epoch \in Nat
  BY Zenon DEF Types
<1>2. lanes[c] \in Seq(Entry)
  BY Zenon DEF Types
<1>3. \A i \in 1..Len(lanes[c]) : lanes[c][i] \in Entry
  BY <1>2
<1>4. \A e \in Entry : e.id \in Nat /\ e.ticket \in Nat /\ e.content \in BOOLEAN /\ e.gate \in Nat
  BY Zenon DEF Entry
<1> QED
  BY <1>1, <1>2, <1>3, <1>4

\* Functions on 1..n are sequences, and what concatenation does to them.
LEMMA SeqOfFunction ==
    ASSUME NEW S, NEW n \in Nat, NEW f \in [1..n -> S]
    PROVE  f \in Seq(S) /\ Len(f) = n
  OBVIOUS

LEMMA ConcatFacts ==
    ASSUME NEW S, NEW a \in Seq(S), NEW b \in Seq(S)
    PROVE  /\ a \o b \in Seq(S) /\ Len(a \o b) = Len(a) + Len(b)
           /\ \A i \in 1..Len(a) : (a \o b)[i] = a[i]
           /\ \A i \in 1..Len(b) : (a \o b)[Len(a) + i] = b[i]
  OBVIOUS

\* What can leave a lane are the entries before the first one that still waits
\* for an answer.
LEMMA ReadyFacts ==
    ASSUME NEW lane \in Seq(Entry)
    PROVE  /\ Ready(lane) \in 0..Len(lane)
           /\ \A i \in 1..Ready(lane) : ~(lane[i].content /\ lane[i].gate = 0)
<1> DEFINE waiting == {i \in DOMAIN lane : lane[i].content /\ lane[i].gate = 0}
<1>1. waiting \in SUBSET Nat /\ waiting \subseteq 1..Len(lane)
  OBVIOUS
<1>2. Ready(lane) = IF waiting = {} THEN Len(lane) ELSE First(waiting) - 1
  BY Zenon DEF Ready
<1>3. \A i \in 1..Len(lane) : i \notin waiting => ~(lane[i].content /\ lane[i].gate = 0)
  OBVIOUS
<1> HIDE DEF waiting
<1>4. waiting # {} => First(waiting) \in waiting /\ \A n \in waiting : First(waiting) <= n
  BY <1>1, FirstFacts, Zenon
<1>5. Len(lane) \in Nat
  OBVIOUS
<1>6. Ready(lane) \in 0..Len(lane) /\ \A i \in 1..Ready(lane) : i \in 1..Len(lane) /\ i \notin waiting
  <2>1. CASE waiting = {}
    BY <2>1, <1>2, <1>5
  <2>2. CASE waiting # {}
    <3>1. PICK m \in 1..Len(lane) : m = First(waiting) /\ \A n \in waiting : m <= n
      BY <2>2, <1>1, <1>4, Zenon
    <3>2. Ready(lane) = m - 1
      BY <2>2, <3>1, <1>2, Zenon
    <3>3. m - 1 \in 0..Len(lane) /\ \A i \in 1..(m - 1) : i \in 1..Len(lane) /\ ~(m <= i)
      BY <1>5
    <3> QED
      BY <3>1, <3>2, <3>3, Zenon
  <2> QED
    BY <2>1, <2>2, Zenon
<1> QED
  BY <1>3, <1>6, Zenon

-----------------------------------------------------------------------------
\* The lane after an answer: the same frames, and an answer given to a content
\* frame is no older than the frame.
LEMMA AnsweredFacts ==
    ASSUME IInv, NEW c \in Chans, reads[c].epoch > 0
    PROVE  /\ Answered(c) \in Seq(Entry) /\ Len(Answered(c)) = Len(lanes[c])
           /\ \A i \in 1..Len(lanes[c]) :
                /\ Answered(c)[i].id = lanes[c][i].id
                /\ Answered(c)[i].ticket = lanes[c][i].ticket
                /\ Answered(c)[i].content = lanes[c][i].content
                /\ Answered(c)[i].content /\ Answered(c)[i].gate # 0 =>
                     asOf[lanes[c][i].id] <= Answered(c)[i].gate
<1> USE DEF IInv
<1>1. /\ reads[c].through \in Nat /\ reads[c].epoch \in Nat
      /\ lanes[c] \in Seq(Entry) /\ Len(lanes[c]) \in Nat /\ DOMAIN lanes[c] = 1..Len(lanes[c])
      /\ \A i \in 1..Len(lanes[c]) :
           /\ lanes[c][i] \in Entry
           /\ lanes[c][i].id \in Nat /\ lanes[c][i].ticket \in Nat
           /\ lanes[c][i].content \in BOOLEAN /\ lanes[c][i].gate \in Nat
  BY LaneTypes, Zenon
<1>2. ASSUME NEW i \in 1..Len(lanes[c])
      PROVE  /\ Answered(c)[i] \in Entry
             /\ Answered(c)[i].id = lanes[c][i].id
             /\ Answered(c)[i].ticket = lanes[c][i].ticket
             /\ Answered(c)[i].content = lanes[c][i].content
             /\ Answered(c)[i].content /\ Answered(c)[i].gate # 0 =>
                  asOf[lanes[c][i].id] <= Answered(c)[i].gate
  <2>1. Answered(c)[i] = IF Applies(lanes[c][i], reads[c]) THEN [lanes[c][i] EXCEPT !.gate = reads[c].epoch]
                         ELSE lanes[c][i]
    BY <1>1, Zenon DEF Answered
  <2>2. CASE Applies(lanes[c][i], reads[c])
    <3>1. /\ Answered(c)[i] \in Entry
          /\ Answered(c)[i].id = lanes[c][i].id
          /\ Answered(c)[i].ticket = lanes[c][i].ticket
          /\ Answered(c)[i].content = lanes[c][i].content
          /\ Answered(c)[i].gate = reads[c].epoch
      BY <2>1, <2>2, <1>1, Zenon DEF Entry
    <3>2. lanes[c][i].content /\ lanes[c][i].ticket <= reads[c].through
      BY <2>2, Zenon DEF Applies
    <3>3. asOf[lanes[c][i].id] <= reads[c].epoch
      BY <3>2, <1>1 DEF GateGood
    <3> QED
      BY <3>1, <3>3, Zenon
  <2>3. CASE ~Applies(lanes[c][i], reads[c])
    BY <2>1, <2>3, <1>1, Zenon DEF GateGood
  <2> QED
    BY <2>2, <2>3, Zenon
<1>3. DOMAIN Answered(c) = 1..Len(lanes[c]) /\ Answered(c) = [i \in 1..Len(lanes[c]) |-> Answered(c)[i]]
  BY <1>1, Zenon DEF Answered
<1>4. Answered(c) \in Seq(Entry) /\ Len(Answered(c)) = Len(lanes[c])
  <2>1. Answered(c) \in [1..Len(lanes[c]) -> Entry]
    BY <1>2, <1>3, Zenon
  <2> QED
    BY <2>1, <1>1, SeqOfFunction, Zenon
<1> QED
  BY <1>2, <1>4, Zenon

\* k different values are k.
LEMMA CountDistinct ==
    ASSUME NEW k \in Nat, NEW T, NEW f \in [1..k -> T],
           \A t \in T : \E i \in 1..k : f[i] = t,
           \A i, j \in 1..k : f[i] = f[j] => i = j
    PROVE  IsFiniteSet(T) /\ Cardinality(T) = k
<1>1. f \in Surjection(1..k, T) /\ f \in Injection(1..k, T)
  BY Zenon DEF Surjection, Injection, IsInjective
<1>2. IsFiniteSet(1..k) /\ Cardinality(1..k) = k
  <2>1. \A a, b \in Int : IsFiniteSet(a..b) /\ Cardinality(a..b) = IF a > b THEN 0 ELSE b - a + 1
    BY FS_Interval, Zenon
  <2>2. 1 \in Int /\ k \in Int
    OBVIOUS
  <2>3. IsFiniteSet(1..k) /\ Cardinality(1..k) = IF 1 > k THEN 0 ELSE k - 1 + 1
    BY <2>1, <2>2, Zenon
  <2>4. (IF 1 > k THEN 0 ELSE k - 1 + 1) = k
    OBVIOUS
  <2> QED
    BY <2>3, <2>4
<1> QED
  BY <1>1, <1>2, FS_Surjection, Zenon

\* What a drain that removed k entries and delivered m of them did.
Drained(c, k, m) ==
    /\ k \in 0..Len(lanes[c]) /\ m \in 0..k
    /\ lanes' \in [Chans -> Seq(Entry)]
    /\ \A d \in Chans \ {c} : lanes'[d] = lanes[d] /\ reads'[d] = reads[d]
    /\ Len(lanes'[c]) = Len(lanes[c]) - k
    /\ \A i \in 1..Len(lanes'[c]) : k + i \in 1..Len(lanes[c]) /\ lanes'[c][i] = Answered(c)[k + i]
    /\ reads' \in [Chans -> [through : Nat, epoch : Nat]]
    /\ reads'[c].epoch = 0 /\ reads'[c].through <= ticket
    /\ parked' = parked - k
    /\ gone' \in Seq([id : Nat, gate : Nat]) /\ Len(gone') = Len(gone) + m
    /\ \A i \in 1..Len(gone) : gone'[i] = gone[i]
    /\ \A i \in 1..m : /\ i \in 1..Len(lanes[c])
                       /\ gone'[Len(gone) + i].id = lanes[c][i].id
                       /\ gone'[Len(gone) + i].gate = Answered(c)[i].gate
                       /\ ~(Answered(c)[i].content /\ Answered(c)[i].gate = 0)
    /\ barriers' \subseteq barriers
    /\ \A n \in closed' : n \in closed \/ \E b \in barriers : b.id = n /\ Releasable(b, lanes', c)

\* onGateResolved removes a prefix of the lane, answered, and delivers all of it
\* or, in a panic, all but its last.
LEMMA ResolvedDrains ==
    ASSUME IInv, NEW c \in Chans, NEW failed \in BOOLEAN, onGateResolved(c, failed)
    PROVE  \E k, m \in Nat : Drained(c, k, m)
<1> USE DEF IInv
<1> DEFINE lane == Answered(c)
           n == Ready(lane)
<1>1. reads[c].epoch > 0
  BY Zenon DEF onGateResolved
<1>2. /\ lane \in Seq(Entry) /\ Len(lane) = Len(lanes[c])
      /\ \A i \in 1..Len(lanes[c]) : lane[i].id = lanes[c][i].id
  BY <1>1, AnsweredFacts, Zenon
<1>3. Len(lane) \in Nat /\ n \in 0..Len(lane) /\ \A i \in 1..n : ~(lane[i].content /\ lane[i].gate = 0)
  BY <1>2, ReadyFacts, SMTT(30)
<1>4. PICK k \in IF failed THEN 1..n ELSE {n} : \E m \in IF failed THEN {k - 1, k} ELSE {k} :
         LET rest == SubSeq(lane, k + 1, Len(lane))
             out  == SubSeq(lane, 1, m)
             free == {b \in barriers : Releasable(b, lanes', c)}
         IN  /\ lanes' = [lanes EXCEPT ![c] = rest] /\ parked' = parked - k
             /\ reads' = [reads EXCEPT ![c] = NextRead(rest)]
             /\ gone' = gone \o [i \in DOMAIN out |-> [id |-> out[i].id, gate |-> out[i].gate]]
             /\ barriers' = barriers \ free
             /\ closed' = closed \cup {b.id : b \in free}
  BY Zenon DEF onGateResolved
<1> HIDE DEF lane, n
<1>5. k \in 0..n /\ k \in Nat /\ k <= Len(lane)
  BY <1>3, <1>4
<1> DEFINE rest == SubSeq(lane, k + 1, Len(lane))
           free == {b \in barriers : Releasable(b, lanes', c)}
<1>6. PICK m \in IF failed THEN {k - 1, k} ELSE {k} :
             /\ lanes' = [lanes EXCEPT ![c] = rest] /\ parked' = parked - k
             /\ reads' = [reads EXCEPT ![c] = NextRead(rest)]
             /\ gone' = gone \o [i \in DOMAIN SubSeq(lane, 1, m) |->
                          [id |-> SubSeq(lane, 1, m)[i].id, gate |-> SubSeq(lane, 1, m)[i].gate]]
             /\ barriers' = barriers \ free
             /\ closed' = closed \cup {b.id : b \in free}
  BY <1>4, Zenon
<1>7. m \in 0..k /\ m \in Nat /\ m <= Len(lane)
  BY <1>3, <1>4, <1>5, <1>6
<1>8. /\ rest \in Seq(Entry) /\ Len(rest) = Len(lane) - k
      /\ \A i \in 1..Len(rest) : k + i \in 1..Len(lane) /\ rest[i] = lane[k + i]
  BY <1>2, <1>3, <1>5, SMTT(30)
<1> DEFINE out == SubSeq(lane, 1, m)
           sentOut == [i \in DOMAIN out |-> [id |-> out[i].id, gate |-> out[i].gate]]
<1>9. /\ out \in Seq(Entry) /\ Len(out) = m /\ DOMAIN out = 1..m
      /\ \A i \in 1..m : i \in 1..Len(lane) /\ i \in 1..n /\ out[i] = lane[i]
  BY <1>2, <1>3, <1>5, <1>7
<1> HIDE DEF rest, out
<1>10. \A i \in 1..m : /\ lane[i] \in Entry /\ lane[i].id \in Nat /\ lane[i].gate \in Nat
                       /\ sentOut[i].id = lane[i].id /\ sentOut[i].gate = lane[i].gate
                       /\ sentOut[i] \in [id : Nat, gate : Nat]
  <2>1. \A e \in Entry : e.id \in Nat /\ e.gate \in Nat
    BY Zenon DEF Entry
  <2>2. \A i \in 1..m : lane[i] \in Entry
    BY <1>2, <1>9
  <2> QED
    BY <2>1, <2>2, <1>9, Zenon
<1>11. sentOut \in Seq([id : Nat, gate : Nat]) /\ Len(sentOut) = m
  <2>1. sentOut \in [1..m -> [id : Nat, gate : Nat]]
    BY <1>9, <1>10, Zenon
  <2> HIDE DEF sentOut
  <2> QED
    BY <2>1, <1>7, SeqOfFunction, Zenon
<1>12. gone' = gone \o sentOut
  BY <1>6, Zenon DEF out
<1> HIDE DEF sentOut
<1>13. /\ gone' \in Seq([id : Nat, gate : Nat]) /\ Len(gone') = Len(gone) + m
       /\ \A i \in 1..Len(gone) : gone'[i] = gone[i]
       /\ \A i \in 1..m : gone'[Len(gone) + i] = sentOut[i]
  <2> DEFINE R == [id : Nat, gate : Nat]
  <2>1. gone \in Seq(R) /\ sentOut \in Seq(R)
    BY <1>11, Zenon DEF Types
  <2> HIDE DEF R
  <2>2. /\ gone \o sentOut \in Seq(R) /\ Len(gone \o sentOut) = Len(gone) + Len(sentOut)
        /\ \A i \in 1..Len(gone) : (gone \o sentOut)[i] = gone[i]
        /\ \A i \in 1..Len(sentOut) : (gone \o sentOut)[Len(gone) + i] = sentOut[i]
    BY <2>1, ConcatFacts
  <2> QED
    BY <2>2, <1>11, <1>12, SMTT(30) DEF R
<1>14. /\ lanes' \in [Chans -> Seq(Entry)] /\ lanes'[c] = rest
       /\ \A d \in Chans \ {c} : lanes'[d] = lanes[d]
  <2>1. lanes \in [Chans -> Seq(Entry)]
    BY Zenon DEF Types
  <2> QED
    BY <2>1, <1>6, <1>8, Zenon
<1>15. /\ reads' \in [Chans -> [through : Nat, epoch : Nat]]
       /\ reads'[c].epoch = 0 /\ reads'[c].through <= ticket
       /\ \A d \in Chans \ {c} : reads'[d] = reads[d]
  <2>1. ticket \in Nat /\ reads \in [Chans -> [through : Nat, epoch : Nat]]
    BY Zenon DEF Types
  <2>2. NextRead(rest) \in [through : Nat, epoch : Nat] /\ NextRead(rest).epoch = 0 /\ NextRead(rest).through <= ticket
    BY <2>1 DEF NextRead, NoRead, Issued
  <2> QED
    BY <2>1, <2>2, <1>6, Zenon
<1>16. /\ barriers' \subseteq barriers
       /\ \A x \in closed' : x \in closed \/ \E b \in barriers : b.id = x /\ Releasable(b, lanes', c)
  BY <1>6, Zenon
<1>17. Drained(c, k, m)
  <2>1. lane = Answered(c)
    BY Zenon DEF lane
  <2>2. k \in 0..Len(lanes[c]) /\ m \in 0..k
    BY <1>2, <1>3, <1>5, <1>7
  <2>3. /\ Len(lanes'[c]) = Len(lanes[c]) - k
        /\ \A i \in 1..Len(lanes'[c]) : k + i \in 1..Len(lanes[c]) /\ lanes'[c][i] = lane[k + i]
    BY <1>2, <1>8, <1>14, Zenon
  <2>4. ASSUME NEW i \in 1..m
        PROVE  /\ i \in 1..Len(lanes[c])
               /\ gone'[Len(gone) + i].id = lanes[c][i].id
               /\ gone'[Len(gone) + i].gate = lane[i].gate
               /\ ~(lane[i].content /\ lane[i].gate = 0)
    BY <1>2, <1>3, <1>9, <1>10, <1>13, Zenon
  <2>5. parked' = parked - k
    BY <1>6, Zenon
  <2> QED
    BY <2>1, <2>2, <2>3, <2>4, <2>5, <1>13, <1>14, <1>15, <1>16, Zenon DEF Drained
<1> QED
  BY <1>5, <1>7, <1>17, Zenon

\* The place in the old lane of what is now at the front of lane d.
Shift(c, k, d) == IF d = c THEN k ELSE 0

\* What the lanes hold after a drain, apart from answers.
Shifted(c, k) ==
    \A d \in Chans :
        /\ Len(lanes[d]) \in Nat /\ Shift(c, k, d) \in Nat /\ Shift(c, k, d) <= Len(lanes[d])
        /\ Len(lanes'[d]) = Len(lanes[d]) - Shift(c, k, d)
        /\ \A i \in 1..Len(lanes'[d]) :
             /\ i + Shift(c, k, d) \in 1..Len(lanes[d])
             /\ lanes'[d][i].id = lanes[d][i + Shift(c, k, d)].id
             /\ lanes'[d][i].ticket = lanes[d][i + Shift(c, k, d)].ticket
             /\ lanes'[d][i].content = lanes[d][i + Shift(c, k, d)].content

\* What a drain leaves alone.
DrainFrame == UNCHANGED <<sent, queue, ticket, policy, stopped, asOf>> /\ ~stopped

\* The answered lane, as AnsweredFacts says.
AnsweredGood(c) ==
    /\ lanes[c] \in Seq(Entry) /\ Len(lanes[c]) \in Nat
    /\ \A i \in 1..Len(lanes[c]) :
         /\ Answered(c)[i].id = lanes[c][i].id
         /\ Answered(c)[i].ticket = lanes[c][i].ticket
         /\ Answered(c)[i].content = lanes[c][i].content
         /\ Answered(c)[i].content /\ Answered(c)[i].gate # 0 =>
              asOf[lanes[c][i].id] <= Answered(c)[i].gate

\* A drain moves its own lane up and leaves the others.
LEMMA DrainShifts ==
    ASSUME IInv, NEW c \in Chans, NEW k \in Nat, NEW m \in Nat, Drained(c, k, m), AnsweredGood(c)
    PROVE  Shifted(c, k)
<1> USE DEF IInv
<1> DEFINE shift(d) == Shift(c, k, d)
<1>1. Drained(c, k, m)
  BY Zenon
<1>3. /\ lanes[c] \in Seq(Entry) /\ Len(lanes[c]) \in Nat
      /\ \A i \in 1..Len(lanes[c]) :
           /\ Answered(c)[i].id = lanes[c][i].id
           /\ Answered(c)[i].ticket = lanes[c][i].ticket
           /\ Answered(c)[i].content = lanes[c][i].content
           /\ Answered(c)[i].content /\ Answered(c)[i].gate # 0 =>
                asOf[lanes[c][i].id] <= Answered(c)[i].gate
  BY Zenon DEF AnsweredGood
<1>4. ASSUME NEW d \in Chans
      PROVE  /\ Len(lanes[d]) \in Nat /\ shift(d) \in Nat /\ shift(d) <= Len(lanes[d])
             /\ Len(lanes'[d]) = Len(lanes[d]) - shift(d)
             /\ \A i \in 1..Len(lanes'[d]) :
                  /\ i + shift(d) \in 1..Len(lanes[d])
                  /\ lanes'[d][i].id = lanes[d][i + shift(d)].id
                  /\ lanes'[d][i].ticket = lanes[d][i + shift(d)].ticket
                  /\ lanes'[d][i].content = lanes[d][i + shift(d)].content
  <2>1. Len(lanes[d]) \in Nat
    BY LaneTypes, Zenon
  <2>2. CASE d = c
    <3>1. /\ k <= Len(lanes[c]) /\ Len(lanes'[c]) = Len(lanes[c]) - k
          /\ \A i \in 1..Len(lanes'[c]) : k + i \in 1..Len(lanes[c]) /\ lanes'[c][i] = Answered(c)[k + i] /\ k + i = i + k
      BY <1>1, <1>3 DEF Drained
    <3> QED
      BY <2>1, <2>2, <3>1, <1>3, SMTT(30) DEF Shift
  <2>3. CASE d # c
    <3>1. lanes'[d] = lanes[d] /\ shift(d) = 0
      BY <2>3, <1>1, Zenon DEF Drained, Shift
    <3> QED
      BY <2>1, <3>1
  <2> QED
    BY <2>2, <2>3, Zenon
<1> QED
  BY <1>4, Zenon DEF Shifted

\* The lanes stay in order.
LEMMA DrainKeepsLanes ==
    ASSUME IInv, NEW c \in Chans, NEW k \in Nat, NEW m \in Nat, Drained(c, k, m), Shifted(c, k),
           AnsweredGood(c), DrainFrame
    PROVE  LaneGood'
<1> USE DEF IInv
<1> DEFINE shift(d) == Shift(c, k, d)
<1>1. Drained(c, k, m)
  BY Zenon
<1>2. UNCHANGED <<sent, queue, ticket, policy, stopped, asOf>> /\ ~stopped
  BY Zenon DEF DrainFrame
<1>4. ASSUME NEW d \in Chans
      PROVE  /\ Len(lanes[d]) \in Nat /\ shift(d) \in Nat /\ shift(d) <= Len(lanes[d])
             /\ Len(lanes'[d]) = Len(lanes[d]) - shift(d)
             /\ \A i \in 1..Len(lanes'[d]) :
                  /\ i + shift(d) \in 1..Len(lanes[d])
                  /\ lanes'[d][i].id = lanes[d][i + shift(d)].id
                  /\ lanes'[d][i].ticket = lanes[d][i + shift(d)].ticket
                  /\ lanes'[d][i].content = lanes[d][i + shift(d)].content
  BY Zenon DEF Shifted
<1> HIDE DEF shift
<1>10. LaneGood'
  <2> SUFFICES ASSUME NEW d \in Chans
               PROVE  /\ reads'[d].through <= ticket
                      /\ \A i \in 1..Len(lanes'[d]) :
                           /\ sent[lanes'[d][i].id].ch = d
                           /\ lanes'[d][i].content <=> sent[lanes'[d][i].id].kind = "content"
                           /\ lanes'[d][i].ticket <= ticket
                      /\ \A i, j \in 1..Len(lanes'[d]) : i < j =>
                           lanes'[d][i].id < lanes'[d][j].id /\ lanes'[d][i].ticket < lanes'[d][j].ticket
    BY <1>2 DEF LaneGood
  <2>1. reads'[d].through <= ticket
    BY <1>1, Zenon DEF Drained, LaneGood
  <2>2. ASSUME NEW i \in 1..Len(lanes'[d])
        PROVE  /\ sent[lanes'[d][i].id].ch = d
               /\ lanes'[d][i].content <=> sent[lanes'[d][i].id].kind = "content"
               /\ lanes'[d][i].ticket <= ticket
    <3> DEFINE j == i + shift(d)
    <3>1. /\ j \in 1..Len(lanes[d])
          /\ lanes'[d][i].id = lanes[d][j].id /\ lanes'[d][i].ticket = lanes[d][j].ticket
          /\ lanes'[d][i].content = lanes[d][j].content
      BY <1>4, Zenon
    <3> HIDE DEF j
    <3> QED
      BY <3>1 DEF LaneGood
  <2>3. ASSUME NEW i \in 1..Len(lanes'[d]), NEW j \in 1..Len(lanes'[d]), i < j
        PROVE  lanes'[d][i].id < lanes'[d][j].id /\ lanes'[d][i].ticket < lanes'[d][j].ticket
    <3> DEFINE x == i + shift(d)
               y == j + shift(d)
    <3>1. /\ x \in 1..Len(lanes[d]) /\ y \in 1..Len(lanes[d]) /\ x < y
      BY <2>3, <1>4, SMTT(30)
    <3>2. /\ lanes'[d][i].id = lanes[d][x].id /\ lanes'[d][i].ticket = lanes[d][x].ticket
          /\ lanes'[d][j].id = lanes[d][y].id /\ lanes'[d][j].ticket = lanes[d][y].ticket
      BY <1>4, Zenon
    <3> HIDE DEF x, y
    <3> QED
      BY <3>1, <3>2 DEF LaneGood
  <2> QED
    BY <2>1, <2>2, <2>3, Zenon
<1> QED
  BY <1>10, Zenon

\* No answer becomes older than its frame.
LEMMA DrainKeepsGates ==
    ASSUME IInv, NEW c \in Chans, NEW k \in Nat, NEW m \in Nat, Drained(c, k, m), Shifted(c, k),
           AnsweredGood(c), DrainFrame
    PROVE  GateGood'
<1> USE DEF IInv
<1> DEFINE shift(d) == Shift(c, k, d)
<1>1. Drained(c, k, m)
  BY Zenon
<1>2. UNCHANGED <<sent, queue, ticket, policy, stopped, asOf>> /\ ~stopped
  BY Zenon DEF DrainFrame
<1>3. /\ lanes[c] \in Seq(Entry) /\ Len(lanes[c]) \in Nat
      /\ \A i \in 1..Len(lanes[c]) :
           /\ Answered(c)[i].id = lanes[c][i].id
           /\ Answered(c)[i].ticket = lanes[c][i].ticket
           /\ Answered(c)[i].content = lanes[c][i].content
           /\ Answered(c)[i].content /\ Answered(c)[i].gate # 0 =>
                asOf[lanes[c][i].id] <= Answered(c)[i].gate
  BY Zenon DEF AnsweredGood
<1>11. GateGood'
  <2> SUFFICES ASSUME NEW d \in Chans, NEW i \in 1..Len(lanes'[d]), lanes'[d][i].content
               PROVE  /\ lanes'[d][i].id \in DOMAIN asOf
                      /\ lanes'[d][i].gate # 0 => asOf[lanes'[d][i].id] <= lanes'[d][i].gate
                      /\ reads'[d].epoch # 0 /\ lanes'[d][i].ticket <= reads'[d].through =>
                           asOf[lanes'[d][i].id] <= reads'[d].epoch
    BY <1>2, Zenon DEF GateGood
  <2>1. CASE d = c
    <3>1. k + i \in 1..Len(lanes[c]) /\ lanes'[c][i] = Answered(c)[k + i] /\ reads'[c].epoch = 0
      BY <2>1, <1>1, Zenon DEF Drained
    <3>2. lanes[c][k + i].content /\ lanes[c][k + i].id \in DOMAIN asOf
      BY <2>1, <3>1, <1>3 DEF GateGood
    <3> QED
      BY <2>1, <3>1, <3>2, <1>3, Zenon
  <2>2. CASE d # c
    <3>1. lanes'[d] = lanes[d] /\ reads'[d] = reads[d]
      BY <2>2, <1>1, Zenon DEF Drained
    <3> QED
      BY <3>1, Zenon DEF GateGood
  <2> QED
    BY <2>1, <2>2, Zenon
<1> QED
  BY <1>11, Zenon

\* What a drain sends comes after what has gone and before what is left of the lane.
LEMMA DrainKeepsGone ==
    ASSUME IInv, NEW c \in Chans, NEW k \in Nat, NEW m \in Nat, Drained(c, k, m), Shifted(c, k),
           AnsweredGood(c), DrainFrame
    PROVE  GoneGood' /\ PastGood'
<1> USE DEF IInv
<1> DEFINE shift(d) == Shift(c, k, d)
<1>1. Drained(c, k, m)
  BY Zenon
<1>2. UNCHANGED <<sent, queue, ticket, policy, stopped, asOf>> /\ ~stopped
  BY Zenon DEF DrainFrame
<1>3. /\ lanes[c] \in Seq(Entry) /\ Len(lanes[c]) \in Nat
      /\ \A i \in 1..Len(lanes[c]) :
           /\ Answered(c)[i].id = lanes[c][i].id
           /\ Answered(c)[i].ticket = lanes[c][i].ticket
           /\ Answered(c)[i].content = lanes[c][i].content
           /\ Answered(c)[i].content /\ Answered(c)[i].gate # 0 =>
                asOf[lanes[c][i].id] <= Answered(c)[i].gate
  BY Zenon DEF AnsweredGood
<1>4. ASSUME NEW d \in Chans
      PROVE  /\ Len(lanes[d]) \in Nat /\ shift(d) \in Nat /\ shift(d) <= Len(lanes[d])
             /\ Len(lanes'[d]) = Len(lanes[d]) - shift(d)
             /\ \A i \in 1..Len(lanes'[d]) :
                  /\ i + shift(d) \in 1..Len(lanes[d])
                  /\ lanes'[d][i].id = lanes[d][i + shift(d)].id
                  /\ lanes'[d][i].ticket = lanes[d][i + shift(d)].ticket
                  /\ lanes'[d][i].content = lanes[d][i + shift(d)].content
  BY Zenon DEF Shifted
<1> HIDE DEF shift
<1>7. /\ Len(gone) \in Nat /\ Len(gone') = Len(gone) + m
      /\ \A i \in 1..Len(gone) : gone'[i] = gone[i]
      /\ \A j \in 1..m : /\ j \in 1..Len(lanes[c])
                         /\ gone'[Len(gone) + j].id = lanes[c][j].id
  <2>1. Len(gone) \in Nat
    BY DEF Types
  <2> QED
    BY <2>1, <1>1, Zenon DEF Drained
<1>8. ASSUME NEW i \in 1..Len(gone')
      PROVE  \/ i \in 1..Len(gone) /\ gone'[i] = gone[i]
             \/ \E j \in 1..m : i = Len(gone) + j
  <2>1. CASE i <= Len(gone)
    BY <2>1, <1>7
  <2>2. CASE i > Len(gone)
    <3>1. i - Len(gone) \in 1..m /\ i = Len(gone) + (i - Len(gone))
      BY <2>2, <1>7
    <3> QED
      BY <3>1, SMTT(30)
  <2>3. i <= Len(gone) \/ i > Len(gone)
    BY <1>7, SMTT(30)
  <2> QED
    BY <2>1, <2>2, <2>3, Zenon
<1>9. PastGood'
  <2>1. ASSUME NEW d \in Chans, NEW i \in 1..Len(lanes'[d]) PROVE Before(lanes'[d][i].id, sent, queue)
    BY <1>4, Zenon DEF PastGood
  <2>2. ASSUME NEW i \in 1..Len(gone') PROVE Before(gone'[i].id, sent, queue)
    <3>1. CASE i \in 1..Len(gone) /\ gone'[i] = gone[i]
      BY <3>1, Zenon DEF PastGood
    <3>2. CASE \E j \in 1..m : i = Len(gone) + j
      BY <3>2, <1>7, Zenon DEF PastGood
    <3> QED
      BY <3>1, <3>2, <1>8, Zenon
  <2>3. \A b \in barriers' : Before(b.id, sent, queue)
    BY <1>1, Zenon DEF PastGood, Drained
  <2>4. \A n \in closed' \cup DOMAIN asOf : Before(n, sent, queue)
    BY <1>1, Zenon DEF PastGood, Drained
  <2> QED
    BY <2>1, <2>2, <2>3, <2>4, <1>2, Zenon DEF PastGood
<1>12. ChannelOrder'
  <2> SUFFICES ASSUME NEW i \in 1..Len(gone'), NEW j \in 1..Len(gone'), i < j,
                      sent[gone'[i].id].ch = sent[gone'[j].id].ch
               PROVE  gone'[i].id < gone'[j].id
    BY <1>2, Zenon DEF ChannelOrder
  <2>1. CASE j \in 1..Len(gone) /\ gone'[j] = gone[j]
    <3>1. i \in 1..Len(gone) /\ gone'[i] = gone[i]
      BY <2>1, <1>7
    <3> QED
      BY <2>1, <3>1, Zenon DEF GoneGood, ChannelOrder
  <2>2. CASE \E y \in 1..m : j = Len(gone) + y
    <3>1. PICK y \in 1..m : j = Len(gone) + y
      BY <2>2, SMTT(30)
    <3>2. y \in 1..Len(lanes[c]) /\ gone'[j].id = lanes[c][y].id /\ sent[lanes[c][y].id].ch = c
      BY <3>1, <1>7, Zenon DEF LaneGood
    <3>3. CASE i \in 1..Len(gone) /\ gone'[i] = gone[i]
      BY <3>2, <3>3, SMTT(30) DEF GoneGood
    <3>4. CASE \E x \in 1..m : i = Len(gone) + x
      <4>1. PICK x \in 1..m : i = Len(gone) + x
        BY <3>4, Zenon
      <4>2. x \in 1..Len(lanes[c]) /\ gone'[i].id = lanes[c][x].id /\ x < y
        BY <3>1, <4>1, <1>7
      <4> QED
        BY <3>2, <4>2 DEF LaneGood
    <3> QED
      BY <3>3, <3>4, <1>8, Zenon
  <2> QED
    BY <2>1, <2>2, <1>8, Zenon
<1>13. GoneGood'
  <2>1. ASSUME NEW i \in 1..Len(gone'), NEW d \in Chans, NEW j \in 1..Len(lanes'[d]), sent[gone'[i].id].ch = d
        PROVE  gone'[i].id < lanes'[d][j].id
    <3>1. CASE i \in 1..Len(gone) /\ gone'[i] = gone[i]
      BY <2>1, <3>1, <1>4, Zenon DEF GoneGood
    <3>2. CASE \E x \in 1..m : i = Len(gone) + x
      <4>1. PICK x \in 1..m : i = Len(gone) + x
        BY <3>2, SMTT(30)
      <4>2. x \in 1..Len(lanes[c]) /\ gone'[i].id = lanes[c][x].id
        BY <4>1, <1>7, Zenon
      <4>3. d = c
        BY <4>2, <2>1 DEF LaneGood
      <4>4. j + k \in 1..Len(lanes[c]) /\ lanes'[d][j].id = lanes[c][j + k].id /\ x < j + k
        <5>1. shift(d) = k
          BY <4>3, Zenon DEF shift, Shift
        <5>2. x <= k
          BY <1>1 DEF Drained
        <5>3. j + shift(d) \in 1..Len(lanes[d]) /\ lanes'[d][j].id = lanes[d][j + shift(d)].id
          BY <1>4, Zenon
        <5>4. j + k \in 1..Len(lanes[c]) /\ lanes'[d][j].id = lanes[c][j + k].id
          BY <4>3, <5>1, <5>3, Zenon
        <5>5. x < j + k
          BY <5>2
        <5> QED
          BY <5>4, <5>5, Zenon
      <4> QED
        BY <4>2, <4>4, Zenon DEF LaneGood
    <3> QED
      BY <3>1, <3>2, <1>8, Zenon
  <2>2. ASSUME NEW i \in 1..Len(gone'), sent[gone'[i].id].kind = "content"
        PROVE  gone'[i].id \in DOMAIN asOf /\ asOf[gone'[i].id] <= gone'[i].gate
    <3>1. CASE i \in 1..Len(gone) /\ gone'[i] = gone[i]
      BY <2>2, <3>1, Zenon DEF GoneGood
    <3>2. CASE \E x \in 1..m : i = Len(gone) + x
      <4>1. PICK x \in 1..m : i = Len(gone) + x
        BY <3>2, Zenon
      <4>2. /\ x \in 1..Len(lanes[c]) /\ gone'[i].id = lanes[c][x].id
            /\ gone'[i].gate = Answered(c)[x].gate /\ ~(Answered(c)[x].content /\ Answered(c)[x].gate = 0)
        BY <4>1, <1>1, Zenon DEF Drained
      <4>3. lanes[c][x].content
        BY <4>2, <2>2 DEF LaneGood
      <4>4. lanes[c][x].id \in DOMAIN asOf
        BY <4>2, <4>3, Zenon DEF GateGood
      <4> QED
        BY <4>2, <4>3, <4>4, <1>3, Zenon
    <3> QED
      BY <3>1, <3>2, <1>8, Zenon
  <2> QED
    BY <2>1, <2>2, <1>2, <1>12, Zenon DEF GoneGood
<1> QED
  BY <1>9, <1>13, Zenon

\* A barrier is released only when every lane's head is younger.
LEMMA DrainKeepsBarriers ==
    ASSUME IInv, NEW c \in Chans, NEW k \in Nat, NEW m \in Nat, Drained(c, k, m), Shifted(c, k),
           AnsweredGood(c), DrainFrame,
           Types', LaneGood'
    PROVE  BarrierGood'
<1> USE DEF IInv
<1> DEFINE shift(d) == Shift(c, k, d)
<1>1. Drained(c, k, m)
  BY Zenon
<1>2. UNCHANGED <<sent, queue, ticket, policy, stopped, asOf>> /\ ~stopped
  BY Zenon DEF DrainFrame
<1>4. ASSUME NEW d \in Chans
      PROVE  /\ Len(lanes[d]) \in Nat /\ shift(d) \in Nat /\ shift(d) <= Len(lanes[d])
             /\ Len(lanes'[d]) = Len(lanes[d]) - shift(d)
             /\ \A i \in 1..Len(lanes'[d]) :
                  /\ i + shift(d) \in 1..Len(lanes[d])
                  /\ lanes'[d][i].id = lanes[d][i + shift(d)].id
                  /\ lanes'[d][i].ticket = lanes[d][i + shift(d)].ticket
                  /\ lanes'[d][i].content = lanes[d][i + shift(d)].content
  BY Zenon DEF Shifted
<1> HIDE DEF shift
<1>14. BarrierGood'
  <2>1. \A b \in barriers' : b.ticket <= ticket
    BY <1>1, Zenon DEF BarrierGood, Drained
  <2>2. ASSUME NEW b \in barriers, NEW d \in Chans, NEW i \in 1..Len(lanes'[d]), b.ticket < lanes'[d][i].ticket
        PROVE  b.id < lanes'[d][i].id
    BY <2>2, <1>4, Zenon DEF BarrierGood
  <2>3. ASSUME NEW n \in closed', NEW d \in Chans, NEW i \in 1..Len(lanes'[d])
        PROVE  n < lanes'[d][i].id
    <3>1. CASE n \in closed
      BY <3>1, <1>2, <1>4, Zenon DEF BarrierGood
    <3>2. CASE \E b \in barriers : b.id = n /\ Releasable(b, lanes', c)
      <4>1. PICK b \in barriers : b.id = n /\ Releasable(b, lanes', c)
        BY <3>2, Zenon
      <4>2. 1 \in 1..Len(lanes'[d]) /\ lanes'[d] # <<>>
        BY <1>4
      <4>3. b.ticket < lanes'[d][1].ticket
        BY <4>1, <4>2, Zenon DEF Releasable
      <4>4. b.ticket < lanes'[d][i].ticket
        <5>1. lanes'[d][1].ticket \in Nat /\ lanes'[d][i].ticket \in Nat /\ b.ticket \in Nat
          BY <4>2, <1>4, LaneTypes, ZenonT(30) DEF Types
        <5>2. i = 1 \/ lanes'[d][1].ticket < lanes'[d][i].ticket
          BY <4>2 DEF LaneGood
        <5> QED
          BY <4>3, <5>1, <5>2
      <4> QED
        BY <4>1, <4>4, <2>2, Zenon
    <3> QED
      BY <3>1, <3>2, <1>1, Zenon DEF Drained
  <2> QED
    BY <2>1, <2>2, <2>3, <1>1, <1>2, SMTT(30) DEF BarrierGood, Drained
<1> QED
  BY <1>14, Zenon

\* The counter goes down by what left the lanes.
LEMMA DrainKeepsCount ==
    ASSUME IInv, NEW c \in Chans, NEW k \in Nat, NEW m \in Nat, Drained(c, k, m), Shifted(c, k),
           AnsweredGood(c), DrainFrame,
           Types'
    PROVE  Counted'
<1> USE DEF IInv
<1> DEFINE shift(d) == Shift(c, k, d)
<1>1. Drained(c, k, m)
  BY Zenon
<1>2. UNCHANGED <<sent, queue, ticket, policy, stopped, asOf>> /\ ~stopped
  BY Zenon DEF DrainFrame
<1>3. /\ lanes[c] \in Seq(Entry) /\ Len(lanes[c]) \in Nat
      /\ \A i \in 1..Len(lanes[c]) :
           /\ Answered(c)[i].id = lanes[c][i].id
           /\ Answered(c)[i].ticket = lanes[c][i].ticket
           /\ Answered(c)[i].content = lanes[c][i].content
           /\ Answered(c)[i].content /\ Answered(c)[i].gate # 0 =>
                asOf[lanes[c][i].id] <= Answered(c)[i].gate
  BY Zenon DEF AnsweredGood
<1>4. ASSUME NEW d \in Chans
      PROVE  /\ Len(lanes[d]) \in Nat /\ shift(d) \in Nat /\ shift(d) <= Len(lanes[d])
             /\ Len(lanes'[d]) = Len(lanes[d]) - shift(d)
             /\ \A i \in 1..Len(lanes'[d]) :
                  /\ i + shift(d) \in 1..Len(lanes[d])
                  /\ lanes'[d][i].id = lanes[d][i + shift(d)].id
                  /\ lanes'[d][i].ticket = lanes[d][i + shift(d)].ticket
                  /\ lanes'[d][i].content = lanes[d][i + shift(d)].content
  BY Zenon DEF Shifted
<1> HIDE DEF shift
<1>15. Counted'
  <2> DEFINE first == [i \in 1..k |-> lanes[c][i].id]
             P == {first[i] : i \in 1..k}
  <2>1. \A d \in Chans : DOMAIN lanes[d] = 1..Len(lanes[d]) /\ DOMAIN lanes'[d] = 1..Len(lanes'[d])
    BY DEF Types
  <2>2. \A n : n \in InLanes <=> \E d \in Chans : \E i \in 1..Len(lanes[d]) : n = lanes[d][i].id
    BY <2>1 DEF InLanes
  <2>3. \A n : n \in InLanes' <=> \E d \in Chans : \E i \in 1..Len(lanes'[d]) : n = lanes'[d][i].id
    BY <2>1, SMTT(30) DEF InLanes
  <2>4. k <= Len(lanes[c]) /\ \A i \in 1..k : i \in 1..Len(lanes[c]) /\ first[i] = lanes[c][i].id
    BY <1>1, <1>3 DEF Drained
  <2>5. \A i, j \in 1..k : first[i] = first[j] => i = j
    <3> SUFFICES ASSUME NEW i \in 1..k, NEW j \in 1..k, first[i] = first[j], i # j PROVE FALSE
      BY Zenon
    <3>1. lanes[c][i].id \in Nat /\ lanes[c][j].id \in Nat
      BY <2>4, LaneTypes, Zenon
    <3>2. CASE i < j
      BY <2>4, <3>1, <3>2, SMTT(30) DEF LaneGood
    <3>3. CASE j < i
      BY <2>4, <3>1, <3>3 DEF LaneGood
    <3> QED
      BY <3>2, <3>3
  <2>6. IsFiniteSet(P) /\ Cardinality(P) = k
    <3>1. first \in [1..k -> P] /\ \A t \in P : \E i \in 1..k : first[i] = t
      BY Zenon
    <3> HIDE DEF first, P
    <3> QED
      BY <3>1, <2>5, CountDistinct, Zenon
  <2>7. \A n : n \in P <=> \E i \in 1..k : n = lanes[c][i].id
    BY <2>4, Zenon
  <2> HIDE DEF P, first
  <2>8. P \subseteq InLanes
    BY <2>2, <2>4, <2>7, Zenon
  <2>9. ASSUME NEW n, n \in InLanes' PROVE n \in InLanes /\ n \notin P
    <3>1. PICK d \in Chans : \E i \in 1..Len(lanes'[d]) : n = lanes'[d][i].id
      BY <2>3, <2>9, Zenon
    <3>2. PICK i \in 1..Len(lanes'[d]) : n = lanes'[d][i].id
      BY <3>1, Zenon
    <3> DEFINE y == i + shift(d)
    <3>3. y \in 1..Len(lanes[d]) /\ n = lanes[d][y].id /\ shift(d) < y
      BY <3>2, <1>4, SMTT(30)
    <3> HIDE DEF y
    <3>4. n \in InLanes
      BY <3>3, <2>2, Zenon
    <3>5. ASSUME n \in P PROVE FALSE
      <4>1. PICK x \in 1..k : n = lanes[c][x].id
        BY <3>5, <2>7, Zenon
      <4>2. x \in 1..Len(lanes[c])
        BY <2>4, Zenon
      <4>3. d = c
        <5>1. sent[lanes[d][y].id].ch = d
          BY <3>3, Zenon DEF LaneGood
        <5>2. sent[lanes[c][x].id].ch = c
          BY <4>2, Zenon DEF LaneGood
        <5> QED
          BY <5>1, <5>2, <3>3, <4>1, Zenon
      <4>4. x < y
        BY <3>3, <4>3 DEF shift, Shift
      <4>5. n \in Nat
        BY <4>1, <4>2, LaneTypes, Zenon
      <4>6. lanes[c][x].id < lanes[c][y].id
        BY <3>3, <4>2, <4>3, <4>4, Zenon DEF LaneGood
      <4>7. n < n
        BY <3>3, <4>1, <4>3, <4>6, Zenon
      <4> QED
        BY <4>5, <4>7
    <3> QED
      BY <3>4, <3>5, Zenon
  <2>10. ASSUME NEW n, n \in InLanes, n \notin P PROVE n \in InLanes'
    <3>1. PICK d \in Chans : \E i \in 1..Len(lanes[d]) : n = lanes[d][i].id
      BY <2>2, <2>10, Zenon
    <3>2. PICK i \in 1..Len(lanes[d]) : n = lanes[d][i].id
      BY <3>1, Zenon
    <3>3. shift(d) < i
      BY <3>2, <2>7, <2>10 DEF shift, Shift
    <3>4. i - shift(d) \in 1..Len(lanes'[d]) /\ (i - shift(d)) + shift(d) = i
      BY <3>3, <1>4, SMTT(30)
    <3>5. n = lanes'[d][i - shift(d)].id
      BY <3>2, <3>4, <1>4, Zenon
    <3> QED
      BY <3>4, <3>5, <2>3, Zenon
  <2>11. InLanes' = InLanes \ P
    BY <2>9, <2>10, Zenon
  <2>12. IsFiniteSet(InLanes \ P) /\ Cardinality(InLanes \ P) = Cardinality(InLanes) - Cardinality(InLanes \cap P)
    BY FS_Difference, Zenon DEF Counted
  <2>13. InLanes \cap P = P
    BY <2>8, Zenon
  <2>14. parked' = parked - k
    BY <1>1, Zenon DEF Drained
  <2> QED
    BY <2>6, <2>11, <2>12, <2>13, <2>14, Zenon DEF Counted
<1> QED
  BY <1>15, Zenon

\* A drain keeps the order, the answers' ages, the barriers' covers and the count.
LEMMA DrainOK ==
    ASSUME IInv, NEW c \in Chans, NEW failed \in BOOLEAN, onGateResolved(c, failed)
    PROVE  IInv'
<1> USE DEF IInv
<1>1. PICK k, m \in Nat : Drained(c, k, m)
  BY ResolvedDrains, SMTT(30)
<1>2. UNCHANGED <<sent, queue, ticket, policy, stopped, asOf>> /\ DrainFrame
  BY SMTT(30) DEF onGateResolved, DrainFrame
<1>3. AnsweredGood(c)
  BY LaneTypes, AnsweredFacts, Zenon DEF onGateResolved, AnsweredGood
<1>4. Shifted(c, k)
  BY <1>1, <1>3, DrainShifts, Zenon
<1>5. Types'
  <2>1. barriers' \subseteq barriers
    BY <1>1, Zenon DEF Drained
  <2> QED
    BY <2>1, <1>1, <1>2, SMTT(30) DEF Types, Drained
<1>6. QueueGood'
  BY <1>2, Zenon DEF QueueGood
<1>7. LaneGood' /\ GateGood' /\ GoneGood' /\ PastGood'
  BY <1>1, <1>2, <1>3, <1>4, DrainKeepsLanes, DrainKeepsGates, DrainKeepsGone, Zenon
<1>8. BarrierGood' /\ Counted'
  BY <1>1, <1>2, <1>3, <1>4, <1>5, <1>7, DrainKeepsBarriers, DrainKeepsCount, Zenon
<1> QED
  BY <1>5, <1>6, <1>7, <1>8, Zenon

-----------------------------------------------------------------------------
\* Nothing is queued, parked or gone at first.
LEMMA InitOK == Init => IInv
<1> SUFFICES ASSUME Init PROVE IInv
  BY Zenon
<1>1. Types
  <2>1. sent \in Seq([kind : Kinds, ch : Chans \cup {0}]) /\ queue \in Seq(Nat)
          /\ gone \in Seq([id : Nat, gate : Nat])
    BY DEF Init
  <2>2. lanes \in [Chans -> Seq(Entry)] /\ reads \in [Chans -> [through : Nat, epoch : Nat]]
    BY DEF Init, NoRead
  <2>3. DOMAIN asOf = {}
    BY DEF Init
  <2>4. ticket \in Nat /\ policy \in Nat \ {0} /\ barriers \subseteq [id : Nat, ticket : Nat]
    BY DEF Init
  <2>6. stopped \in BOOLEAN
    BY Zenon DEF Init
  <2>5. \A n \in DOMAIN asOf : asOf[n] \in Nat /\ asOf[n] <= policy
    BY <2>3, Zenon
  <2> QED
    BY <2>1, <2>2, <2>4, <2>5, <2>6, Zenon DEF Types
<1>2. /\ Len(queue) = 0 /\ Len(gone) = 0 /\ DOMAIN asOf = {}
      /\ \A c \in Chans : Len(lanes[c]) = 0 /\ reads[c].through = 0 /\ DOMAIN lanes[c] = {}
  BY DEF Init, NoRead
<1>3. QueueGood /\ PastGood /\ LaneGood /\ GateGood /\ GoneGood /\ BarrierGood
  BY <1>2 DEF Init, QueueGood, PastGood, LaneGood, GateGood, GoneGood, ChannelOrder, BarrierGood
<1>4. InLanes = {}
  BY <1>2, Zenon DEF InLanes
<1>5. Counted
  BY <1>4, FS_EmptySet, Zenon DEF Counted, Init
<1> QED
  BY <1>1, <1>3, <1>5, Zenon DEF IInv

\* A new entry comes after every entry there is.
LEMMA EnqueueOK ==
    ASSUME IInv, NEW kind \in Kinds, NEW c \in Chans \cup {0}, enqueue(kind, c)
    PROVE  IInv'
<1> DEFINE n == Len(sent)
<1> USE DEF IInv
<1>1. /\ n \in Nat /\ Len(sent') = n + 1
      /\ \A i \in 1..n : i \in 1..(n + 1) /\ sent'[i] = sent[i]
      /\ sent' \in Seq([kind : Kinds, ch : Chans \cup {0}])
  BY DEF enqueue, Types
<1>2. /\ Len(queue) \in Nat /\ Len(queue') = Len(queue) + 1 /\ queue' \in Seq(Nat)
      /\ \A i \in 1..Len(queue) : queue'[i] = queue[i]
      /\ queue'[Len(queue) + 1] = n + 1
  BY DEF enqueue, Types
<1>3. UNCHANGED <<lanes, parked, reads, ticket, barriers, closed, policy, stopped, panics, gone, asOf>>
  BY Zenon DEF enqueue
<1> HIDE DEF n
<1>4. Types'
  BY <1>1, <1>2, <1>3, Zenon DEF Types
<1>5. \A m : Before(m, sent, queue) => m \in 1..n /\ Before(m, sent', queue')
  <2> SUFFICES ASSUME NEW m, Before(m, sent, queue) PROVE m \in 1..n /\ Before(m, sent', queue')
    BY Zenon
  <2>1. m \in 1..n
    BY Zenon DEF Before, n
  <2>2. ASSUME NEW i \in 1..Len(queue') PROVE m < queue'[i]
    <3>1. CASE i \in 1..Len(queue)
      BY <3>1, <1>2, Zenon DEF Before
    <3>2. CASE i = Len(queue) + 1
      BY <3>2, <2>1, <1>1, <1>2
    <3> QED
      BY <3>1, <3>2, <1>2
  <2> QED
    BY <2>1, <2>2, <1>1, Zenon DEF Before
<1>6. QueueGood' /\ PastGood'
  <2>1. \A i \in 1..Len(queue) : queue[i] \in 1..n
    BY Zenon DEF QueueGood, n
  <2>2. \A i \in 1..Len(queue') : queue'[i] \in 1..Len(sent')
    BY <2>1, <1>1, <1>2, SMTT(30)
  <2>3. \A i, j \in 1..Len(queue') : i < j => queue'[i] < queue'[j]
    <3> SUFFICES ASSUME NEW i \in 1..Len(queue'), NEW j \in 1..Len(queue'), i < j
                 PROVE  queue'[i] < queue'[j]
      BY Zenon
    <3>1. i \in 1..Len(queue)
      BY <1>2
    <3>2. CASE j \in 1..Len(queue)
      BY <3>1, <3>2, <1>2, Zenon DEF QueueGood
    <3>3. CASE j = Len(queue) + 1
      BY <3>1, <3>3, <2>1, <1>1, <1>2
    <3> QED
      BY <3>2, <3>3, <1>2
  <2>4. /\ \A d \in Chans : \A i \in 1..Len(lanes[d]) : Before(lanes[d][i].id, sent', queue')
        /\ \A i \in 1..Len(gone) : Before(gone[i].id, sent', queue')
        /\ \A b \in barriers : Before(b.id, sent', queue')
        /\ \A m \in closed \cup DOMAIN asOf : Before(m, sent', queue')
    BY <1>3, <1>5, Zenon DEF PastGood
  <2>5. sent'[n + 1].kind = "content" => sent'[n + 1].ch # 0
    BY DEF enqueue, Types, n
  <2>6. \A m \in 1..Len(sent') : sent'[m].kind = "content" => sent'[m].ch # 0
    <3> SUFFICES ASSUME NEW m \in 1..(n + 1) PROVE sent'[m].kind = "content" => sent'[m].ch # 0
      BY <1>1, Zenon
    <3>1. CASE m = n + 1
      BY <3>1, <2>5, Zenon
    <3>2. CASE m \in 1..n
      BY <3>2, <1>1, Zenon DEF QueueGood, n
    <3> QED
      BY <3>1, <3>2, <1>1
  <2> QED
    BY <2>2, <2>3, <2>4, <2>6, <1>3, Zenon DEF QueueGood, PastGood
<1>7. /\ \A d \in Chans : \A i \in 1..Len(lanes[d]) : sent'[lanes[d][i].id] = sent[lanes[d][i].id]
      /\ \A i \in 1..Len(gone) : sent'[gone[i].id] = sent[gone[i].id]
  BY <1>1, <1>5, SMTT(30) DEF PastGood
<1>8. LaneGood' /\ GateGood' /\ BarrierGood'
  <2>1. LaneGood'
    BY <1>3, <1>7 DEF LaneGood
  <2>2. GateGood'
    BY <1>3, Zenon DEF GateGood
  <2>3. BarrierGood'
    BY <1>3, Zenon DEF BarrierGood
  <2> QED
    BY <2>1, <2>2, <2>3, Zenon
<1>9. GoneGood'
  BY <1>3, <1>7, SMTT(30) DEF GoneGood, ChannelOrder
<1>10. Counted'
  BY <1>3 DEF Counted, InLanes
<1> QED
  BY <1>4, <1>6, <1>8, <1>9, <1>10, Zenon

\* A change of policy makes no answer younger.
LEMMA RelabelOK == IInv /\ relabel => IInv'
<1> SUFFICES ASSUME IInv, relabel PROVE IInv'
  BY Zenon
<1> USE DEF IInv
<1>1. UNCHANGED <<sent, queue, lanes, parked, reads, ticket, barriers, closed, stopped, panics, gone, asOf>>
        /\ policy' = policy + 1
  BY Zenon DEF relabel
<1>2. Types'
  BY <1>1, SMTT(30) DEF Types
<1>3. QueueGood' /\ PastGood' /\ LaneGood' /\ GateGood' /\ BarrierGood'
  BY <1>1, SMTT(30) DEF QueueGood, PastGood, Before, LaneGood, GateGood, BarrierGood
<1>4. GoneGood' /\ Counted'
  BY <1>1 DEF GoneGood, ChannelOrder, Counted, InLanes
<1> QED
  BY <1>2, <1>3, <1>4, Zenon

\* An answer is of the moment of its read, after every parked frame was dequeued.
LEMMA ResolveOK ==
    ASSUME IInv, NEW c \in Chans, resolveGateOnce(c)
    PROVE  IInv'
<1> USE DEF IInv
<1>1. UNCHANGED <<sent, queue, lanes, parked, ticket, barriers, closed, policy, stopped, panics, gone, asOf>>
  BY Zenon DEF resolveGateOnce
<1>2. /\ reads' \in [Chans -> [through : Nat, epoch : Nat]]
      /\ \A d \in Chans : reads'[d].through = reads[d].through
      /\ \A d \in Chans : reads'[d].epoch = IF d = c THEN policy ELSE reads[d].epoch
  BY SMTT(30) DEF resolveGateOnce, Types
<1>3. Types'
  BY <1>1, <1>2, Zenon DEF Types
<1>4. QueueGood' /\ PastGood' /\ LaneGood' /\ BarrierGood'
  <2>1. QueueGood' /\ PastGood'
    BY <1>1, <1>2, SMTT(30) DEF QueueGood, PastGood, Before
  <2>2. LaneGood' /\ BarrierGood'
    BY <1>1, <1>2, SMTT(30) DEF LaneGood, BarrierGood
  <2> QED
    BY <2>1, <2>2, Zenon
<1>5. GateGood'
  BY <1>1, <1>2, ZenonT(30) DEF GateGood, Types
<1>6. GoneGood' /\ Counted'
  BY <1>1 DEF GoneGood, ChannelOrder, Counted, InLanes
<1> QED
  BY <1>3, <1>4, <1>5, <1>6, Zenon

\* Run's exit closes barriers and drains nothing.
LEMMA CloseOK == IInv /\ closeParkedBarriers => IInv'
<1> SUFFICES ASSUME IInv, closeParkedBarriers PROVE IInv'
  BY Zenon
<1> USE DEF IInv
<1>1. /\ UNCHANGED <<sent, queue, lanes, parked, reads, ticket, policy, panics, gone, asOf>>
      /\ stopped' = TRUE /\ barriers' = {} /\ closed' = closed \cup {b.id : b \in barriers}
  BY Zenon DEF closeParkedBarriers
<1>2. Types'
  BY <1>1, Zenon DEF Types
<1>3. QueueGood' /\ PastGood'
  <2>1. \A n : Before(n, sent', queue') <=> Before(n, sent, queue)
    BY <1>1, Zenon DEF Before
  <2>2. \A n \in closed' : Before(n, sent, queue)
    BY <1>1, ZenonT(30) DEF PastGood
  <2> QED
    BY <2>1, <2>2, <1>1, Zenon DEF QueueGood, PastGood
<1>4. LaneGood' /\ GateGood' /\ BarrierGood'
  BY <1>1, SMTT(30) DEF LaneGood, GateGood, BarrierGood
<1>5. GoneGood' /\ Counted'
  BY <1>1 DEF GoneGood, ChannelOrder, Counted, InLanes
<1> QED
  BY <1>2, <1>3, <1>4, <1>5, Zenon

-----------------------------------------------------------------------------
\* What taking the queue's head does, whatever becomes of it.
Taken(id) ==
    /\ UNCHANGED <<sent, policy, stopped>> /\ ~stopped
    /\ id \in 1..Len(sent) /\ queue' \in Seq(Nat)
    /\ \A i \in 1..Len(queue') : queue'[i] \in 1..Len(sent)
    /\ \A i, j \in 1..Len(queue') : i < j => queue'[i] < queue'[j]
    /\ Before(id, sent', queue') /\ \A n : Before(n, sent, queue) => n < id /\ Before(n, sent', queue')
    /\ DOMAIN asOf' = DOMAIN asOf \cup IF sent[id].kind = "content" THEN {id} ELSE {}
    /\ \A n \in DOMAIN asOf : asOf'[n] = asOf[n]
    /\ sent[id].kind = "content" => asOf'[id] = policy

\* dispatch takes the oldest entry of the queue.
LEMMA DispatchTakes ==
    ASSUME IInv, NEW failed \in BOOLEAN, dispatch(failed)
    PROVE  \E id \in Nat : id = Head(queue) /\ Taken(id)
<1> USE DEF IInv
<1>1. queue # <<>> /\ queue \in Seq(Nat)
  BY Zenon DEF dispatch, Types
<1>2. PICK id \in Nat : id = Head(queue)
  BY <1>1
<1>3. /\ UNCHANGED <<sent, policy, stopped>> /\ ~stopped /\ queue' = Tail(queue)
      /\ asOf' = IF sent[id].kind # "content" THEN asOf
                 ELSE [i \in DOMAIN asOf \cup {id} |-> IF i = id THEN policy ELSE asOf[i]]
  BY <1>2, Zenon DEF dispatch
<1>4. /\ Len(queue) \in Nat \ {0} /\ queue' \in Seq(Nat) /\ Len(queue') = Len(queue) - 1
      /\ id = queue[1]
      /\ \A i \in 1..Len(queue') : queue'[i] = queue[i + 1] /\ i + 1 \in 1..Len(queue)
  BY <1>1, <1>2, <1>3
<1>5. id \in 1..Len(sent)
  BY <1>4 DEF QueueGood
<1>6. ASSUME NEW i \in 1..Len(queue') PROVE queue'[i] \in 1..Len(sent) /\ id < queue'[i]
  <2>1. 1 \in 1..Len(queue) /\ i + 1 \in 1..Len(queue) /\ 1 < i + 1 /\ queue'[i] = queue[i + 1]
    BY <1>4
  <2> QED
    BY <2>1, <1>4, Zenon DEF QueueGood
<1>7. ASSUME NEW i \in 1..Len(queue'), NEW j \in 1..Len(queue'), i < j PROVE queue'[i] < queue'[j]
  <2>1. /\ i + 1 \in 1..Len(queue) /\ queue'[i] = queue[i + 1]
        /\ j + 1 \in 1..Len(queue) /\ queue'[j] = queue[j + 1]
        /\ i + 1 < j + 1
    BY <1>4, <1>7, SMTT(30)
  <2> QED
    BY <2>1, Zenon DEF QueueGood
<1>8. Before(id, sent', queue')
  BY <1>3, <1>5, <1>6, Zenon DEF Before
<1>9. ASSUME NEW n, Before(n, sent, queue) PROVE n < id /\ Before(n, sent', queue')
  <2>1. n \in 1..Len(sent) /\ \A i \in 1..Len(queue) : n < queue[i]
    BY <1>9, Zenon DEF Before
  <2>2. n < id /\ \A i \in 1..Len(queue') : n < queue'[i]
    BY <2>1, <1>4, SMTT(30)
  <2> QED
    BY <2>1, <2>2, <1>3, Zenon DEF Before
<1>10. \A n \in DOMAIN asOf : n # id
  BY <1>9 DEF PastGood
<1>11. /\ DOMAIN asOf' = DOMAIN asOf \cup IF sent[id].kind = "content" THEN {id} ELSE {}
       /\ \A n \in DOMAIN asOf : asOf'[n] = asOf[n]
       /\ sent[id].kind = "content" => asOf'[id] = policy
  BY <1>3, <1>10, Zenon
<1>12. Taken(id)
  BY <1>3, <1>4, <1>5, <1>6, <1>7, <1>8, <1>9, <1>11, Zenon DEF Taken
<1> QED
  BY <1>2, <1>12, Zenon

\* What taking the head leaves true of the entries that were there before.
LEMMA TakenKeeps ==
    ASSUME IInv, NEW id, Taken(id)
    PROVE  /\ id \in Nat /\ sent[id] \in [kind : Kinds, ch : Chans \cup {0}]
           /\ sent[id].kind = "content" => sent[id].ch # 0
           /\ \A c \in Chans : \A i \in 1..Len(lanes[c]) :
                lanes[c][i].id < id /\ Before(lanes[c][i].id, sent', queue')
           /\ \A i \in 1..Len(gone) : gone[i].id < id /\ Before(gone[i].id, sent', queue')
           /\ \A b \in barriers : b.id < id /\ Before(b.id, sent', queue')
           /\ \A n \in closed : n < id /\ Before(n, sent', queue')
           /\ \A n \in DOMAIN asOf' : Before(n, sent', queue') /\ asOf'[n] \in Nat /\ asOf'[n] <= policy
<1> USE DEF IInv
<1>1. id \in Nat /\ id \in 1..Len(sent)
  BY DEF Taken, Types
<1>2. sent[id] \in [kind : Kinds, ch : Chans \cup {0}] /\ (sent[id].kind = "content" => sent[id].ch # 0)
  <2>1. sent[id] \in [kind : Kinds, ch : Chans \cup {0}]
    <3>1. \A S : sent \in Seq(S) => sent[id] \in S
      BY <1>1
    <3> QED
      BY <3>1, Zenon DEF Types
  <2> QED
    BY <2>1, <1>1, Zenon DEF QueueGood
<1>3. \A n : Before(n, sent, queue) => n < id /\ Before(n, sent', queue')
  BY Zenon DEF Taken
<1>4. /\ \A c \in Chans : \A i \in 1..Len(lanes[c]) :
                lanes[c][i].id < id /\ Before(lanes[c][i].id, sent', queue')
      /\ \A i \in 1..Len(gone) : gone[i].id < id /\ Before(gone[i].id, sent', queue')
      /\ \A b \in barriers : b.id < id /\ Before(b.id, sent', queue')
      /\ \A n \in closed : n < id /\ Before(n, sent', queue')
  BY <1>3, Zenon DEF PastGood
<1>5. ASSUME NEW n \in DOMAIN asOf'
      PROVE  Before(n, sent', queue') /\ asOf'[n] \in Nat /\ asOf'[n] <= policy
  <2>1. CASE n \in DOMAIN asOf
    BY <2>1, Zenon DEF Taken, PastGood, Types
  <2>2. CASE n = id /\ sent[id].kind = "content"
    BY <2>2 DEF Taken, Types
  <2> QED
    BY <2>1, <2>2, Zenon DEF Taken
<1> QED
  BY <1>1, <1>2, <1>4, <1>5, Zenon

\* A frame that is delivered at once overtakes nothing of its channel: it has no lane.
LEMMA DeliverOK ==
    ASSUME IInv, NEW id, Taken(id), sent[id].kind # "content", ~QueuesBehind(sent[id].ch),
           gone' = gone \/ gone' = Append(gone, [id |-> id, gate |-> 0]),
           UNCHANGED <<lanes, parked, reads, ticket, barriers, closed>>
    PROVE  IInv'
<1> USE DEF IInv
<1>1. UNCHANGED <<sent, policy, stopped, lanes, parked, reads, ticket, barriers, closed>>
  BY Zenon DEF Taken
<1>2. /\ id \in Nat
      /\ \A c \in Chans : \A i \in 1..Len(lanes[c]) : Before(lanes[c][i].id, sent', queue')
      /\ \A i \in 1..Len(gone) : gone[i].id < id /\ Before(gone[i].id, sent', queue')
      /\ \A b \in barriers : Before(b.id, sent', queue')
      /\ \A n \in closed : Before(n, sent', queue')
      /\ \A n \in DOMAIN asOf' : Before(n, sent', queue') /\ asOf'[n] \in Nat /\ asOf'[n] <= policy
  BY TakenKeeps, Zenon
<1>3. DOMAIN asOf' = DOMAIN asOf /\ \A n \in DOMAIN asOf : asOf'[n] = asOf[n]
  BY Zenon DEF Taken
<1>4. /\ gone' \in Seq([id : Nat, gate : Nat]) /\ Len(gone) \in Nat
      /\ \A i \in 1..Len(gone') : \/ i \in 1..Len(gone) /\ gone'[i] = gone[i]
                                  \/ i = Len(gone) + 1 /\ gone'[i].id = id
  <2>1. CASE gone' = gone
    BY <2>1, SMTT(30) DEF Types
  <2>2. CASE gone' = Append(gone, [id |-> id, gate |-> 0])
    BY <2>2, <1>2 DEF Types
  <2> QED
    BY <2>1, <2>2, Zenon
<1>5. Types'
  BY <1>1, <1>2, <1>4, Zenon DEF Types, Taken
<1>6. QueueGood'
  BY <1>1, ZenonT(30) DEF QueueGood, Taken
<1>7. PastGood'
  BY <1>1, <1>2, <1>4, SMTT(30) DEF PastGood, Taken
<1>8. LaneGood' /\ BarrierGood'
  BY <1>1 DEF LaneGood, BarrierGood
<1>9. GateGood'
  BY <1>1, <1>3, SMTT(30) DEF GateGood
<1>10. ChannelOrder'
  <2> SUFFICES ASSUME NEW i \in 1..Len(gone'), NEW j \in 1..Len(gone'), i < j,
                      sent[gone'[i].id].ch = sent[gone'[j].id].ch
               PROVE  gone'[i].id < gone'[j].id
    BY <1>1, Zenon DEF ChannelOrder
  <2>1. i \in 1..Len(gone) /\ gone'[i] = gone[i]
    BY <1>4, SMTT(30)
  <2>2. CASE j \in 1..Len(gone) /\ gone'[j] = gone[j]
    BY <2>1, <2>2, Zenon DEF GoneGood, ChannelOrder
  <2>3. CASE gone'[j].id = id
    BY <2>1, <2>3, <1>2, SMTT(30)
  <2> QED
    BY <2>2, <2>3, <1>4, SMTT(30)
<1>11. GoneGood'
  <2>1. ASSUME NEW i \in 1..Len(gone'), NEW c \in Chans, NEW j \in 1..Len(lanes[c]), sent[gone'[i].id].ch = c
        PROVE  gone'[i].id < lanes[c][j].id
    <3>1. CASE i \in 1..Len(gone) /\ gone'[i] = gone[i]
      BY <2>1, <3>1, Zenon DEF GoneGood
    <3>2. CASE gone'[i].id = id
      <4>1. lanes[c] = <<>>
        BY <2>1, <3>2, ChansAssumption, Zenon DEF QueuesBehind
      <4> QED
        BY <4>1
    <3> QED
      BY <3>1, <3>2, <1>4, SMTT(30)
  <2>2. ASSUME NEW i \in 1..Len(gone'), sent[gone'[i].id].kind = "content"
        PROVE  gone'[i].id \in DOMAIN asOf' /\ asOf'[gone'[i].id] <= gone'[i].gate
    <3>1. i \in 1..Len(gone) /\ gone'[i] = gone[i]
      BY <2>2, <1>4, ZenonT(30)
    <3> QED
      BY <2>2, <3>1, <1>3, Zenon DEF GoneGood
  <2> QED
    BY <2>1, <2>2, <1>1, <1>10, Zenon DEF GoneGood
<1>12. Counted'
  BY <1>1 DEF Counted, InLanes
<1> QED
  BY <1>5, <1>6, <1>7, <1>8, <1>9, <1>11, <1>12, Zenon

\* g.parked is 0 exactly when every lane is empty.
LEMMA NothingParked ==
    ASSUME IInv
    PROVE  parked = 0 => \A c \in Chans : Len(lanes[c]) = 0
<1> SUFFICES ASSUME parked = 0, NEW c \in Chans PROVE Len(lanes[c]) = 0
  BY Zenon
<1>1. InLanes = {}
  BY FS_EmptySet, Zenon DEF IInv, Counted
<1>2. \A i \in DOMAIN lanes[c] : lanes[c][i].id \in InLanes
  BY DEF InLanes
<1>3. DOMAIN lanes[c] = 1..Len(lanes[c]) /\ Len(lanes[c]) \in Nat
  BY DEF IInv, Types
<1> QED
  BY <1>1, <1>2, <1>3, SMTT(30)

\* A barrier is closed at once only if nothing is parked; a parked one has a
\* ticket above those of the frames parked before it.
LEMMA BarrierOK ==
    ASSUME IInv, NEW id, Taken(id), sent[id].kind = "barrier",
           IF parked = 0
           THEN closed' = closed \cup {id} /\ UNCHANGED <<ticket, barriers>>
           ELSE /\ ticket' = ticket + 1
                /\ barriers' = barriers \cup {[id |-> id, ticket |-> ticket + 1]}
                /\ UNCHANGED closed,
           UNCHANGED <<lanes, parked, reads, gone>>
    PROVE  IInv'
<1> USE DEF IInv
<1>1. UNCHANGED <<sent, policy, stopped, lanes, parked, reads, gone>>
  BY Zenon DEF Taken
<1>2. /\ id \in Nat
      /\ \A c \in Chans : \A i \in 1..Len(lanes[c]) : lanes[c][i].id < id /\ Before(lanes[c][i].id, sent', queue')
      /\ \A i \in 1..Len(gone) : Before(gone[i].id, sent', queue')
      /\ \A b \in barriers : Before(b.id, sent', queue')
      /\ \A n \in closed : Before(n, sent', queue')
      /\ \A n \in DOMAIN asOf' : Before(n, sent', queue') /\ asOf'[n] \in Nat /\ asOf'[n] <= policy
  BY TakenKeeps, Zenon
<1>3. DOMAIN asOf' = DOMAIN asOf /\ \A n \in DOMAIN asOf : asOf'[n] = asOf[n]
  BY Zenon DEF Taken
<1>4. /\ ticket \in Nat /\ ticket' \in Nat /\ ticket <= ticket'
      /\ \A b \in barriers' : b \in barriers \/ (b = [id |-> id, ticket |-> ticket + 1] /\ ticket' = ticket + 1)
      /\ \A n \in closed' : n \in closed \/ (n = id /\ parked = 0)
  BY SMTT(30) DEF Types
<1>5. barriers' \subseteq [id : Nat, ticket : Nat]
  BY <1>2, <1>4 DEF Types
<1>6. Types'
  BY <1>1, <1>2, <1>4, <1>5, Zenon DEF Types, Taken
<1>7. QueueGood'
  BY <1>1, Zenon DEF QueueGood, Taken
<1>8. PastGood'
  <2>1. Before(id, sent', queue')
    BY Zenon DEF Taken
  <2>2. \A b \in barriers' : Before(b.id, sent', queue')
    BY <2>1, <1>2, <1>4
  <2>3. \A n \in closed' \cup DOMAIN asOf' : Before(n, sent', queue')
    BY <2>1, <1>2, <1>4, Zenon
  <2> QED
    BY <2>2, <2>3, <1>1, <1>2, Zenon DEF PastGood
<1>9. \A c \in Chans : reads[c].through \in Nat /\ \A i \in 1..Len(lanes[c]) : lanes[c][i].ticket \in Nat
  BY LaneTypes, Zenon
<1>10. LaneGood'
  <2> SUFFICES ASSUME NEW c \in Chans
               PROVE  reads[c].through <= ticket' /\ \A i \in 1..Len(lanes[c]) : lanes[c][i].ticket <= ticket'
    BY <1>1, SMTT(30) DEF LaneGood
  <2> QED
    BY <1>4, <1>9, SMTT(30) DEF LaneGood
<1>11. GateGood'
  BY <1>1, <1>3 DEF GateGood
<1>12. GoneGood'
  BY <1>1, <1>3, Zenon DEF GoneGood, ChannelOrder
<1>13. BarrierGood'
  <2>1. ASSUME NEW b \in barriers' PROVE b.ticket <= ticket'
    BY <1>4, <1>5 DEF BarrierGood, Types
  <2>2. ASSUME NEW b \in barriers', NEW c \in Chans, NEW i \in 1..Len(lanes[c]), b.ticket < lanes[c][i].ticket
        PROVE  b.id < lanes[c][i].id
    <3>1. CASE b \in barriers
      BY <3>1, <2>2, Zenon DEF BarrierGood
    <3>2. CASE b = [id |-> id, ticket |-> ticket + 1]
      BY <3>2, <2>2, <1>4, <1>9 DEF LaneGood
    <3> QED
      BY <3>1, <3>2, <1>4, Zenon
  <2>3. ASSUME ~stopped, NEW n \in closed', NEW c \in Chans, NEW i \in 1..Len(lanes[c]) PROVE n < lanes[c][i].id
    <3>1. CASE n \in closed
      BY <3>1, <2>3, ZenonT(30) DEF BarrierGood
    <3>2. CASE parked = 0
      BY <3>2, NothingParked, SMTT(30)
    <3> QED
      BY <3>1, <3>2, <1>4, Zenon
  <2> QED
    BY <2>1, <2>2, <2>3, <1>1, Zenon DEF BarrierGood
<1>14. Counted'
  BY <1>1 DEF Counted, InLanes
<1> QED
  BY <1>6, <1>7, <1>8, <1>10, <1>11, <1>12, <1>13, <1>14, Zenon

\* A parked frame is the youngest of its lane, with the highest ticket, and the
\* read in flight, if it has been made, does not cover it.
LEMMA ParkOK ==
    ASSUME IInv, NEW id, Taken(id), NEW c \in Chans, sent[id].ch = c,
           NEW content \in BOOLEAN, content <=> sent[id].kind = "content", park(id, c, content)
    PROVE  IInv'
<1> USE DEF IInv
<1> DEFINE e == [id |-> id, ticket |-> ticket + 1, content |-> content, gate |-> 0]
<1>1. UNCHANGED <<sent, policy, stopped, barriers, closed, gone>> /\ ticket' = ticket + 1 /\ parked' = parked + 1
  BY Zenon DEF Taken, park
<1>2. /\ id \in Nat
      /\ \A d \in Chans : \A i \in 1..Len(lanes[d]) : lanes[d][i].id < id /\ Before(lanes[d][i].id, sent', queue')
      /\ \A i \in 1..Len(gone) : gone[i].id < id /\ Before(gone[i].id, sent', queue')
      /\ \A b \in barriers : b.id < id /\ Before(b.id, sent', queue')
      /\ \A n \in closed : n < id /\ Before(n, sent', queue')
      /\ \A n \in DOMAIN asOf' : Before(n, sent', queue') /\ asOf'[n] \in Nat /\ asOf'[n] <= policy
  BY TakenKeeps, Zenon
<1>3. /\ \A n \in DOMAIN asOf : n \in DOMAIN asOf' /\ asOf'[n] = asOf[n]
      /\ content => id \in DOMAIN asOf'
      /\ Before(id, sent', queue')
  BY Zenon DEF Taken
<1>4. ticket \in Nat /\ e \in Entry
  BY <1>2 DEF Types, Entry
<1>5. /\ e.id = id /\ e.ticket = ticket + 1 /\ e.content = content /\ e.gate = 0
      /\ lanes' = [lanes EXCEPT ![c] = Append(lanes[c], e)]
  BY Zenon DEF park
<1> HIDE DEF e
<1>6. /\ lanes' \in [Chans -> Seq(Entry)] /\ Len(lanes[c]) \in Nat /\ Len(lanes'[c]) = Len(lanes[c]) + 1
      /\ \A d \in Chans \ {c} : lanes'[d] = lanes[d]
      /\ \A i \in 1..Len(lanes[c]) : lanes'[c][i] = lanes[c][i]
      /\ lanes'[c][Len(lanes[c]) + 1] = e
  <2>1. lanes \in [Chans -> Seq(Entry)]
    BY Zenon DEF Types
  <2>2. lanes[c] \in Seq(Entry) /\ lanes'[c] = Append(lanes[c], e) /\ \A d \in Chans \ {c} : lanes'[d] = lanes[d]
    BY <2>1, <1>5, Zenon
  <2>3. /\ Append(lanes[c], e) \in Seq(Entry) /\ Len(lanes[c]) \in Nat
        /\ Len(Append(lanes[c], e)) = Len(lanes[c]) + 1
        /\ \A i \in 1..Len(lanes[c]) : Append(lanes[c], e)[i] = lanes[c][i]
        /\ Append(lanes[c], e)[Len(lanes[c]) + 1] = e
    BY <2>2, <1>4, SMTT(30)
  <2> QED
    BY <2>1, <2>2, <2>3, <1>5, Zenon
<1>7. \A d \in Chans : \A i \in 1..Len(lanes'[d]) :
         \/ i \in 1..Len(lanes[d]) /\ lanes'[d][i] = lanes[d][i]
         \/ d = c /\ i = Len(lanes[c]) + 1 /\ lanes'[d][i] = e
  BY <1>6, SMTT(30)
<1>8. /\ reads' \in [Chans -> [through : Nat, epoch : Nat]]
      /\ \A d \in Chans : reads'[d] = reads[d] \/ (reads'[d].epoch = 0 /\ reads'[d].through = ticket + 1)
  BY SMTT(30) DEF park, Types, Issued
<1>9. \A d \in Chans : reads[d].through \in Nat /\ \A i \in 1..Len(lanes[d]) : lanes[d][i].ticket \in Nat
  BY LaneTypes, Zenon
<1>10. Types'
  BY <1>1, <1>2, <1>4, <1>6, <1>8, SMTT(30) DEF Types, Taken
<1>11. QueueGood'
  BY <1>1, Zenon DEF QueueGood, Taken
<1>12. PastGood'
  <2>1. \A d \in Chans : \A i \in 1..Len(lanes'[d]) : Before(lanes'[d][i].id, sent', queue')
    BY <1>2, <1>3, <1>5, <1>7, SMTT(30)
  <2> QED
    BY <2>1, <1>1, <1>2, Zenon DEF PastGood
<1>13. LaneGood'
  <2> SUFFICES ASSUME NEW d \in Chans
               PROVE  /\ reads'[d].through <= ticket'
                      /\ \A i \in 1..Len(lanes'[d]) :
                           /\ sent[lanes'[d][i].id].ch = d
                           /\ lanes'[d][i].content <=> sent[lanes'[d][i].id].kind = "content"
                           /\ lanes'[d][i].ticket <= ticket'
                      /\ \A i, j \in 1..Len(lanes'[d]) : i < j =>
                           lanes'[d][i].id < lanes'[d][j].id /\ lanes'[d][i].ticket < lanes'[d][j].ticket
    BY <1>1, SMTT(30) DEF LaneGood
  <2>1. reads'[d].through <= ticket'
    BY <1>1, <1>4, <1>8, <1>9, SMTT(30) DEF LaneGood
  <2>2. ASSUME NEW i \in 1..Len(lanes'[d])
        PROVE  /\ sent[lanes'[d][i].id].ch = d
               /\ lanes'[d][i].content <=> sent[lanes'[d][i].id].kind = "content"
               /\ lanes'[d][i].ticket <= ticket'
    <3>1. CASE i \in 1..Len(lanes[d]) /\ lanes'[d][i] = lanes[d][i]
      BY <3>1, <1>1, <1>4, <1>9, SMTT(30) DEF LaneGood
    <3>2. CASE d = c /\ lanes'[d][i] = e
      BY <3>2, <1>1, <1>4, <1>5
    <3> QED
      BY <3>1, <3>2, <1>7, SMTT(30)
  <2>3. ASSUME NEW i \in 1..Len(lanes'[d]), NEW j \in 1..Len(lanes'[d]), i < j
        PROVE  lanes'[d][i].id < lanes'[d][j].id /\ lanes'[d][i].ticket < lanes'[d][j].ticket
    <3>1. i \in 1..Len(lanes[d]) /\ lanes'[d][i] = lanes[d][i]
      BY <2>3, <1>6, <1>7, SMTT(30)
    <3>2. CASE j \in 1..Len(lanes[d]) /\ lanes'[d][j] = lanes[d][j]
      BY <2>3, <3>1, <3>2, SMTT(30) DEF LaneGood
    <3>3. CASE d = c /\ lanes'[d][j] = e
      BY <3>1, <3>3, <1>2, <1>4, <1>5, <1>9, SMTT(30) DEF LaneGood
    <3> QED
      BY <3>2, <3>3, <1>7, Zenon
  <2> QED
    BY <2>1, <2>2, <2>3, ZenonT(30)
<1>14. GateGood'
  <2> SUFFICES ASSUME NEW d \in Chans, NEW i \in 1..Len(lanes'[d]), lanes'[d][i].content
               PROVE  /\ lanes'[d][i].id \in DOMAIN asOf'
                      /\ lanes'[d][i].gate # 0 => asOf'[lanes'[d][i].id] <= lanes'[d][i].gate
                      /\ reads'[d].epoch # 0 /\ lanes'[d][i].ticket <= reads'[d].through =>
                           asOf'[lanes'[d][i].id] <= reads'[d].epoch
    BY Zenon DEF GateGood
  <2>1. CASE i \in 1..Len(lanes[d]) /\ lanes'[d][i] = lanes[d][i]
    <3>1. lanes[d][i].content
      BY <2>1, SMTT(30)
    <3>2. /\ lanes[d][i].id \in DOMAIN asOf'
          /\ lanes[d][i].gate # 0 => asOf'[lanes[d][i].id] <= lanes[d][i].gate
          /\ reads[d].epoch # 0 /\ lanes[d][i].ticket <= reads[d].through =>
               asOf'[lanes[d][i].id] <= reads[d].epoch
      BY <2>1, <3>1, <1>3, Zenon DEF GateGood
    <3>3. reads'[d] = reads[d] \/ reads'[d].epoch = 0
      BY <1>8, SMTT(30)
    <3> QED
      BY <2>1, <3>2, <3>3, Zenon
  <2>2. CASE d = c /\ lanes'[d][i] = e
    <3>1. content /\ lanes'[d][i].id = id /\ lanes'[d][i].gate = 0 /\ lanes'[d][i].ticket = ticket + 1
      BY <2>2, <1>5, Zenon
    <3>2. reads'[d].epoch # 0 => reads'[d].through <= ticket /\ reads'[d].through \in Nat
      BY <1>8, <1>9, Zenon DEF LaneGood
    <3> QED
      BY <3>1, <3>2, <1>3, <1>4
  <2> QED
    BY <2>1, <2>2, <1>7, SMTT(30)
<1>15. GoneGood'
  <2>1. ChannelOrder'
    BY <1>1, Zenon DEF GoneGood, ChannelOrder
  <2>2. ASSUME NEW i \in 1..Len(gone), NEW d \in Chans, NEW j \in 1..Len(lanes'[d]), sent[gone[i].id].ch = d
        PROVE  gone[i].id < lanes'[d][j].id
    <3>1. CASE j \in 1..Len(lanes[d]) /\ lanes'[d][j] = lanes[d][j]
      BY <3>1, <2>2, Zenon DEF GoneGood
    <3>2. CASE lanes'[d][j] = e
      BY <3>2, <1>2, <1>5, Zenon
    <3> QED
      BY <3>1, <3>2, <1>7, Zenon
  <2>3. \A i \in 1..Len(gone) : sent[gone[i].id].kind = "content" =>
           gone[i].id \in DOMAIN asOf' /\ asOf'[gone[i].id] <= gone[i].gate
    BY <1>3, Zenon DEF GoneGood
  <2> QED
    BY <2>1, <2>2, <2>3, <1>1, Zenon DEF GoneGood
<1>16. BarrierGood'
  <2>1. \A b \in barriers : b.ticket <= ticket'
    BY <1>1, <1>4, SMTT(30) DEF BarrierGood, Types
  <2>2. ASSUME NEW b \in barriers, NEW d \in Chans, NEW i \in 1..Len(lanes'[d]), b.ticket < lanes'[d][i].ticket
        PROVE  b.id < lanes'[d][i].id
    BY <2>2, <1>2, <1>5, <1>7, SMTT(30) DEF BarrierGood
  <2>3. ASSUME ~stopped, NEW n \in closed, NEW d \in Chans, NEW i \in 1..Len(lanes'[d])
        PROVE  n < lanes'[d][i].id
    BY <2>3, <1>2, <1>5, <1>7, SMTT(30) DEF BarrierGood
  <2> QED
    BY <2>1, <2>2, <2>3, <1>1, ZenonT(30) DEF BarrierGood
<1>17. Counted'
  <2>1. \A d \in Chans : DOMAIN lanes[d] = 1..Len(lanes[d]) /\ DOMAIN lanes'[d] = 1..Len(lanes'[d])
    BY <1>6, SMTT(30) DEF Types
  <2>2. id \notin InLanes
    BY <2>1, <1>2 DEF InLanes
  <2>3. \A n : n \in InLanes' <=> n \in InLanes \/ n = id
    <3>1. \A n : n \in InLanes <=> \E d \in Chans : \E i \in 1..Len(lanes[d]) : n = lanes[d][i].id
      BY <2>1 DEF InLanes
    <3>2. \A n : n \in InLanes' <=> \E d \in Chans : \E i \in 1..Len(lanes'[d]) : n = lanes'[d][i].id
      BY <2>1, SMTT(30) DEF InLanes
    <3>3. ASSUME NEW n, n \in InLanes' PROVE n \in InLanes \/ n = id
      BY <3>1, <3>2, <3>3, <1>5, <1>7, SMTT(30)
    <3>4. ASSUME NEW n, n \in InLanes PROVE n \in InLanes'
      <4>1. PICK d \in Chans : \E i \in 1..Len(lanes[d]) : n = lanes[d][i].id
        BY <3>1, <3>4, Zenon
      <4>2. PICK i \in 1..Len(lanes[d]) : n = lanes[d][i].id
        BY <4>1, ZenonT(30)
      <4>3. i \in 1..Len(lanes'[d]) /\ lanes'[d][i] = lanes[d][i]
        BY <1>6, SMTT(30)
      <4> QED
        BY <3>2, <4>2, <4>3, Zenon
    <3>5. id \in InLanes'
      <4>1. Len(lanes[c]) + 1 \in 1..Len(lanes'[c]) /\ id = lanes'[c][Len(lanes[c]) + 1].id
        BY <1>5, <1>6
      <4> QED
        BY <3>2, <4>1, ZenonT(30)
    <3> QED
      BY <3>3, <3>4, <3>5, Zenon
  <2>4. InLanes' = InLanes \cup {id}
    BY <2>3, Zenon
  <2>5. IsFiniteSet(InLanes \cup {id}) /\ Cardinality(InLanes \cup {id}) = Cardinality(InLanes) + 1
    BY <2>2, FS_AddElement, Zenon DEF Counted
  <2> QED
    BY <2>4, <2>5, <1>1, ZenonT(30) DEF Counted
<1> QED
  BY <1>10, <1>11, <1>12, <1>13, <1>14, <1>15, <1>16, <1>17, Zenon


\* dispatch, whatever the kind of the entry it took.
LEMMA DispatchOK ==
    ASSUME IInv, NEW failed \in BOOLEAN, dispatch(failed)
    PROVE  IInv'
<1>1. PICK id \in Nat : id = Head(queue) /\ Taken(id)
  BY DispatchTakes, Zenon
<1>2. sent[id] \in [kind : Kinds, ch : Chans \cup {0}] /\ (sent[id].kind = "content" => sent[id].ch # 0)
  BY <1>1, TakenKeeps, Zenon
<1> DEFINE c == sent[id].ch
<1>3. \/ /\ sent[id].kind = "barrier"
         /\ IF parked = 0
            THEN closed' = closed \cup {id} /\ UNCHANGED <<ticket, barriers>>
            ELSE /\ ticket' = ticket + 1
                 /\ barriers' = barriers \cup {[id |-> id, ticket |-> ticket + 1]}
                 /\ UNCHANGED closed
         /\ UNCHANGED <<lanes, parked, reads, gone>>
      \/ sent[id].kind = "content" /\ park(id, c, TRUE)
      \/ sent[id].kind \in {"scoped", "global"} /\ QueuesBehind(c) /\ park(id, c, FALSE)
      \/ /\ sent[id].kind \in {"scoped", "global"} /\ ~QueuesBehind(c)
         /\ gone' = gone \/ gone' = Append(gone, [id |-> id, gate |-> 0])
         /\ UNCHANGED <<lanes, parked, reads, ticket, barriers, closed>>
  BY <1>1, Zenon DEF dispatch
<1>4. CASE /\ sent[id].kind = "barrier"
           /\ IF parked = 0
              THEN closed' = closed \cup {id} /\ UNCHANGED <<ticket, barriers>>
              ELSE /\ ticket' = ticket + 1
                   /\ barriers' = barriers \cup {[id |-> id, ticket |-> ticket + 1]}
                   /\ UNCHANGED closed
           /\ UNCHANGED <<lanes, parked, reads, gone>>
  BY <1>1, <1>4, BarrierOK, Zenon
<1>5. CASE sent[id].kind = "content" /\ park(id, c, TRUE)
  <2>1. c \in Chans
    BY <1>2, <1>5, Zenon
  <2> QED
    BY <2>1, <1>1, <1>5, ParkOK, Zenon
<1>6. CASE sent[id].kind \in {"scoped", "global"} /\ QueuesBehind(c) /\ park(id, c, FALSE)
  <2>1. c \in Chans /\ sent[id].kind # "content"
    BY <1>2, <1>6, Zenon DEF QueuesBehind
  <2> QED
    BY <2>1, <1>1, <1>6, ParkOK, Zenon
<1>7. CASE /\ sent[id].kind \in {"scoped", "global"} /\ ~QueuesBehind(c)
           /\ gone' = gone \/ gone' = Append(gone, [id |-> id, gate |-> 0])
           /\ UNCHANGED <<lanes, parked, reads, ticket, barriers, closed>>
  <2>1. sent[id].kind # "content"
    BY <1>7, Zenon
  <2> QED
    BY <2>1, <1>1, <1>7, DeliverOK, Zenon
<1> QED
  BY <1>3, <1>4, <1>5, <1>6, <1>7, Zenon

\* Every step keeps the invariant.
LEMMA StepOK == IInv /\ [Next]_vars => IInv'
<1> SUFFICES ASSUME IInv, [Next]_vars PROVE IInv'
  BY Zenon
<1>1. CASE \E kind \in Kinds, c \in Chans \cup {0} : enqueue(kind, c)
  BY <1>1, EnqueueOK, Zenon
<1>2. CASE relabel
  BY <1>2, RelabelOK, Zenon
<1>3. CASE \E failed \in BOOLEAN : dispatch(failed)
  BY <1>3, DispatchOK, Zenon
<1>4. CASE \E c \in Chans : resolveGateOnce(c)
  BY <1>4, ResolveOK, Zenon
<1>5. CASE \E c \in Chans : \E failed \in BOOLEAN : onGateResolved(c, failed)
  BY <1>5, DrainOK, Zenon
<1>6. CASE closeParkedBarriers
  BY <1>6, CloseOK, Zenon
<1>7. CASE UNCHANGED vars
  <2>1. UNCHANGED <<sent, queue, lanes, parked, reads, ticket, barriers, closed, policy, stopped, panics, gone, asOf>>
    BY <1>7, SMTT(30) DEF vars
  <2>2. Types'
    BY <2>1, Zenon DEF IInv, Types
  <2>3. QueueGood' /\ PastGood'
    BY <2>1, ZenonT(30) DEF IInv, QueueGood, PastGood
  <2>4. LaneGood'
    BY <2>1 DEF IInv, LaneGood
  <2>5. GateGood' /\ BarrierGood'
    BY <2>1, Zenon DEF IInv, GateGood, BarrierGood
  <2>6. GoneGood'
    BY <2>1, Zenon DEF IInv, GoneGood, ChannelOrder
  <2>7. Counted'
    BY <2>1 DEF IInv, Counted, InLanes
  <2> QED
    BY <2>2, <2>3, <2>4, <2>5, <2>6, <2>7, Zenon DEF IInv
<1> QED
  BY <1>1, <1>2, <1>3, <1>4, <1>5, <1>6, <1>7, SMTT(30) DEF Next, Kinds

\* The invariant behind the three results below, for every behaviour of the hub's
\* dispatch loop and its gate reads.
THEOREM GateInvariant == Spec => []IInv
<1>1. Init => IInv
  BY InitOK, Zenon
<1>2. IInv /\ [Next]_vars => IInv'
  BY StepOK, Zenon
<1> QED
  BY <1>1, <1>2, PTL DEF Spec

\* Frames of one channel, and global frames among themselves, leave dispatch in the
\* order they were queued, for any number of lanes, reads in flight and panics.
THEOREM ChannelOrderKept == Spec => []ChannelOrder
<1>1. IInv => ChannelOrder
  BY Zenon DEF IInv, GoneGood
<1> QED
  BY <1>1, GateInvariant, PTL

\* A barrier that dispatch or releaseBarriers closed has nothing older queued or
\* parked in any lane.
THEOREM BarrierIsCover == Spec => []BarrierCovers
<1>1. IInv => BarrierCovers
  <2> SUFFICES ASSUME IInv, ~stopped, NEW id \in closed, NEW other \in Range(queue) \cup InLanes
               PROVE  id < other
    BY Zenon DEF BarrierCovers
  <2>1. CASE other \in Range(queue)
    <3>1. PICK i \in 1..Len(queue) : other = queue[i]
      BY <2>1 DEF Range, IInv, Types
    <3> QED
      BY <3>1, Zenon DEF IInv, PastGood, Before
  <2>2. CASE other \in InLanes
    <3>1. PICK c \in Chans : \E i \in DOMAIN lanes[c] : other = lanes[c][i].id
      BY <2>2, Zenon DEF InLanes
    <3>2. DOMAIN lanes[c] = 1..Len(lanes[c])
      BY DEF IInv, Types
    <3> QED
      BY <3>1, <3>2, Zenon DEF IInv, BarrierGood
  <2> QED
    BY <2>1, <2>2, Zenon
<1> QED
  BY <1>1, GateInvariant, PTL

\* The answer a content frame is delivered under was read after the frame was
\* dequeued, also where a backlog shares one read.
THEOREM GateIsFresh == Spec => []GateNotStale
<1>1. IInv => GateNotStale
  <2> SUFFICES ASSUME IInv, NEW i \in 1..Len(gone), sent[gone[i].id].kind = "content"
               PROVE  gone[i].gate >= asOf[gone[i].id]
    BY Zenon DEF GateNotStale
  <2>1. gone[i].id \in DOMAIN asOf /\ asOf[gone[i].id] <= gone[i].gate
    BY Zenon DEF IInv, GoneGood
  <2>2. gone[i].gate \in Nat /\ asOf[gone[i].id] \in Nat
    <3>1. \A S : gone \in Seq(S) => gone[i] \in S
      OBVIOUS
    <3>2. gone[i] \in [id : Nat, gate : Nat]
      BY <3>1, Zenon DEF IInv, Types
    <3>3. asOf[gone[i].id] \in Nat
      BY <2>1, Zenon DEF IInv, Types
    <3> QED
      BY <3>2, <3>3, Zenon
  <2> QED
    BY <2>1, <2>2, Zenon
<1> QED
  BY <1>1, GateInvariant, PTL
=============================================================================
