--------------------------- MODULE EventRingProofs ---------------------------
(***************************************************************************)
(* Proofs about EventRing for every ring size, channel set and payload set.*)
(***************************************************************************)
EXTENDS EventRing, TLAPS, WellFoundedInduction

\* Wrap-around arithmetic: an index below twice the ring size is reduced by at
\* most one subtraction, which is all Slot and the write position ever need.
LEMMA ModOnce ==
    ASSUME NEW n \in Nat \ {0}, NEW a \in 0..2*n-1
    PROVE  a % n = IF a < n THEN a ELSE a - n
<1>1. CASE a < n
  BY <1>1
<1>2. CASE a >= n
  <2>1. a - n \in 0..n-1
    BY <1>2
  <2>2. a = n * 1 + (a - n)
    BY <2>1
  <2> QED
    BY <1>2, <2>1, <2>2
<1> QED
  BY <1>1, <1>2

\* Slot without the modulo: positions run up from pos - count, wrapping at 0.
SlotOf(p, c, i) == IF p - c + i < 0 THEN p - c + i + RingSize ELSE p - c + i

LEMMA SlotValue ==
    ASSUME pos \in 0..RingSize-1, count \in 0..RingSize, NEW i \in 0..count-1
    PROVE  /\ Slot(i) = SlotOf(pos, count, i)
           /\ Slot(i) \in 0..RingSize-1
<1> DEFINE a == pos - count + RingSize + i
<1>1. RingSize \in Nat \ {0}
  BY RingSizeAssumption, Zenon
<1>2. a \in 0..2*RingSize-1
  BY <1>1
<1>3. a % RingSize = IF a < RingSize THEN a ELSE a - RingSize
  BY <1>1, <1>2, ModOnce, Zenon
<1> QED
  BY <1>1, <1>2, <1>3 DEF Slot, SlotOf

\* The same for the primed position and count, and the next write position.
LEMMA NextPos ==
    ASSUME pos \in 0..RingSize-1
    PROVE  (pos + 1) % RingSize = IF pos + 1 < RingSize THEN pos + 1 ELSE 0
<1>1. RingSize \in Nat \ {0} /\ pos + 1 \in 0..2*RingSize-1
  BY RingSizeAssumption
<1> QED
  BY <1>1, ModOnce

-----------------------------------------------------------------------------
(* The inductive invariant: the array against the history of pushes, with    *)
(* Slot's modulo resolved, and the history itself contiguous.                *)

HistoryContiguous == \A k \in 1..Len(history) : history[k].seq = seq - Len(history) + k

ArrayIsHistory ==
    /\ count = Min2(Len(history), RingSize)
    /\ \A i \in 0..count-1 :
          entries[SlotOf(pos, count, i)] = history[Len(history) - count + i + 1]

IInv == TypeOK /\ ArrayIsHistory /\ HistoryContiguous /\ Len(history) <= seq

LEMMA InitIInv == Init => IInv
<1> SUFFICES ASSUME Init PROVE IInv
  BY Zenon
<1>1. ZeroEntry \in Entry
  BY NoDataAssumption, Zenon DEF ZeroEntry, Entry
<1>2. TypeOK
  BY <1>1, RingSizeAssumption, SeedsAssumption DEF Init, TypeOK
<1>3. Len(history) = 0
  BY Zenon DEF Init
<1>4. ArrayIsHistory
  BY <1>3, RingSizeAssumption DEF Init, ArrayIsHistory, Min2
<1>5. HistoryContiguous
  BY <1>3 DEF HistoryContiguous
<1> QED
  BY <1>2, <1>3, <1>4, <1>5 DEF IInv, TypeOK

\* A push writes slot pos, which becomes the youngest of the live slots.
LEMMA PushIInv ==
    ASSUME IInv, NEW ch \in Channels \cup {0}, NEW content \in BOOLEAN, NEW d \in Payloads,
           pushEntry(ch, content, d)
    PROVE  IInv'
<1> DEFINE e == [seq |-> seq + 1, channelID |-> ch, contentBearing |-> content, data |-> d]
<1> DEFINE L == Len(history)
<1>1. /\ RingSize \in Nat \ {0}
      /\ TypeOK
      /\ L \in Nat
  BY RingSizeAssumption DEF IInv, TypeOK
<1>2. /\ seq' = seq + 1
      /\ entries' = [entries EXCEPT ![pos] = e]
      /\ pos' = IF pos + 1 < RingSize THEN pos + 1 ELSE 0
      /\ count' = IF count < RingSize THEN count + 1 ELSE count
      /\ history' = Append(history, e)
  BY <1>1, NextPos, Zenon DEF pushEntry, TypeOK
<1>3. e \in Entry
  BY <1>1 DEF Entry, TypeOK
<1>4. TypeOK'
  BY <1>1, <1>2, <1>3 DEF TypeOK
<1>5. /\ Len(history') = L + 1
      /\ history'[L + 1] = e
      /\ \A k \in 1..L : history'[k] = history[k]
  BY <1>1, <1>2, <1>3 DEF TypeOK
<1>6. HistoryContiguous'
  BY <1>1, <1>2, <1>4, <1>5 DEF HistoryContiguous, IInv, TypeOK
<1>7. count' = Min2(Len(history'), RingSize)
  BY <1>1, <1>2, <1>5 DEF IInv, ArrayIsHistory, Min2, TypeOK
<1>8. ASSUME NEW i \in 0..count'-1
      PROVE  entries'[SlotOf(pos', count', i)] = history'[Len(history') - count' + i + 1]
  <2>1. CASE i = count' - 1
    <3>1. SlotOf(pos', count', i) = pos
      BY <1>1, <1>2, <2>1 DEF SlotOf, TypeOK
    <3>2. Len(history') - count' + i + 1 = L + 1
      BY <1>1, <1>2, <1>4, <1>5, <2>1 DEF TypeOK
    <3> QED
      BY <1>1, <1>2, <1>5, <3>1, <3>2, Zenon DEF TypeOK
  <2>2. CASE i < count' - 1 /\ count < RingSize
    <3>1. i \in 0..count-1 /\ count' = count + 1
      BY <1>1, <1>2, <2>2 DEF TypeOK
    <3>2. /\ SlotOf(pos', count', i) = SlotOf(pos, count, i)
          /\ SlotOf(pos, count, i) # pos
          /\ SlotOf(pos, count, i) \in 0..RingSize-1
      BY <1>1, <1>2, <2>2, <3>1 DEF SlotOf, TypeOK
    <3>3. /\ Len(history') - count' + i + 1 = L - count + i + 1
          /\ L - count + i + 1 \in 1..L
      BY <1>1, <1>4, <1>5, <3>1, SMTT(30) DEF IInv, ArrayIsHistory, Min2, TypeOK
    <3>4. entries[SlotOf(pos, count, i)] = history[L - count + i + 1]
      BY <3>1, Zenon DEF IInv, ArrayIsHistory
    <3>5. entries'[SlotOf(pos, count, i)] = entries[SlotOf(pos, count, i)]
      BY <1>1, <1>2, <3>2, Zenon DEF TypeOK
    <3> QED
      BY <1>5, <3>2, <3>3, <3>4, <3>5, Zenon
  <2>3. CASE i < count' - 1 /\ count = RingSize
    <3>1. i + 1 \in 0..count-1 /\ count' = count
      BY <1>1, <1>2, <2>3 DEF TypeOK
    <3>2. /\ SlotOf(pos', count', i) = SlotOf(pos, count, i + 1)
          /\ SlotOf(pos, count, i + 1) # pos
          /\ SlotOf(pos, count, i + 1) \in 0..RingSize-1
      BY <1>1, <1>2, <2>3, <3>1 DEF SlotOf, TypeOK
    <3>3. /\ Len(history') - count' + i + 1 = L - count + (i + 1) + 1
          /\ L - count + (i + 1) + 1 \in 1..L
      BY <1>1, <1>4, <1>5, <3>1, SMTT(30) DEF IInv, ArrayIsHistory, Min2, TypeOK
    <3>4. entries[SlotOf(pos, count, i + 1)] = history[L - count + (i + 1) + 1]
      BY <3>1, Zenon DEF IInv, ArrayIsHistory
    <3>5. entries'[SlotOf(pos, count, i + 1)] = entries[SlotOf(pos, count, i + 1)]
      BY <1>1, <1>2, <3>2, Zenon DEF TypeOK
    <3> QED
      BY <1>5, <3>2, <3>3, <3>4, <3>5, Zenon
  <2>4. count \in 0..RingSize
    BY <1>1, Zenon DEF TypeOK
  <2>5. i = count' - 1 \/ i < count' - 1
    BY <1>1, <1>2 DEF TypeOK
  <2>6. count < RingSize \/ count = RingSize
    BY <1>1, <2>4
  <2> QED
    BY <2>1, <2>2, <2>3, <2>5, <2>6, Zenon
<1>9. ArrayIsHistory'
  BY <1>7, <1>8, Zenon DEF ArrayIsHistory
<1>10. Len(history') <= seq'
  BY <1>1, <1>2, <1>5 DEF IInv, TypeOK
<1> QED
  BY <1>4, <1>6, <1>9, <1>10, Zenon DEF IInv

\* Clearing data leaves every seq, the position and the count alone, and
\* touches a live slot exactly when it touches the matching history entry.
LEMMA RemoveIInv ==
    ASSUME IInv, NEW drop \in SUBSET Payloads, removeWhere(drop)
    PROVE  IInv'
<1>1. /\ RingSize \in Nat \ {0}
      /\ TypeOK
      /\ Len(history) \in Nat
  BY RingSizeAssumption DEF IInv, TypeOK
<1>2. pos' = pos /\ count' = count /\ seq' = seq
  BY Zenon DEF removeWhere
<1>3. \A e \in Entry : Cleared(e, drop) \in Entry /\ Cleared(e, drop).seq = e.seq
  BY Zenon DEF Entry, Cleared
<1>4. /\ history' = [k \in 1..Len(history) |-> Cleared(history[k], drop)]
      /\ history' \in Seq(Entry)
      /\ Len(history') = Len(history)
  BY <1>1, <1>3 DEF removeWhere, RemoveWhere, TypeOK
<1>5. /\ entries' \in [0..RingSize-1 -> Entry]
      /\ \A j \in 0..RingSize-1 : entries'[j] = 
            IF \E i \in 0..count-1 : Slot(i) = j THEN Cleared(entries[j], drop) ELSE entries[j]
  BY <1>1, <1>3, Zenon DEF removeWhere, TypeOK
<1>6. TypeOK'
  BY <1>1, <1>2, <1>4, <1>5, Zenon DEF TypeOK
<1>7. HistoryContiguous'
  BY <1>1, <1>2, <1>3, <1>4 DEF HistoryContiguous, IInv, TypeOK
<1>8. ASSUME NEW i \in 0..count'-1
      PROVE  entries'[SlotOf(pos', count', i)] = history'[Len(history') - count' + i + 1]
  <2>1. i \in 0..count-1
    BY <1>2, Zenon
  <2>2. /\ SlotOf(pos, count, i) \in 0..RingSize-1
        /\ Slot(i) = SlotOf(pos, count, i)
    BY <1>1, <2>1, SlotValue, Zenon DEF TypeOK
  <2>3. entries'[SlotOf(pos, count, i)] = Cleared(entries[SlotOf(pos, count, i)], drop)
    BY <1>5, <2>1, <2>2, Zenon
  <2>4. Len(history) - count + i + 1 \in 1..Len(history)
    BY <1>1, <2>1, SMTT(30) DEF IInv, ArrayIsHistory, Min2, TypeOK
  <2>5. entries[SlotOf(pos, count, i)] = history[Len(history) - count + i + 1]
    BY <2>1, Zenon DEF IInv, ArrayIsHistory
  <2> QED
    BY <1>2, <1>4, <2>3, <2>4, <2>5, Zenon DEF SlotOf
<1>9. count' = Min2(Len(history'), RingSize)
  BY <1>2, <1>4, Zenon DEF IInv, ArrayIsHistory, Min2
<1> QED
  BY <1>2, <1>4, <1>6, <1>7, <1>8, <1>9, Zenon DEF IInv, ArrayIsHistory

LEMMA StepIInv == IInv /\ [Next]_ringVars => IInv'
<1> SUFFICES ASSUME IInv, [Next]_ringVars PROVE IInv'
  BY Zenon
<1>1. CASE \E ch \in Channels \cup {0}, content \in BOOLEAN, d \in Payloads : pushEntry(ch, content, d)
  BY <1>1, PushIInv, Zenon
<1>2. CASE \E drop \in SUBSET Payloads : removeWhere(drop)
  BY <1>2, RemoveIInv, Zenon
<1>3. CASE UNCHANGED ringVars
  BY <1>3, Zenon DEF ringVars, IInv, TypeOK, ArrayIsHistory, HistoryContiguous, SlotOf, Min2
<1> QED
  BY <1>1, <1>2, <1>3, Zenon DEF Next

\* The inductive invariant holds throughout.
THEOREM RingInvariant == Spec => []IInv
BY InitIInv, StepIInv, PTL DEF Spec

-----------------------------------------------------------------------------
(* What the invariant says about the window a reader walks.                  *)

\* The live slots are the youngest end of the history.
WindowFacts ==
    /\ Len(history) \in Nat /\ count \in Nat /\ count <= Len(history)
    /\ \A i \in 1..count : Window[i] = history[Len(history) - count + i]
    /\ \A i \in 0..count-1 : entries[Slot(i)] = history[Len(history) - count + i + 1]
    /\ \A i \in 0..count-1 : entries[Slot(i)].seq = seq - count + i + 1

LEMMA WindowValue == IInv => WindowFacts
<1> SUFFICES ASSUME IInv PROVE WindowFacts
  BY Zenon
<1>1. /\ RingSize \in Nat \ {0}
      /\ pos \in 0..RingSize-1 /\ count \in 0..RingSize /\ seq \in Nat
      /\ Len(history) \in Nat
  BY RingSizeAssumption DEF IInv, TypeOK
<1>2. count <= Len(history)
  BY <1>1 DEF IInv, ArrayIsHistory, Min2
<1>3. \A i \in 0..count-1 : entries[Slot(i)] = history[Len(history) - count + i + 1]
  <2> TAKE i \in 0..count-1
  <2>1. Slot(i) = SlotOf(pos, count, i)
    BY <1>1, SlotValue, Zenon
  <2> QED
    BY <2>1, Zenon DEF IInv, ArrayIsHistory
<1>4. \A i \in 1..count : Window[i] = history[Len(history) - count + i]
  <2> TAKE i \in 1..count
  <2>1. i - 1 \in 0..count-1 /\ Len(history) - count + (i - 1) + 1 = Len(history) - count + i
    BY <1>1
  <2> QED
    BY <1>3, <2>1, Zenon DEF Window
<1>5. \A i \in 0..count-1 : entries[Slot(i)].seq = seq - count + i + 1
  <2> TAKE i \in 0..count-1
  <2>1. Len(history) - count + i + 1 \in 1..Len(history)
    BY <1>1, <1>2
  <2>2. history[Len(history) - count + i + 1].seq
            = seq - Len(history) + (Len(history) - count + i + 1)
    BY <2>1, Zenon DEF IInv, HistoryContiguous
  <2> QED
    BY <1>1, <1>3, <2>2
<1> QED
  BY <1>1, <1>2, <1>3, <1>4, <1>5, SMTT(30) DEF WindowFacts

\* The live slots, read oldest first, are exactly the last frames pushed.
THEOREM WindowIsRecent == Spec => []WindowIsRecentHistory
<1>1. IInv => WindowIsRecentHistory
  BY WindowValue, Zenon DEF WindowFacts, WindowIsRecentHistory, IInv, ArrayIsHistory
<1> QED
  BY <1>1, RingInvariant, PTL

\* Seqs in the window are consecutive and end at the hub's counter.
THEOREM WindowHasNoGap == Spec => []WindowContiguous
<1>1. IInv => WindowContiguous
  <2> SUFFICES ASSUME IInv, NEW i \in 1..count PROVE Window[i].seq = seq - count + i
    BY Zenon DEF WindowContiguous
  <2>1. count \in Nat /\ seq \in Nat
    BY WindowValue, Zenon DEF WindowFacts, IInv, TypeOK
  <2>2. i - 1 \in 0..count-1 /\ seq - count + (i - 1) + 1 = seq - count + i
    BY <2>1
  <2>3. Window[i] = entries[Slot(i - 1)]
    BY Zenon DEF Window
  <2> QED
    BY <2>2, <2>3, WindowValue, Zenon DEF WindowFacts
<1> QED
  BY <1>1, RingInvariant, PTL

\* sort.Search finds its answer by arithmetic alone, because seqs are
\* consecutive: the first newer slot is after's distance from the oldest.
LEMMA FirstValue ==
    ASSUME IInv, count # 0, NEW after \in Nat, after > oldest, after <= newest
    PROVE  /\ First(after) = after - (seq - count)
           /\ First(after) \in 1..count
<1>1. /\ RingSize \in Nat \ {0}
      /\ pos \in 0..RingSize-1 /\ count \in 1..RingSize /\ seq \in Nat
      /\ Len(history) \in Nat /\ count <= Len(history)
      /\ Len(history) <= seq
  BY RingSizeAssumption, WindowValue DEF WindowFacts, IInv, TypeOK
<1>2. \A i \in 0..count-1 : entries[Slot(i)].seq = seq - count + i + 1
  BY WindowValue, Zenon DEF WindowFacts
<1>3. oldest = seq - count + 1
  BY <1>1, <1>2 DEF oldest
<1>4. newest = seq
  <2>1. Slot(count - 1) = (pos - 1 + RingSize) % RingSize
    BY <1>1 DEF Slot
  <2>2. count - 1 \in 0..count-1 /\ seq - count + (count - 1) + 1 = seq
    BY <1>1
  <2> QED
    BY <1>2, <2>1, <2>2, Zenon DEF newest
<1> DEFINE newer == {i \in 0..count-1 : entries[Slot(i)].seq > after}
<1> DEFINE f == after - (seq - count)
<1>5. f \in 1..count
  BY <1>1, <1>3, <1>4
<1>6. newer = {i \in 0..count-1 : i >= f}
  BY <1>1, <1>2
<1>7. CASE f = count
  <2>1. newer = {}
    BY <1>1, <1>6, <1>7
  <2> QED
    BY <1>5, <1>7, <2>1, Zenon DEF First
<1>8. CASE f < count
  <2>1. f \in newer /\ \A j \in newer : f <= j
    BY <1>1, <1>5, <1>6, <1>8
  <2>2. \A i \in newer : (\A j \in newer : i <= j) => i = f
    BY <1>1, <1>5, <2>1
  <2>3. (CHOOSE i \in newer : \A j \in newer : i <= j) = f
    <3> HIDE DEF newer, f
    <3> QED
      BY <2>1, <2>2, Zenon
  <2> QED
    BY <1>5, <2>1, <2>3, Zenon DEF First
<1> QED
  BY <1>1, <1>5, <1>7, <1>8

\* A served replay walks every frame newer than the client's last_seq, none
\* cleared and none older, whatever the ring size.
THEOREM ReplayIsComplete == Spec => []ReplayComplete
<1>1. IInv => ReplayComplete
  <2> SUFFICES ASSUME IInv, NEW after \in 0..seq+1, eventsSinceOK(after)
               PROVE  /\ \A k \in 1..Len(history) : history[k].seq > after =>
                            /\ history[k].data # NoData
                            /\ \E i \in First(after)..count-1 : entries[Slot(i)] = history[k]
                      /\ \A i \in First(after)..count-1 : \E k \in 1..Len(history) :
                            entries[Slot(i)] = history[k] /\ history[k].seq > after
    BY Zenon DEF ReplayComplete
  <2> DEFINE L == Len(history)
  <2>1. L \in Nat /\ count \in Nat /\ count <= L /\ seq \in Nat /\ after \in Nat
    BY WindowValue DEF WindowFacts, IInv, TypeOK
  <2>2. First(after) = after - (seq - count) /\ First(after) \in 1..count
    BY <2>1, FirstValue, Zenon DEF eventsSinceOK
  <2>3. \A k \in 1..L : history[k].seq = seq - L + k
    BY Zenon DEF IInv, HistoryContiguous
  <2>4. ASSUME NEW k \in 1..L, history[k].seq > after
        PROVE  /\ history[k].data # NoData
               /\ \E i \in First(after)..count-1 : entries[Slot(i)] = history[k]
    <3> DEFINE i == k - (L - count) - 1
    <3>1. seq - L + k > after
      BY <2>3, <2>4, Zenon
    <3>2. i \in First(after)..count-1 /\ i \in 0..count-1 /\ L - count + i + 1 = k
      BY <2>1, <2>2, <3>1
    <3>3. entries[Slot(i)] = history[k]
      <4> HIDE DEF i
      <4> QED
        BY <3>2, WindowValue, Zenon DEF WindowFacts
    <3> QED
      BY <3>2, <3>3, Zenon DEF eventsSinceOK
  <2>5. ASSUME NEW i \in First(after)..count-1
        PROVE  \E k \in 1..L : entries[Slot(i)] = history[k] /\ history[k].seq > after
    <3> DEFINE k == L - count + i + 1
    <3>1. k \in 1..L /\ i \in 0..count-1 /\ seq - L + k > after
      BY <2>1, <2>2
    <3>2. entries[Slot(i)] = history[k]
      BY <3>1, WindowValue, Zenon DEF WindowFacts
    <3>3. history[k].seq > after
      <4> HIDE DEF k
      <4> QED
        BY <2>3, <3>1, Zenon
    <3> QED
      BY <3>1, <3>2, <3>3, Zenon
  <2> QED
    BY <2>4, <2>5, Zenon
<1> QED
  BY <1>1, RingInvariant, PTL

-----------------------------------------------------------------------------
(* The circular array implements the abstract window.                        *)

LEMMA WindowType == IInv => Window \in Seq(Entry) /\ Len(Window) = count
<1> SUFFICES ASSUME IInv PROVE Window \in Seq(Entry) /\ Len(Window) = count
  BY Zenon
<1>1. count \in Nat /\ count <= Len(history) /\ history \in Seq(Entry) /\ Len(history) \in Nat
  BY WindowValue, Zenon DEF WindowFacts, IInv, TypeOK
<1>2. \A i \in 1..count : Window[i] \in Entry
  <2> TAKE i \in 1..count
  <2>1. Len(history) - count + i \in 1..Len(history)
    BY <1>1
  <2> QED
    BY <1>1, <2>1, WindowValue, SMTT(30) DEF WindowFacts
<1> QED
  BY <1>1, <1>2 DEF Window

LEMMA PushRefines ==
    ASSUME IInv, IInv', NEW ch \in Channels \cup {0}, NEW content \in BOOLEAN, NEW d \in Payloads,
           pushEntry(ch, content, d)
    PROVE  Abstract!Push(ch, content, d)
<1> DEFINE e == [seq |-> seq + 1, channelID |-> ch, contentBearing |-> content, data |-> d]
<1> DEFINE L == Len(history)
<1> DEFINE W == PushEntry(Window, e)
<1>1. /\ RingSize \in Nat \ {0}
      /\ L \in Nat /\ count \in 0..RingSize /\ count <= L /\ seq \in Nat
      /\ history \in Seq(Entry)
  BY RingSizeAssumption, WindowValue, Zenon DEF WindowFacts, IInv, TypeOK
<1>2. e \in Entry
  BY <1>1 DEF Entry
<1>3. /\ history' = Append(history, e)
      /\ count' = IF count < RingSize THEN count + 1 ELSE count
  BY Zenon DEF pushEntry
<1>4. Window \in Seq(Entry) /\ Len(Window) = count
  BY WindowType, Zenon
<1>5. /\ Len(history') = L + 1
      /\ history'[L + 1] = e
      /\ \A k \in 1..L : history'[k] = history[k]
  BY <1>1, <1>2, <1>3
<1>6. WindowFacts'
  BY WindowValue, PTL
<1>7. Window' = [i \in 1..count' |-> Window'[i]]
  BY Zenon DEF Window
<1>8. /\ W \in Seq(Entry) /\ Len(W) = count'
      /\ \A i \in 1..count' : W[i] = history'[L + 1 - count' + i]
  <2> HIDE DEF e
  <2>1. CASE count < RingSize
    <3>1. W = Append(Window, e) /\ count' = count + 1
      BY <1>1, <1>3, <1>4, <2>1, Zenon DEF PushEntry
    <3>2. /\ W \in Seq(Entry) /\ Len(W) = count + 1
          /\ W[count + 1] = e
          /\ \A i \in 1..count : W[i] = Window[i]
      BY <1>1, <1>2, <1>4, <3>1
    <3> HIDE DEF W
    <3>3. ASSUME NEW i \in 1..count PROVE W[i] = history'[L + 1 - (count + 1) + i]
      <4>1. L - count + i \in 1..L /\ L + 1 - (count + 1) + i = L - count + i
        BY <1>1
      <4> QED
        BY <1>5, <3>2, <4>1, WindowValue, Zenon DEF WindowFacts
    <3>4. L + 1 - (count + 1) + (count + 1) = L + 1
      BY <1>1
    <3>5. \A i \in 1..count+1 : i \in 1..count \/ i = count + 1
      BY <1>1
    <3> QED
      BY <1>5, <3>1, <3>2, <3>3, <3>4, <3>5, Zenon
  <2>2. CASE count = RingSize
    <3>1. W = Append(Tail(Window), e) /\ count' = count
      BY <1>1, <1>3, <1>4, <2>2 DEF PushEntry
    <3>2. /\ Tail(Window) \in Seq(Entry)
          /\ Len(Tail(Window)) = count - 1
          /\ \A i \in 1..count-1 : Tail(Window)[i] = Window[i + 1]
      BY <1>1, <1>4, <2>2
    <3>3. /\ W \in Seq(Entry) /\ Len(W) = count
          /\ W[count] = e
          /\ \A i \in 1..count-1 : W[i] = Window[i + 1]
      BY <1>1, <1>2, <2>2, <3>1, <3>2
    <3> HIDE DEF W
    <3>4. ASSUME NEW i \in 1..count-1 PROVE W[i] = history'[L + 1 - count + i]
      <4>1. /\ L - count + (i + 1) \in 1..L
            /\ L + 1 - count + i = L - count + (i + 1)
            /\ i + 1 \in 1..count
        BY <1>1
      <4> QED
        BY <1>5, <3>3, <4>1, WindowValue, ZenonT(30) DEF WindowFacts
    <3>5. L + 1 - count + count = L + 1
      BY <1>1
    <3>6. \A i \in 1..count : i \in 1..count-1 \/ i = count
      BY <1>1
    <3> QED
      BY <1>5, <3>1, <3>3, <3>4, <3>5, <3>6, SMTT(30)
  <2> QED
    BY <1>1, <2>1, <2>2
<1>9. Window' = W
  <2> HIDE DEF W, e
  <2>1. \A i \in 1..count' : Window'[i] = W[i]
    <3> TAKE i \in 1..count'
    <3>1. Window'[i] = history'[Len(history') - count' + i]
      BY <1>6, Zenon DEF WindowFacts
    <3>2. Len(history') - count' + i = L + 1 - count' + i
      BY <1>1, <1>3, <1>5
    <3>3. W[i] = history'[L + 1 - count' + i]
      BY <1>8, Zenon
    <3> QED
      BY <3>1, <3>2, <3>3, Zenon
  <2>2. W = [i \in 1..count' |-> W[i]]
    BY <1>8
  <2> QED
    BY <1>7, <2>1, <2>2, Zenon
<1> QED
  BY <1>9, Zenon DEF Abstract!Push, Abstract!PushEntry, PushEntry, pushEntry

LEMMA RemoveRefines ==
    ASSUME IInv, NEW drop \in SUBSET Payloads, removeWhere(drop)
    PROVE  Abstract!Remove(drop)
<1>1. /\ count' = count /\ pos' = pos /\ seq' = seq
      /\ count \in 0..RingSize /\ pos \in 0..RingSize-1
  BY Zenon DEF removeWhere, IInv, TypeOK
<1>2. Window' = [i \in 1..count |-> entries'[Slot(i - 1)]]
  BY <1>1, Zenon DEF Window, Slot
<1>3. \A i \in 1..count : entries'[Slot(i - 1)] = Cleared(Window[i], drop)
  <2> TAKE i \in 1..count
  <2>1. i - 1 \in 0..count-1
    BY <1>1, RingSizeAssumption
  <2>2. Slot(i - 1) \in 0..RingSize-1
    BY <1>1, <2>1, SlotValue, Zenon
  <2> QED
    BY <2>1, <2>2, Zenon DEF removeWhere, Window
<1>4. Len(Window) = count
  BY WindowType, Zenon
<1> QED
  BY <1>1, <1>2, <1>3, <1>4, Zenon DEF Abstract!Remove, Abstract!RemoveWhere, Abstract!Cleared, Cleared

\* Every behaviour of the circular array is a behaviour of the abstract
\* window: what the hub and its readers may rely on is RingWindow alone.
THEOREM RingRefines == Spec => AbstractSpec
<1>1. Init => Abstract!Init
  BY DEF Init, Abstract!Init, Window
<1>2. IInv /\ IInv' /\ [Next]_ringVars => [Abstract!Next]_<<Window, seq>>
  <2> SUFFICES ASSUME IInv, IInv', [Next]_ringVars PROVE [Abstract!Next]_<<Window, seq>>
    BY Zenon
  <2>1. CASE \E ch \in Channels \cup {0}, content \in BOOLEAN, d \in Payloads : pushEntry(ch, content, d)
    BY <2>1, PushRefines, Zenon DEF Abstract!Next
  <2>2. CASE \E drop \in SUBSET Payloads : removeWhere(drop)
    BY <2>2, RemoveRefines, Zenon DEF Abstract!Next
  <2>3. CASE UNCHANGED ringVars
    BY <2>3, Zenon DEF ringVars, Window, Slot
  <2> QED
    BY <2>1, <2>2, <2>3, Zenon DEF Next
<1> QED
  BY <1>1, <1>2, RingInvariant, PTL DEF Spec, AbstractSpec, Abstract!Spec

-----------------------------------------------------------------------------
(* What the loop of eventsSince appends.  Picked is a recursive function:    *)
(* it is unfolded here and reasoned about by least counterexample.           *)

\* A set of naturals that is not empty has a least member.
LEMMA LeastMember ==
    ASSUME NEW S \in SUBSET Nat, S # {}
    PROVE  \E m \in S : \A n \in S : m <= n
<1>1. IsWellFoundedOn(OpToRel(<, Nat), Nat)
  BY NatLessThanWellFounded, Zenon
<1>2. PICK m \in S : \A n \in S : ~(<<n, m>> \in OpToRel(<, Nat))
  BY <1>1, WFMin, Zenon
<1>3. \A n \in S : <<n, m>> \in Nat \X Nat /\ <<n, m>>[1] = n /\ <<n, m>>[2] = m
  BY Zenon
<1>4. \A n \in S : ~(n < m)
  BY <1>2, <1>3, Zenon DEF OpToRel
<1>5. \A n \in S : m <= n
  BY <1>4
<1> QED
  BY <1>5, Zenon

\* Induction over 0..n, with the property given as the set of the places where
\* it holds.
LEMMA Climb ==
    ASSUME NEW n \in Nat, NEW G, 0 \in G, \A i \in 1..n : i - 1 \in G => i \in G
    PROVE  \A i \in 0..n : i \in G
<1> SUFFICES ASSUME {i \in 0..n : i \notin G} # {} PROVE FALSE
  BY Zenon
<1>1. PICK m \in {i \in 0..n : i \notin G} : \A k \in {i \in 0..n : i \notin G} : m <= k
  <2>1. {i \in 0..n : i \notin G} \in SUBSET Nat
    OBVIOUS
  <2> QED
    BY <2>1, LeastMember, Zenon
<1>2. m \in 1..n /\ m - 1 \in 0..n /\ ~(m <= m - 1)
  BY <1>1
<1>3. m - 1 \in G
  BY <1>1, <1>2, Zenon
<1> QED
  BY <1>1, <1>2, <1>3, Zenon

\* f is the loop of Picked up to its m-th turn.
Loops(w, K, f, m) ==
    /\ f[0] = <<>>
    /\ \A i \in 1..m : f[i] = IF i \in K THEN Append(f[i - 1], w[i]) ELSE f[i - 1]

\* The loop ends, with one result for every number of turns.
LEMMA LoopExists ==
    ASSUME NEW S, NEW w \in Seq(S), NEW K
    PROVE  \E f \in [0..Len(w) -> Seq(S)] : Loops(w, K, f, Len(w))
<1> DEFINE n == Len(w)
           G == {m \in 0..n : \E f \in [0..m -> Seq(S)] : Loops(w, K, f, m)}
<1>1. n \in Nat
  OBVIOUS
<1>2. 0 \in G
  <2> DEFINE f == [i \in 0..0 |-> <<>>]
  <2>1. f \in [0..0 -> Seq(S)] /\ f[0] = <<>>
    OBVIOUS
  <2>2. Loops(w, K, f, 0)
    BY <2>1 DEF Loops
  <2> HIDE DEF f
  <2>3. \E g \in [0..0 -> Seq(S)] : Loops(w, K, g, 0)
    BY <2>1, <2>2, Zenon
  <2> QED
    BY <1>1, <2>3
<1>3. ASSUME NEW m \in 1..n, m - 1 \in G PROVE m \in G
  <2>1. PICK f \in [0..(m - 1) -> Seq(S)] : Loops(w, K, f, m - 1)
    BY <1>3, Zenon
  <2> DEFINE last == IF m \in K THEN Append(f[m - 1], w[m]) ELSE f[m - 1]
             g == [i \in 0..m |-> IF i = m THEN last ELSE f[i]]
  <2>2. f[m - 1] \in Seq(S) /\ w[m] \in S
    BY <1>1
  <2>3. last \in Seq(S)
    BY <2>2
  <2> HIDE DEF last
  <2>4. \A i \in 0..m : i # m => i \in 0..(m - 1)
    BY <1>1
  <2>5. g \in [0..m -> Seq(S)] /\ g[m] = last /\ \A i \in 0..(m - 1) : g[i] = f[i]
    BY <1>1, <2>3, <2>4
  <2> HIDE DEF g
  <2>6. Loops(w, K, g, m)
    <3>1. g[0] = <<>>
      BY <1>1, <2>1, <2>5 DEF Loops
    <3>2. ASSUME NEW i \in 1..m PROVE g[i] = IF i \in K THEN Append(g[i - 1], w[i]) ELSE g[i - 1]
      <4>1. i - 1 \in 0..(m - 1) /\ g[i - 1] = f[i - 1]
        BY <1>1, <2>5
      <4>2. CASE i = m
        BY <2>5, <4>1, <4>2, Zenon DEF last
      <4>3. CASE i # m
        <5>1. i \in 1..(m - 1) /\ i \in 0..(m - 1)
          BY <1>1, <4>3
        <5> QED
          BY <2>1, <2>5, <4>1, <5>1, Zenon DEF Loops
      <4> QED
        BY <4>2, <4>3, Zenon
    <3> QED
      BY <3>1, <3>2, Zenon DEF Loops
  <2> QED
    BY <1>1, <2>5, <2>6
<1>4. n \in G
  <2> HIDE DEF G, n
  <2>1. \A m \in 1..n : m - 1 \in G => m \in G
    BY <1>3, Zenon
  <2>2. \A m \in 0..n : m \in G
    BY <1>1, <1>2, <2>1, Climb, Zenon
  <2>3. n \in 0..n
    BY <1>1
  <2> QED
    BY <2>2, <2>3, Zenon
<1> QED
  BY <1>4, Zenon

\* Two runs of the loop agree.
LEMMA LoopUnique ==
    ASSUME NEW n \in Nat, NEW w, NEW K, NEW f, NEW g, Loops(w, K, f, n), Loops(w, K, g, n)
    PROVE  \A i \in 0..n : f[i] = g[i]
<1> DEFINE G == {i \in 0..n : f[i] = g[i]}
<1>1. 0 \in G
  BY DEF Loops
<1>2. ASSUME NEW i \in 1..n, i - 1 \in G PROVE i \in G
  BY <1>2 DEF Loops
<1> HIDE DEF G
<1>3. \A i \in 0..n : i \in G
  BY <1>1, <1>2, Climb, Zenon
<1> QED
  BY <1>3, Zenon DEF G

\* Picked is what the loop holds after its last turn.
LEMMA PickedLoops ==
    ASSUME NEW S, NEW w \in Seq(S), NEW K
    PROVE  \E f \in [0..Len(w) -> Seq(S)] : Loops(w, K, f, Len(w)) /\ Picked(w, K) = f[Len(w)]
<1> DEFINE n == Len(w)
           B(h) == [i \in 0..n |-> IF i = 0 THEN <<>> ELSE IF i \in K THEN Append(h[i - 1], w[i]) ELSE h[i - 1]]
           h == CHOOSE f : f = B(f)
<1>1. n \in Nat
  OBVIOUS
<1>2. PICK f \in [0..n -> Seq(S)] : Loops(w, K, f, n)
  BY LoopExists, Zenon
<1>3. f = B(f)
  <2>1. \A i \in 0..n : i = 0 \/ i \in 1..n
    BY <1>1
  <2>2. \A i \in 0..n : f[i] = IF i = 0 THEN <<>> ELSE IF i \in K THEN Append(f[i - 1], w[i]) ELSE f[i - 1]
    BY <1>2, <2>1, Zenon DEF Loops
  <2>3. f = [i \in 0..n |-> f[i]]
    BY <1>2, Zenon
  <2> QED
    BY <2>2, <2>3, Zenon
<1>4. h = B(h)
  BY <1>3, Zenon
<1>5. Picked(w, K) = h[n]
  BY Zenon DEF Picked
<1> HIDE DEF h
<1>6. Loops(w, K, h, n)
  <2>1. \A i \in 0..n : h[i] = IF i = 0 THEN <<>> ELSE IF i \in K THEN Append(h[i - 1], w[i]) ELSE h[i - 1]
    BY <1>4, Zenon
  <2> QED
    BY <1>1, <2>1 DEF Loops
<1>7. h[n] = f[n]
  BY <1>1, <1>2, <1>6, LoopUnique
<1> QED
  BY <1>2, <1>5, <1>7, Zenon

\* Where K begins past a, the slice does not depend on the first a entries.
LEMMA PickedShift ==
    ASSUME NEW S, NEW w \in Seq(S), NEW v \in Seq(S), NEW a \in Nat, NEW K, NEW J,
           Len(w) = a + Len(v), \A k \in 1..Len(v) : v[k] = w[a + k],
           \A i \in 1..a : i \notin K,
           \A k \in 1..Len(v) : k \in J <=> a + k \in K
    PROVE  Picked(v, J) = Picked(w, K)
<1> DEFINE n == Len(w)
           m == Len(v)
<1>1. n \in Nat /\ m \in Nat /\ n = a + m
  OBVIOUS
<1>2. PICK f \in [0..n -> Seq(S)] : Loops(w, K, f, n) /\ Picked(w, K) = f[n]
  BY PickedLoops, ZenonT(30)
<1>3. PICK g \in [0..m -> Seq(S)] : Loops(v, J, g, m) /\ Picked(v, J) = g[m]
  BY PickedLoops, ZenonT(30)
<1> HIDE DEF n, m
<1> DEFINE G == {i \in 0..a : f[i] = <<>>}
           H == {k \in 0..m : g[k] = f[a + k]}
<1>4. \A i \in 0..a : i \in G
  <2>1. 0 \in G
    BY <1>2 DEF Loops
  <2>2. ASSUME NEW i \in 1..a, i - 1 \in G PROVE i \in G
    <3>1. i \in 1..n /\ i \notin K
      BY <1>1
    <3> QED
      BY <1>2, <2>2, <3>1 DEF Loops
  <2> HIDE DEF G
  <2> QED
    BY <2>1, <2>2, Climb, Zenon
<1>5. \A k \in 0..m : k \in H
  <2>1. 0 \in H
    <3>1. f[a] = <<>> /\ a + 0 = a
      BY <1>4
    <3> QED
      BY <1>1, <1>3, <3>1 DEF Loops
  <2>2. ASSUME NEW k \in 1..m, k - 1 \in H PROVE k \in H
    <3>1. a + k \in 1..n /\ a + k - 1 = a + (k - 1) /\ k \in 0..m
      BY <1>1
    <3>2. v[k] = w[a + k] /\ (k \in J <=> a + k \in K)
      BY Zenon DEF m
    <3>3. f[a + k] = IF a + k \in K THEN Append(f[a + k - 1], w[a + k]) ELSE f[a + k - 1]
      BY <1>2, <3>1 DEF Loops
    <3>4. g[k] = IF k \in J THEN Append(g[k - 1], v[k]) ELSE g[k - 1]
      BY <1>3, Zenon DEF Loops
    <3> QED
      BY <2>2, <3>1, <3>2, <3>3, <3>4, Zenon
  <2> HIDE DEF H
  <2> QED
    BY <1>1, <2>1, <2>2, Climb, Zenon
<1> QED
  BY <1>1, <1>2, <1>3, <1>5

\* The walk over the array returns what the loop over all frames ever pushed
\* would.
LEMMA SliceOfHistory ==
    ASSUME IInv, NEW after \in 0..seq+1, NEW allowed, NEW readable, eventsSinceOK(after)
    PROVE  eventsSince(after, allowed, readable) = EventsSince(history, after, allowed, readable)
<1> DEFINE L == Len(history)
           from == First(after)
           a == L - (count - from)
           tail == [k \in 1..count-from |-> entries[Slot(from + k - 1)]]
           J == {k \in 1..count-from : Admits(tail[k], allowed, readable)}
           K == {i \in 1..L : history[i].seq > after /\ Admits(history[i], allowed, readable)}
<1>1. /\ L \in Nat /\ count \in Nat /\ count <= L /\ seq \in Nat /\ after \in Nat
      /\ history \in Seq(Entry)
  BY WindowValue DEF WindowFacts, IInv, TypeOK
<1>2. from = after - (seq - count) /\ from \in 1..count
  BY <1>1, FirstValue, Zenon DEF eventsSinceOK
<1>3. \A i \in 1..L : history[i].seq = seq - L + i
  BY Zenon DEF IInv, HistoryContiguous
<1>4. \A i \in 0..count-1 : entries[Slot(i)] = history[L - count + i + 1]
  BY WindowValue, Zenon DEF WindowFacts
<1> HIDE DEF L, from
<1>5. a \in Nat /\ count - from \in Nat /\ L = a + (count - from)
  BY <1>1, <1>2
<1>6. ASSUME NEW k \in 1..count-from
      PROVE  /\ a + k \in 1..L /\ a + k > a
             /\ entries[Slot(from + k - 1)] = history[a + k]
  <2>1. from + k - 1 \in 0..count-1 /\ L - count + (from + k - 1) + 1 = a + k /\ a + k \in 1..L
    BY <1>1, <1>2
  <2>2. entries[Slot(from + k - 1)] = history[L - count + (from + k - 1) + 1]
    BY <2>1, <1>4, Zenon
  <2> QED
    BY <2>1, <2>2, <1>5
<1>7. \A k \in 1..count-from : tail[k] = history[a + k] /\ history[a + k] \in Entry
  BY <1>1, <1>6 DEF L
<1>8. tail \in Seq(Entry) /\ Len(tail) = count - from
  <2> DEFINE n == count - from
  <2>1. n \in Nat /\ tail \in [1..n -> Entry]
    BY <1>5, <1>7, Zenon
  <2> HIDE DEF tail, n
  <2>2. tail \in Seq(Entry) /\ Len(tail) = n
    BY <2>1
  <2> QED
    BY <2>2, Zenon DEF n
<1>9. \A i \in 1..L : history[i].seq > after <=> i > a
  BY <1>1, <1>2, <1>3
<1>10. \A i \in 1..a : i \notin K
  BY <1>1, <1>5, <1>9
<1>11. \A k \in 1..count-from : k \in J <=> a + k \in K
  BY <1>6, <1>7, <1>9, Zenon
<1>12. eventsSince(after, allowed, readable) = Picked(tail, J)
  BY Zenon DEF eventsSince, from
<1>13. EventsSince(history, after, allowed, readable) = Picked(history, K)
  BY Zenon DEF EventsSince, L
<1>14. Len(history) = a + Len(tail) /\ \A k \in 1..Len(tail) : tail[k] = history[a + k]
  BY <1>5, <1>7, <1>8, Zenon DEF L
<1>15. \A k \in 1..Len(tail) : k \in J <=> a + k \in K
  BY <1>8, <1>11, Zenon
<1> HIDE DEF tail, J, K, a
<1>16. Picked(tail, J) = Picked(history, K)
  BY <1>1, <1>5, <1>8, <1>10, <1>14, <1>15, PickedShift, SMTT(30)
<1> QED
  BY <1>12, <1>13, <1>16, Zenon

\* eventsSince answers right both ways: what it returns is the entitled part of
\* all frames newer than the client's last_seq, in order, and it declines no
\* client the window covers.
THEOREM ReplayIsRight == Spec => []ReplayRight
<1>1. IInv => ReplayExact
  BY SliceOfHistory, Zenon DEF ReplayExact
<1>2. IInv => ReplayServed
  <2> SUFFICES ASSUME IInv, NEW after \in 0..seq+1, Covers(Window, after) PROVE eventsSinceOK(after)
    BY Zenon DEF ReplayServed
  <2>1. Window \in Seq(Entry) /\ Len(Window) = count
    BY WindowType, Zenon
  <2>2. /\ RingSize \in Nat \ {0} /\ pos \in 0..RingSize-1 /\ count \in 0..RingSize /\ seq \in Nat
        /\ after \in Nat
    BY RingSizeAssumption DEF IInv, TypeOK
  <2>3. count # 0
    BY <2>1, <2>2 DEF Covers
  <2>4. \A i \in 1..count : Window[i] = entries[Slot(i - 1)]
    BY Zenon DEF Window
  <2>5. \A i \in 0..count-1 : i + 1 \in 1..count /\ (i + 1) - 1 = i
    BY <2>2
  <2>6. \A i \in 0..count-1 : entries[Slot(i)] = Window[i + 1]
    BY <2>4, <2>5, Zenon
  <2>7. OldestSeq(Window) = oldest
    BY <2>1, <2>2, <2>3, <2>4 DEF Covers, OldestSeq, oldest
  <2>8. NewestSeq(Window) = newest
    <3>1. Slot(count - 1) = (pos - 1 + RingSize) % RingSize
      BY <2>2 DEF Slot
    <3> QED
      BY <2>1, <2>2, <2>3, <2>4, <3>1 DEF Covers, NewestSeq, newest
  <2>9. after > oldest /\ after <= newest
    BY <2>7, <2>8, Zenon DEF Covers
  <2>10. First(after) = after - (seq - count) /\ First(after) \in 1..count
    BY <2>2, <2>3, <2>9, FirstValue, Zenon
  <2>11. \A i \in 0..count-1 : entries[Slot(i)].seq = seq - count + i + 1
    BY WindowValue, Zenon DEF WindowFacts
  <2>12. ASSUME NEW i \in First(after)..count-1 PROVE entries[Slot(i)].data # NoData
    <3>1. i \in 0..count-1 /\ i + 1 \in 1..Len(Window)
      BY <2>1, <2>2, <2>10
    <3>2. entries[Slot(i)].seq > after
      BY <2>2, <2>10, <2>11, <3>1
    <3> QED
      BY <3>1, <3>2, <2>6, Zenon DEF Covers
  <2> QED
    BY <2>3, <2>9, <2>12, Zenon DEF eventsSinceOK
<1> QED
  BY <1>1, <1>2, RingInvariant, PTL DEF ReplayRight
=============================================================================
