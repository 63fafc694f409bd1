------------------------------ MODULE EventRing ------------------------------
(***************************************************************************)
(* EventRingBuffer (Server/ws/ringbuffer.go): a circular array with a      *)
(* write position and a count, pushed under the hub's sequencing lock and  *)
(* read by resuming connections.  history is an auxiliary variable: every  *)
(* entry ever pushed, with the data RemoveWhere has taken out since.       *)
(***************************************************************************)
EXTENDS RingOps

CONSTANTS
    Seeds,        \* values SeedSeq may leave in the hub counter before the first push
    MaxPush       \* bound: frames pushed in one behaviour

ASSUME SeedsAssumption == Seeds \subseteq Nat
ASSUME MaxPushAssumption == MaxPush \in Nat

VARIABLES
    entries,      \* the array
    pos,          \* next write position
    count,        \* entries stored, at most RingSize
    seq,          \* h.seq: last sequence number handed out
    history

ringVars == <<entries, pos, count, seq, history>>

\* The zero eventEntry make() leaves in every slot.
ZeroEntry == [seq |-> 0, channelID |-> 0, contentBearing |-> FALSE, data |-> NoData]

Init ==
    /\ entries = [i \in 0..RingSize-1 |-> ZeroEntry]
    /\ pos = 0
    /\ count = 0
    /\ seq \in Seeds
    /\ history = <<>>

\* Position of the i-th oldest entry (i counts from 0).
Slot(i) == (pos - count + RingSize + i) % RingSize

\* nextSeq followed by pushEntry, as deliverGated and sendSequencedToUsers run them.
pushEntry(ch, content, d) ==
    LET e == [seq |-> seq + 1, channelID |-> ch, contentBearing |-> content, data |-> d]
    IN  /\ Len(history) < MaxPush
        /\ seq' = seq + 1
        /\ entries' = [entries EXCEPT ![pos] = e]
        /\ pos' = (pos + 1) % RingSize
        /\ count' = IF count < RingSize THEN count + 1 ELSE count
        /\ history' = Append(history, e)

\* RemoveWhere over the live slots.
removeWhere(drop) ==
    /\ entries' = [j \in 0..RingSize-1 |->
                     IF \E i \in 0..count-1 : Slot(i) = j THEN Cleared(entries[j], drop)
                                                       ELSE entries[j]]
    /\ history' = RemoveWhere(history, drop)
    /\ UNCHANGED <<pos, count, seq>>

Next ==
    \/ \E ch \in Channels \cup {0}, content \in BOOLEAN, d \in Payloads : pushEntry(ch, content, d)
    \/ \E drop \in SUBSET Payloads : removeWhere(drop)

Spec == Init /\ [][Next]_ringVars

-----------------------------------------------------------------------------
(* The walk of eventsSince over the array itself.                            *)

oldest == entries[Slot(0)].seq
newest == entries[(pos - 1 + RingSize) % RingSize].seq

\* Mutant: the search stops at after itself.
FirstFrom(after) ==
    LET newer == {i \in 0..count-1 : entries[Slot(i)].seq >= after}
    IN  IF newer = {} THEN count ELSE CHOOSE i \in newer : \A j \in newer : i <= j

\* sort.Search: the first of the count live slots newer than after.
First(after) ==
    LET newer == {i \in 0..count-1 : entries[Slot(i)].seq > after}
    IN  IF newer = {} THEN count ELSE CHOOSE i \in newer : \A j \in newer : i <= j

\* Mutants: cleared slots are passed over; a caught-up client is declined.
eventsSinceSkips(after) == count # 0 /\ after > oldest /\ after <= newest
eventsSinceBehind(after) ==
    /\ count # 0 /\ after > oldest /\ after < newest
    /\ \A i \in First(after)..count-1 : entries[Slot(i)].data # NoData

\* eventsSince returns a slice rather than nil.
eventsSinceOK(after) ==
    /\ count # 0
    /\ after > oldest
    /\ after <= newest
    /\ \A i \in First(after)..count-1 : entries[Slot(i)].data # NoData

\* The slice it then returns.
eventsSince(after, allowed, readable) ==
    LET from == First(after)
        tail == [k \in 1..count-from |-> entries[Slot(from + k - 1)]]
    IN  Picked(tail, {k \in 1..count-from : Admits(tail[k], allowed, readable)})

-----------------------------------------------------------------------------
TypeOK ==
    /\ entries \in [0..RingSize-1 -> Entry]
    /\ pos \in 0..RingSize-1
    /\ count \in 0..RingSize
    /\ seq \in Nat
    /\ history \in Seq(Entry)

\* The entries a reader sees, oldest first.
Window == [i \in 1..count |-> entries[Slot(i - 1)]]

Min2(a, b) == IF a < b THEN a ELSE b

\* The live slots, read oldest first, are exactly the last frames pushed:
\* pushEntry's wrap-around and RemoveWhere's index arithmetic never lose,
\* repeat or reorder one.
WindowIsRecentHistory ==
    /\ count = Min2(Len(history), RingSize)
    /\ \A i \in 1..count : Window[i] = history[Len(history) - count + i]

\* Every seq inside the window is there: the ring's newest entry carries the
\* hub's counter and each older slot one less, which is what lets a reader
\* take after > oldest as proof that nothing was skipped.
WindowContiguous ==
    \A i \in 1..count : Window[i].seq = seq - count + i

\* A replay eventsSince serves is complete: it walks exactly the frames newer
\* than after, none of them cleared, judged against all frames ever pushed and
\* not against what the array still holds.
ReplayComplete ==
    \A after \in 0..seq+1 : eventsSinceOK(after) =>
        /\ \A k \in 1..Len(history) : history[k].seq > after =>
              /\ history[k].data # NoData
              /\ \E i \in First(after)..count-1 : entries[Slot(i)] = history[k]
        /\ \A i \in First(after)..count-1 :
              \E k \in 1..Len(history) : entries[Slot(i)] = history[k] /\ history[k].seq > after

\* The slice handed to the caller is the entitled part of that, in order.
ReplayExact ==
    \A after \in 0..seq+1, allowed \in SUBSET Channels : \A readable \in SUBSET allowed :
        eventsSinceOK(after) =>
            eventsSince(after, allowed, readable) = EventsSince(history, after, allowed, readable)

\* eventsSince declines only when it must: a client whose last_seq is inside
\* the window, past its oldest frame, and that lost no slot to RemoveWhere is
\* served, a caught-up client with an empty slice included.
ReplayServed ==
    \A after \in 0..seq+1 : Covers(Window, after) => eventsSinceOK(after)

\* What eventsSince answers is right both ways: the slice is exact, and it does
\* not decline when the window covers the client.
ReplayRight == ReplayExact /\ ReplayServed

\* The abstract window this ring implements.
Abstract == INSTANCE RingWindow WITH window <- Window
AbstractSpec == Abstract!Spec
=============================================================================
