------------------------------- MODULE RingOps -------------------------------
(***************************************************************************)
(* The replay window that EventRingBuffer (Server/ws/ringbuffer.go) offers *)
(* to its callers, as operators on a sequence of entries, oldest first.    *)
(* EventRing shows that the circular array behaves like this sequence;     *)
(* HubReplay uses these operators for the hub's replayBuf.                 *)
(***************************************************************************)
EXTENDS Integers, Sequences

CONSTANTS
    RingSize,     \* capacity given to NewEventRingBuffer
    Channels,     \* channel ids; 0 is the global scope and not one of them
    Payloads,     \* what a frame's bytes stand for
    NoData        \* the nil data of a slot RemoveWhere cleared

ASSUME RingSizeAssumption == RingSize \in Nat \ {0}
ASSUME ChannelsAssumption == 0 \notin Channels
ASSUME NoDataAssumption == NoData \notin Payloads

\* eventEntry: one buffered broadcast.
Entry == [seq : Nat, channelID : Channels \cup {0}, contentBearing : BOOLEAN,
          data : Payloads \cup {NoData}]

\* Mutant: one slot stays unused.
PushEntryShort(w, e) == Append(IF Len(w) + 1 < RingSize THEN w ELSE Tail(w), e)

\* pushEntry: the oldest entry makes room once the ring is full.
PushEntry(w, e) == Append(IF Len(w) < RingSize THEN w ELSE Tail(w), e)

\* RemoveWhere: matching slots lose their data and keep their seq.
Cleared(e, drop) ==
    [seq |-> e.seq, channelID |-> e.channelID, contentBearing |-> e.contentBearing,
     data |-> IF e.data \in drop THEN NoData ELSE e.data]

RemoveWhere(w, drop) == [i \in 1..Len(w) |-> Cleared(w[i], drop)]

OldestSeq(w) == IF w = <<>> THEN 0 ELSE w[1].seq
NewestSeq(w) == IF w = <<>> THEN 0 ELSE w[Len(w)].seq

\* eventsSince admits a frame: global, or of an allowed channel and, when it
\* carries content, of a readable one.
Admits(e, allowed, readable) ==
    \/ e.channelID = 0
    \/ e.channelID \in allowed /\ (e.contentBearing => e.channelID \in readable)

\* eventsSince returns a slice rather than nil: after lies inside the window,
\* above its oldest entry, and no newer slot was cleared.
Covers(w, after) ==
    /\ w # <<>>
    /\ after > OldestSeq(w)
    /\ after <= NewestSeq(w)
    /\ \A i \in 1..Len(w) : w[i].seq > after => w[i].data # NoData

\* The loop that appends to its result the entries at the positions K, in order.
Picked(w, K) ==
    LET f[i \in 0..Len(w)] == IF i = 0 THEN <<>>
                              ELSE IF i \in K THEN Append(f[i - 1], w[i]) ELSE f[i - 1]
    IN  f[Len(w)]

\* The slice eventsSince returns when Covers holds.
EventsSince(w, after, allowed, readable) ==
    Picked(w, {i \in 1..Len(w) : w[i].seq > after /\ Admits(w[i], allowed, readable)})
=============================================================================
