----------------------------- MODULE ContentGate -----------------------------
(***************************************************************************)
(* The dispatch goroutine's content gates (Server/ws/hub_content_gate.go): *)
(* a content frame parks in its channel's lane while a resolver goroutine  *)
(* reads who may receive it, later frames of the channel queue behind it,  *)
(* other frames go out at once, and a dispatch barrier waits for every     *)
(* frame parked ahead of it.                                               *)
(***************************************************************************)
EXTENDS Integers, Sequences, FiniteSets, Functions

CONSTANTS
    Chans,        \* channel ids; 0 is the global scope
    QCap,         \* cap(h.broadcast), which also bounds the parked frames
    MaxMsgs,      \* bound: entries put on h.broadcast
    MaxPolicy,    \* bound: changes of labels or acknowledgements
    MaxPanic      \* bound: deliveries that panic and restart the loop

ASSUME ChansAssumption == 0 \notin Chans
ASSUME GateBounds == QCap \in Nat \ {0} /\ {MaxMsgs, MaxPolicy, MaxPanic} \subseteq Nat

VARIABLES
    sent,         \* every entry put on h.broadcast; its id is its index
    queue,        \* h.broadcast: ids
    lanes,        \* g.lanes: parked entries per channel; an empty lane is no lane
    parked,       \* g.parked
    reads,        \* per channel, the gate read in flight
    ticket,       \* g.ticket
    barriers,     \* g.barriers
    closed,       \* barriers whose channel was closed
    policy,       \* the labels and acknowledgements in the database, as a version
    stopped,      \* Run has exited
    panics,       \* deliveries that panicked so far
    gone,         \* auxiliary: frames in the order they left deliverGated, with their gate
    asOf          \* auxiliary: per content frame, the policy when it was dequeued

vars == <<sent, queue, lanes, parked, reads, ticket, barriers, closed, policy, stopped, panics, gone, asOf>>

\* A read covers tickets up to through; epoch 0 means it has not read yet.
NoRead == [through |-> 0, epoch |-> 0]
Issued(t) == [through |-> t, epoch |-> 0]

Init ==
    /\ sent = <<>> /\ queue = <<>>
    /\ lanes = [c \in Chans |-> <<>>] /\ parked = 0 /\ reads = [c \in Chans |-> NoRead]
    /\ ticket = 0 /\ barriers = {} /\ closed = {}
    /\ policy = 1 /\ stopped = FALSE /\ panics = 0 /\ gone = <<>> /\ asOf = <<>>

-----------------------------------------------------------------------------
\* A producer or awaitDispatch puts an entry on the queue: content or another
\* frame of channel c (a global one that is kept in c's order, such as
\* channel_delete, included), a global frame, or a barrier.
enqueue(kind, c) ==
    /\ ~stopped /\ Len(sent) < MaxMsgs /\ Len(queue) < QCap
    /\ (kind \in {"content", "scoped"}) <=> (c # 0)
    /\ sent' = Append(sent, [kind |-> kind, ch |-> c])
    /\ queue' = Append(queue, Len(sent) + 1)
    /\ UNCHANGED <<lanes, parked, reads, ticket, barriers, closed, policy, stopped, panics, gone, asOf>>

\* A label or an acknowledgement changes in the database.
relabel ==
    /\ ~stopped /\ policy < MaxPolicy + 1
    /\ policy' = policy + 1
    /\ UNCHANGED <<sent, queue, lanes, parked, reads, ticket, barriers, closed, stopped, panics, gone, asOf>>

\* A delivery may panic before or after its frame went out; the loop restarts.
Panics(failed) == failed => panics < MaxPanic
CountPanic(failed) == panics' = IF failed THEN panics + 1 ELSE panics

\* park: a ticket, the end of the lane and, for content, a read unless one is
\* in flight.
park(id, c, content) ==
    /\ ticket' = ticket + 1 /\ parked' = parked + 1
    /\ lanes' = [lanes EXCEPT ![c] = Append(@, [id |-> id, ticket |-> ticket + 1,
                                               content |-> content, gate |-> 0])]
    /\ reads' = IF content /\ reads[c] = NoRead THEN [reads EXCEPT ![c] = Issued(ticket + 1)] ELSE reads
    /\ UNCHANGED <<barriers, closed, panics, gone>>

\* Mutant: a frame of a channel with a lane is delivered at once.
QueuesBehindNever(c) == FALSE

\* A frame that is not content waits behind its channel's lane, if there is one.
QueuesBehind(c) == c # 0 /\ lanes[c] # <<>>

\* broadcastIn: the queue is read while fewer frames are parked than it holds.
broadcastIn == parked < QCap

\* dispatch, for the queue's head.
dispatch(failed) ==
    LET id == Head(queue)
        e  == sent[id]
    IN  /\ ~stopped /\ queue # <<>> /\ broadcastIn
        /\ queue' = Tail(queue)
        /\ asOf' = IF e.kind # "content" THEN asOf
                   ELSE [i \in DOMAIN asOf \cup {id} |-> IF i = id THEN policy ELSE asOf[i]]
        /\ UNCHANGED <<sent, policy, stopped>>
        /\ \/ /\ e.kind = "barrier" /\ ~failed
              /\ IF parked = 0
                 THEN closed' = closed \cup {id} /\ UNCHANGED <<ticket, barriers>>
                 ELSE /\ ticket' = ticket + 1
                      /\ barriers' = barriers \cup {[id |-> id, ticket |-> ticket + 1]}
                      /\ UNCHANGED closed
              /\ UNCHANGED <<lanes, parked, reads, panics, gone>>
           \/ e.kind = "content" /\ ~failed /\ park(id, e.ch, TRUE)
           \/ e.kind \in {"scoped", "global"} /\ QueuesBehind(e.ch) /\ ~failed /\ park(id, e.ch, FALSE)
           \/ /\ e.kind \in {"scoped", "global"} /\ ~QueuesBehind(e.ch)
              /\ Panics(failed) /\ CountPanic(failed)
              /\ gone' \in {Append(gone, [id |-> id, gate |-> 0])} \cup (IF failed THEN {gone} ELSE {})
              /\ UNCHANGED <<lanes, parked, reads, ticket, barriers, closed>>

\* resolveGateOnce, on its own goroutine: the answer, or the deny-all that a
\* failed or timed out read stands for, is of this moment.
resolveGateOnce(c) ==
    /\ ~stopped /\ reads[c] # NoRead /\ reads[c].epoch = 0
    /\ reads' = [reads EXCEPT ![c].epoch = policy]
    /\ UNCHANGED <<sent, queue, lanes, parked, ticket, barriers, closed, policy, stopped, panics, gone, asOf>>

-----------------------------------------------------------------------------
\* Mutant: the answer is given to every content entry of the lane.
AppliesAlways(e, r) == e.content /\ e.gate = 0

\* Mutant: the latest ticket is taken as not yet covered.
AppliesBefore(e, r) == e.content /\ e.gate = 0 /\ e.ticket < r.through

\* The entries an answer is for.
Applies(e, r) == e.content /\ e.gate = 0 /\ e.ticket <= r.through

\* The lane with the answer applied, and how many of its entries can leave.
Answered(c) ==
    [i \in DOMAIN lanes[c] |->
        IF Applies(lanes[c][i], reads[c]) THEN [lanes[c][i] EXCEPT !.gate = reads[c].epoch] ELSE lanes[c][i]]

First(S) == CHOOSE i \in S : \A j \in S : i <= j

Ready(lane) ==
    LET waiting == {i \in DOMAIN lane : lane[i].content /\ lane[i].gate = 0}
    IN  IF waiting = {} THEN Len(lane) ELSE First(waiting) - 1

\* What is left in the lane gets a fresh read, covering every ticket so far.
NextRead(rest) == IF rest = <<>> THEN NoRead ELSE Issued(ticket)

\* Mutant: only the lane just drained is looked at.
ReleasableHere(b, ls, c) == ls[c] = <<>> \/ b.ticket < ls[c][1].ticket

\* releaseBarriers: no lane's head has an older ticket.
Releasable(b, ls, c) == \A d \in Chans : ls[d] = <<>> \/ b.ticket < ls[d][1].ticket

\* onGateResolved: apply the answer, deliver what it unblocked up to a panic,
\* re-read or remove the lane, release barriers.
onGateResolved(c, failed) ==
    LET lane == Answered(c)
        n    == Ready(lane)
    IN  /\ ~stopped /\ reads[c].epoch > 0
        /\ Panics(failed) /\ CountPanic(failed)
        /\ \E k \in IF failed THEN 1..n ELSE {n} : \E m \in IF failed THEN {k - 1, k} ELSE {k} :
              LET rest == SubSeq(lane, k + 1, Len(lane))
                  out  == SubSeq(lane, 1, m)
                  free == {b \in barriers : Releasable(b, lanes', c)}
              IN  /\ lanes' = [lanes EXCEPT ![c] = rest] /\ parked' = parked - k
                  /\ reads' = [reads EXCEPT ![c] = NextRead(rest)]
                  /\ gone' = gone \o [i \in DOMAIN out |-> [id |-> out[i].id, gate |-> out[i].gate]]
                  /\ barriers' = barriers \ free
                  /\ closed' = closed \cup {b.id : b \in free}
        /\ UNCHANGED <<sent, queue, ticket, policy, stopped, asOf>>

\* Mutant: barriers still parked are forgotten.
closeParkedBarriersNone ==
    /\ ~stopped
    /\ stopped' = TRUE
    /\ barriers' = {}
    /\ UNCHANGED <<sent, queue, lanes, parked, reads, ticket, closed, policy, panics, gone, asOf>>

\* Run exits and closes the parked barriers: nothing drains the lanes any more.
closeParkedBarriers ==
    /\ ~stopped
    /\ stopped' = TRUE
    /\ closed' = closed \cup {b.id : b \in barriers} /\ barriers' = {}
    /\ UNCHANGED <<sent, queue, lanes, parked, reads, ticket, policy, panics, gone, asOf>>

Next ==
    \/ \E kind \in {"content", "scoped", "global", "barrier"}, c \in Chans \cup {0} : enqueue(kind, c)
    \/ relabel
    \/ \E failed \in BOOLEAN : dispatch(failed)
    \/ \E c \in Chans : resolveGateOnce(c) \/ \E failed \in BOOLEAN : onGateResolved(c, failed)
    \/ closeParkedBarriers

Spec == Init /\ [][Next]_vars

\* Run's select serves every ready case, and a read ends within its timeout.
FairSpec ==
    /\ Spec
    /\ WF_vars(\E failed \in BOOLEAN : dispatch(failed))
    /\ \A c \in Chans : /\ WF_vars(resolveGateOnce(c))
                        /\ WF_vars(\E failed \in BOOLEAN : onGateResolved(c, failed))

-----------------------------------------------------------------------------
InLanes == UNION {{lanes[c][i].id : i \in DOMAIN lanes[c]} : c \in Chans}

TypeOK ==
    /\ Len(queue) <= QCap /\ parked <= QCap /\ parked = Cardinality(InLanes)
    /\ Range(queue) \cup InLanes \cup closed \cup {b.id : b \in barriers} \subseteq 1..Len(sent)
    /\ \A b \in barriers : b.ticket \in 1..ticket
    /\ \A c \in Chans : reads[c].through \in 0..ticket /\ reads[c].epoch \in 0..policy
    /\ policy \in 1..MaxPolicy + 1 /\ panics \in 0..MaxPanic

\* Order within a channel is kept: frames of one channel, and global frames
\* among themselves, leave in the order they were queued, whatever their kind
\* and however the reads of several lanes finish.
ChannelOrder ==
    \A i, j \in 1..Len(gone) :
        i < j /\ sent[gone[i].id].ch = sent[gone[j].id].ch => gone[i].id < gone[j].id

\* awaitDispatch: while Run is running, a closed barrier has no earlier entry
\* queued or parked, in any lane, so what a purge finds in the ring is all there is.
BarrierCovers ==
    ~stopped => \A id \in closed : \A other \in Range(queue) \cup InLanes : id < other

\* A frame's gate is read after the frame was dequeued, so a revocation or a
\* relabelling completed while it waited in the queue is honoured, even when a
\* backlog shares one read.
GateNotStale ==
    \A i \in 1..Len(gone) :
        sent[gone[i].id].kind = "content" => gone[i].gate >= asOf[gone[i].id]

\* Every entry gets through: it leaves the queue and the lanes, or Run exits.
EntriesLeave ==
    \A id \in 1..MaxMsgs :
        (id \in Range(queue) \cup InLanes) ~> (id \notin Range(queue) \cup InLanes \/ stopped)

\* A parked barrier is closed, Run's exit included: awaitDispatch does not wait
\* out its context on a lane nobody drains.
BarrierReleased ==
    \A id \in 1..MaxMsgs : (\E b \in barriers : b.id = id) ~> (id \in closed)

\* Nothing is stuck behind a lane, though a delivery panics in the middle of its
\* drain or Run ends: every entry leaves and every barrier is closed.
NothingStuck == EntriesLeave /\ BarrierReleased
=============================================================================
