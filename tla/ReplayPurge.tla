----------------------------- MODULE ReplayPurge -----------------------------
(***************************************************************************)
(* Taking an erased user's or a swept message's frames out of replay       *)
(* (Server/ws/hub_events.go, hub_tombstones.go, eventstore.go): the        *)
(* dispatch barrier, the purge lock, tombstones and ring under seqMu, the  *)
(* persister barrier and the row delete, retried from a journal, against   *)
(* producers that still hold old rows and resumes from ring and table.     *)
(* The barriers' own promises are shown in ContentGate and EventPersister. *)
(***************************************************************************)
EXTENDS RingOps, FiniteSets, Functions

CONSTANTS
    Subjects,     \* accounts to erase and messages a retention sweep removes
    Other,        \* what every other frame names
    Readers,      \* sessions that resume
    ColdCap,      \* maxColdReplay
    QCap,         \* capacity of h.broadcast
    MaxSeq,       \* bound: frames sequenced
    MaxAttempts   \* bound: attempts of a purge, the failing ones included

ASSUME SubjectsAssumption == Channels = {} /\ Payloads = Subjects \cup {Other} /\ Other \notin Subjects
ASSUME PurgeBounds == {ColdCap, QCap, MaxSeq, MaxAttempts} \subseteq Nat

VARIABLES
    users,        \* which subjects are accounts
    queue,        \* h.broadcast: frames by what they name, and barriers
    seq,          \* h.seq
    ring,         \* h.replayBuf
    purgeW,       \* h.replayPurgeSeq
    pend,         \* frames the event persister holds
    rows,         \* rows of the events table
    tomb,         \* tombstoned subjects and the seq they were last installed at
    batches,      \* tombstones.batches: installs, oldest first
    holder,       \* the purge that holds replayPurgeState.mu
    unfinished,   \* unfinishedUsers and unfinishedMessages
    purge,        \* each subject's purge: its place, and how many attempts it took
    mark,         \* h.seq when the purge's in-memory step ran
    spent,        \* subjects no producer holds rows of any more
    ban,          \* the erased user's member_ban: none, queued, sequenced or dropped
    reader,       \* each session's resume
    got           \* auxiliary: what the latest resume of the session was served

pipeline == <<queue, seq, ring, pend, rows>>
purging == <<users, purgeW, tomb, batches, holder, unfinished, purge, mark, spent, ban>>
reading == <<reader, got>>
vars == <<pipeline, purging, reading>>

NoOne == "none"
ASSUME NoOneAssumption == NoOne \notin Subjects

Frame(n, d) == [seq |-> n, channelID |-> 0, contentBearing |-> FALSE, data |-> d]
Idle == [pc |-> "idle", last |-> 0, src |-> "buffer", rows |-> {}, before |-> {}]
NotServed == [frames |-> <<>>, from |-> 0, upto |-> 0, purged |-> {}, before |-> {}]

Init ==
    /\ queue = <<>> /\ seq = 0 /\ ring = <<>> /\ purgeW = 0 /\ pend = <<>> /\ rows = {}
    /\ users \in SUBSET Subjects /\ tomb = <<>> /\ batches = <<>> /\ holder = NoOne /\ unfinished = {}
    /\ purge = [s \in Subjects |-> [pc |-> "idle", n |-> 0]]
    /\ mark = [s \in Subjects |-> 0] /\ spent = {} /\ ban = [s \in Subjects |-> "none"]
    /\ reader = [r \in Readers |-> Idle] /\ got = [r \in Readers |-> NotServed]

-----------------------------------------------------------------------------
(* Producers, the dispatch goroutine and the persister.                      *)

Named(d) == [type |-> "frame", of |-> d, n |-> 0]
Ban(s) == [type |-> "ban", of |-> s, n |-> 0]
Barrier(s, n) == [type |-> "barrier", of |-> s, n |-> n]

\* The bound MaxSeq leaves room for one more frame.
Room == seq + Cardinality({i \in 1..Len(queue) : queue[i].type # "barrier"}) < MaxSeq

\* A producer queues a frame; one that names a subject may have read its rows
\* before they were deleted.
produce(d) ==
    /\ Len(queue) < QCap /\ Room /\ d \in Payloads \ spent
    /\ queue' = Append(queue, Named(d))
    /\ UNCHANGED <<seq, ring, pend, rows, purging, reading>>

\* The last producer that held such rows is done.
producersDone(s) ==
    /\ s \in Subjects \ spent /\ purge[s].pc # "idle"
    /\ spent' = spent \cup {s}
    /\ UNCHANGED <<pipeline, users, purgeW, tomb, batches, holder, unfinished, purge, mark, ban, reading>>

\* A frame that names a tombstoned subject gets no seq.
dropsForTombstones(d) == d \in DOMAIN tomb

\* nextSeq, pushEntry and persistEvent in one seqMu section.
sequence(d) ==
    IF dropsForTombstones(d) THEN UNCHANGED <<seq, ring, pend>>
    ELSE /\ seq' = seq + 1
         /\ ring' = PushEntry(ring, Frame(seq + 1, d))
         /\ pend' = Append(pend, Frame(seq + 1, d))

\* sendSequencedToUsers: past the queue.
sendSequencedToUsers(d) ==
    /\ Room /\ d \in Payloads \ spent
    /\ sequence(d)
    /\ UNCHANGED <<queue, rows, purging, reading>>

\* dispatch: a barrier answers the attempt that sent it, if it still waits.
dispatch ==
    LET e == Head(queue) IN
    /\ queue # <<>>
    /\ queue' = Tail(queue)
    /\ IF e.type = "barrier"
       THEN /\ purge' = IF purge[e.of] = [pc |-> "await", n |-> e.n]
                        THEN [purge EXCEPT ![e.of].pc = "lock"] ELSE purge
            /\ UNCHANGED <<seq, ring, pend, ban>>
       ELSE /\ sequence(e.of)
            /\ ban' = IF e.type # "ban" THEN ban
                      ELSE [ban EXCEPT ![e.of] = IF dropsForTombstones(e.of) THEN "dropped" ELSE "sequenced"]
            /\ UNCHANGED purge
    /\ UNCHANGED <<rows, users, purgeW, tomb, batches, holder, unfinished, mark, spent, reading>>

\* The persister writes its oldest frame, or loses it.
persist(lost) ==
    /\ pend # <<>>
    /\ pend' = Tail(pend)
    /\ rows' = IF lost THEN rows ELSE rows \cup {Head(pend)}
    /\ UNCHANGED <<queue, seq, ring, purging, reading>>

-----------------------------------------------------------------------------
(* The purge.                                                                *)

Go(s, pc) == purge' = [purge EXCEPT ![s].pc = pc]

\* finishErasure: the member_ban goes out before the purge is first tried.
BroadcastMemberBan(s) ==
    /\ purge[s].pc = "idle" /\ s \in users /\ Len(queue) < QCap /\ Room
    /\ queue' = Append(queue, Ban(s))
    /\ ban' = [ban EXCEPT ![s] = "queued"]
    /\ Go(s, "begun")
    /\ UNCHANGED <<seq, ring, pend, rows, users, purgeW, tomb, batches, holder, unfinished, mark, spent, reading>>

\* Mutant: the purge does not wait for the dispatch goroutine.
awaitDispatchNot(s) ==
    /\ purge[s].pc = (IF s \in users THEN "begun" ELSE "idle") \/ purge[s].pc = "failed"
    /\ purge[s].n < MaxAttempts
    /\ purge' = [purge EXCEPT ![s] = [pc |-> "lock", n |-> @.n + 1]]
    /\ UNCHANGED <<pipeline, users, purgeW, tomb, batches, holder, unfinished, mark, spent, ban, reading>>

\* The first attempt, or a retry from the journal, sends its barrier.
awaitDispatch(s) ==
    /\ purge[s].pc = (IF s \in users THEN "begun" ELSE "idle") \/ purge[s].pc = "failed"
    /\ purge[s].n < MaxAttempts /\ Len(queue) < QCap
    /\ purge' = [purge EXCEPT ![s] = [pc |-> "await", n |-> @.n + 1]]
    /\ queue' = Append(queue, Barrier(s, purge[s].n + 1))
    /\ UNCHANGED <<seq, ring, pend, rows, users, purgeW, tomb, batches, holder, unfinished, mark, spent, ban, reading>>

\* The context ends while the purge waits for its barrier or for the lock; the
\* last attempt is let through.
giveUp(s) ==
    /\ purge[s].pc \in {"await", "lock"} /\ purge[s].n < MaxAttempts
    /\ Go(s, "failed")
    /\ UNCHANGED <<pipeline, users, purgeW, tomb, batches, holder, unfinished, mark, spent, ban, reading>>

\* replayPurgeState.lock: TryLock succeeds.
lock(s) ==
    /\ purge[s].pc = "lock" /\ holder = NoOne
    /\ holder' = s
    /\ Go(s, "locked")
    /\ UNCHANGED <<pipeline, users, purgeW, tomb, batches, unfinished, mark, spent, ban, reading>>

\* Mutant: the watermark of an erasure is not moved.
BumpedPurgeSame(s) == purgeW

\* bumpReplayPurgeWatermark, for an erased user only.
BumpedPurge(s) == IF s \in users THEN seq ELSE purgeW

\* Under seqMu: tombstone, watermark, ring.
installAndDrop(s) ==
    /\ purge[s].pc = "locked"
    /\ tomb' = [t \in DOMAIN tomb \cup {s} |-> IF t = s THEN seq ELSE tomb[t]]
    /\ batches' = Append(batches, [seq |-> seq, of |-> s])
    /\ purgeW' = BumpedPurge(s)
    /\ ring' = RemoveWhere(ring, {s})
    /\ mark' = [mark EXCEPT ![s] = seq]
    /\ Go(s, "flush")
    /\ UNCHANGED <<queue, seq, pend, rows, users, holder, unfinished, spent, ban, reading>>

\* Mutant: the rows are deleted without the persister's barrier.
flushReturnsAtOnce(s) ==
    /\ purge[s].pc = "flush"
    /\ Go(s, "delete")
    /\ UNCHANGED <<pipeline, users, purgeW, tomb, batches, holder, unfinished, mark, spent, ban, reading>>

\* p.Flush: every frame sequenced before the tombstone has left the persister.
flushReturns(s) ==
    /\ purge[s].pc = "flush" /\ \A i \in 1..Len(pend) : pend[i].seq > mark[s]
    /\ Go(s, "delete")
    /\ UNCHANGED <<pipeline, users, purgeW, tomb, batches, holder, unfinished, mark, spent, ban, reading>>

\* Flush or the delete fails: settlePurge keeps cold reads off.
purgeFails(s) ==
    /\ purge[s].pc \in {"flush", "delete"} /\ purge[s].n < MaxAttempts
    /\ unfinished' = unfinished \cup {s} /\ holder' = NoOne
    /\ Go(s, "failed")
    /\ UNCHANGED <<pipeline, users, purgeW, tomb, batches, mark, spent, ban, reading>>

\* Mutant: success leaves the ids of an earlier failure unfinished.
deleteRowsUnsettled(s) ==
    /\ purge[s].pc = "delete"
    /\ rows' = {f \in rows : f.data # s}
    /\ holder' = NoOne
    /\ Go(s, "done")
    /\ UNCHANGED <<queue, seq, ring, pend, users, purgeW, tomb, batches, unfinished, mark, spent, ban, reading>>

\* DeleteEventsForUser, DeleteEventsForMessages; settlePurge; unlock.
deleteRows(s) ==
    /\ purge[s].pc = "delete"
    /\ rows' = {f \in rows : f.data # s}
    /\ unfinished' = unfinished \ {s} /\ holder' = NoOne
    /\ Go(s, "done")
    /\ UNCHANGED <<queue, seq, ring, pend, users, purgeW, tomb, batches, mark, spent, ban, reading>>

\* A batch's hour is far past any request: when it is over no frame of the
\* subject is still on its way.
Aged(b) == b.of \in spent /\ \A i \in 1..Len(queue) : queue[i].of # b.of

\* The longest run of batches at the front that are old enough.
Expired == {i \in 1..Len(batches) : \A j \in 1..i :
               Aged(batches[j]) /\ seq - batches[j].seq > RingSize + ColdCap}

\* Mutant: a batch takes its subject with it, whoever installed it since.
TakesAny(b, s) == b.of = s

\* A batch takes its subject when the map still carries the batch's seq.
Takes(b, s) == b.of = s /\ tomb[s] = b.seq

\* Mutant: the batches go and the tombstones stay.
expireBatches ==
    /\ Expired # {}
    /\ batches' = SubSeq(batches, Cardinality(Expired) + 1, Len(batches))
    /\ UNCHANGED <<pipeline, users, purgeW, tomb, holder, unfinished, purge, mark, spent, ban, reading>>

\* expireReplayTombstones, on the stale tick.
expire ==
    /\ Expired # {}
    /\ tomb' = [s \in {t \in DOMAIN tomb : \A i \in Expired : ~Takes(batches[i], t)} |-> tomb[s]]
    /\ batches' = SubSeq(batches, Cardinality(Expired) + 1, Len(batches))
    /\ UNCHANGED <<pipeline, users, purgeW, holder, unfinished, purge, mark, spent, ban, reading>>

-----------------------------------------------------------------------------
(* Resumes: the steps of handleReconnect that read ring and table.           *)

mustFullResync(last) == purgeW > 0 /\ last < purgeW

\* Mutant: only the lock is looked at.
tryColdReadLockOnly == holder = NoOne

\* tryColdRead: no purge runs, waits or is unfinished.
tryColdRead == holder = NoOne /\ unfinished = {} /\ \A s \in Subjects : purge[s].pc # "lock"

\* One step of the handshake: go on as next says, or take the full ready.
Step(r, ok, next) ==
    /\ reader' = [reader EXCEPT ![r] = IF ok THEN next ELSE Idle]
    /\ UNCHANGED <<pipeline, purging, got>>

\* Subjects whose purge has run its in-memory step.
Purged == DOMAIN tomb \cup {s \in Subjects : purge[s].pc = "done"}

reconnectPrecheck(r, last) ==
    /\ reader[r].pc = "idle" /\ last \in 1..seq
    /\ Step(r, ~mustFullResync(last), [Idle EXCEPT !.pc = "select", !.last = last, !.before = Purged])

selectRing(r) ==
    LET hit == Covers(ring, reader[r].last) IN
    /\ reader[r].pc = "select"
    /\ Step(r, TRUE, [reader[r] EXCEPT !.pc = IF hit THEN "register" ELSE "cold",
                                       !.src = IF hit THEN "buffer" ELSE "db"])

coldQuery(r) ==
    LET all == {f \in rows : f.seq > reader[r].last}
    IN  /\ reader[r].pc = "cold"
        /\ Step(r, tryColdRead /\ all # {} /\ Cardinality(all) < ColdCap,
                [reader[r] EXCEPT !.pc = "oldest", !.rows = all])

coldOldest(r) ==
    /\ reader[r].pc = "oldest"
    /\ Step(r, tryColdRead /\ \E f \in rows : f.seq <= reader[r].last + 1,
            [reader[r] EXCEPT !.pc = "count"])

\* The highest seq among the rows the resume read.
Upto(r) == (CHOOSE f \in reader[r].rows : \A g \in reader[r].rows : g.seq <= f.seq).seq

\* Mutant: the rows are not checked for holes.
NoHoleUnchecked(r) == TRUE

\* CountEventsInRange finds every seq up to the last row.
NoHole(r) ==
    Cardinality({f \in rows : f.seq > reader[r].last /\ f.seq <= Upto(r)}) = Upto(r) - reader[r].last

TailCovered(r) == Covers(ring, Upto(r)) \/ seq = Upto(r)

\* reconnectVetColdTail: the count, then the ring's tail.
coldCount(r) ==
    /\ reader[r].pc = "count"
    /\ Step(r, tryColdRead /\ NoHole(r), [reader[r] EXCEPT !.pc = "tail"])

coldTail(r) ==
    /\ reader[r].pc = "tail"
    /\ Step(r, TailCovered(r), [reader[r] EXCEPT !.pc = "register"])

\* The rows of a query, ORDER BY seq.
BySeq(fs) == [i \in 1..Cardinality(fs) |-> CHOOSE f \in fs : Cardinality({g \in fs : g.seq <= f.seq}) = i]

\* eventsSince: the slots from the first newer one on; every frame here is global,
\* so the filter admits it.
RingTail(n) ==
    LET newer == {i \in 1..Len(ring) : ring[i].seq > n}
    IN  IF Covers(ring, n) /\ newer # {}
        THEN SubSeq(ring, CHOOSE i \in newer : \A j \in newer : i <= j, Len(ring)) ELSE <<>>

\* reconnectRegister: re-read the ring and re-check the watermark under seqMu.
reconnectRegister(r) ==
    LET c  == reader[r]
        ok == ~mustFullResync(c.last) /\ IF c.src = "buffer" THEN Covers(ring, c.last) ELSE TailCovered(r)
    IN  /\ c.pc = "register"
        /\ reader' = [reader EXCEPT ![r] = Idle]
        /\ got' = IF ~ok THEN [got EXCEPT ![r] = NotServed]
                  ELSE [got EXCEPT ![r] =
                         [frames |-> IF c.src = "buffer" THEN RingTail(c.last) ELSE BySeq(c.rows) \o RingTail(Upto(r)),
                          from |-> c.last, upto |-> seq,
                          purged |-> Purged, before |-> c.before]]
        /\ UNCHANGED <<pipeline, purging>>

-----------------------------------------------------------------------------
Purge(s) ==
    \/ BroadcastMemberBan(s) \/ awaitDispatch(s) \/ lock(s) \/ installAndDrop(s)
    \/ flushReturns(s) \/ deleteRows(s)

Resume(r) ==
    \/ selectRing(r) \/ coldQuery(r) \/ coldOldest(r) \/ coldCount(r) \/ coldTail(r) \/ reconnectRegister(r)

Next ==
    \/ \E d \in Payloads : produce(d) \/ sendSequencedToUsers(d)
    \/ dispatch
    \/ \E lost \in BOOLEAN : persist(lost)
    \/ \E s \in Subjects : Purge(s) \/ giveUp(s) \/ purgeFails(s) \/ producersDone(s)
    \/ expire
    \/ \E r \in Readers : Resume(r) \/ \E last \in 1..MaxSeq : reconnectPrecheck(r, last)

Spec == Init /\ [][Next]_vars

\* The goroutines run and the journal retries; attempts fail only a bounded
\* number of times. A blocked channel send gets its turn among the producers, and
\* a purge that polls for the lock gets it between two others: strong fairness.
FairSpec ==
    /\ Spec /\ WF_vars(dispatch) /\ WF_vars(\E lost \in BOOLEAN : persist(lost))
    /\ \A s \in Subjects : SF_vars(Purge(s))

-----------------------------------------------------------------------------
Data(w) == {w[i].data : i \in 1..Len(w)}

TypeOK ==
    /\ Len(queue) <= QCap /\ seq \in 0..MaxSeq /\ purgeW \in 0..seq
    /\ Len(ring) <= RingSize /\ Range(ring) \cup Range(pend) \cup rows \subseteq Entry
    /\ holder \in Subjects \cup {NoOne} /\ unfinished \subseteq Subjects /\ DOMAIN tomb \subseteq Subjects
    /\ \A s \in Subjects : (purge[s].pc \in {"locked", "flush", "delete"}) <=> (holder = s)
    /\ \A s \in Subjects : purge[s].n \in 0..MaxAttempts /\ mark[s] \in 0..seq

\* Once a purge has returned without an error, no frame that names its subject
\* is in the ring, on its way to the table or in the table, now or later, late
\* producers and a lagging persister included.
ErasedForGood ==
    \A s \in Subjects : purge[s].pc = "done" => s \notin Data(ring) \cup Data(pend) \cup {f.data : f \in rows}

\* Every tombstone has a batch that will take it: no purge, however often it is
\* retried, leaves one behind for the life of the process.
NoneForgotten == \A s \in DOMAIN tomb : \E i \in 1..Len(batches) : Takes(batches[i], s)

\* expire removes a tombstone only when more frames were sequenced since the
\* latest attempt that installed it than ring and cold tier can replay.
OutlivesReplay ==
    [][\A s \in DOMAIN tomb \ DOMAIN tomb' : seq - mark[s] > RingSize + ColdCap]_vars

\* A tombstone stays as long as a replay can need it and has a batch that takes
\* it afterwards (installTombstones and expire, a retried purge included).
TombstonesKept == []NoneForgotten /\ OutlivesReplay

\* The member_ban of an erasure is always sequenced: the purge's own tombstone
\* never catches it, however often the purge is retried.
BanSequenced == \A s \in Subjects : ban[s] # "dropped"

\* A resume that registers after an erasure's in-memory step is served no frame
\* naming the erased user, though its rows may have been read before.
ServedClean ==
    \A r \in Readers : \A s \in got[r].purged : s \in users => s \notin Data(got[r].frames)

\* A resume that begins after any purge's in-memory step, an erasure's or a
\* sweep's, finished or failed, is served no frame naming its subject.
ServedCleanAfter ==
    \A r \in Readers : \A s \in got[r].before : s \notin Data(got[r].frames)

\* No resume brings purged content back: not one under way when an erasure's
\* watermark moved, nor one begun after any purge.
ServedCleanly == ServedClean /\ ServedCleanAfter

\* What the comment on PurgeMessagesFromReplay says of any resume across the
\* holes, the one under way included: it falls through to the full ready.
ServedCleanOfSwept ==
    \A r \in Readers : \A s \in got[r].purged : s \notin Data(got[r].frames)

\* A resume that is served at all gets every frame after its last_seq: cleared
\* slots and deleted rows never turn into a replay with a hole.
ServedComplete ==
    \A r \in Readers :
        /\ Len(got[r].frames) = got[r].upto - got[r].from
        /\ \A i \in 1..Len(got[r].frames) : got[r].frames[i].seq = got[r].from + i

\* A purge that was begun is finished, with cold reads possible again.
PurgeFinishes ==
    \A s \in Subjects : purge[s].pc \notin {"idle", "done"} ~> purge[s].pc = "done" /\ s \notin unfinished
=============================================================================
