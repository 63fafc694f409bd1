--------------------------- MODULE EventPersister ----------------------------
(***************************************************************************)
(* EventPersister (Server/ws/event_persister.go): Enqueue under the hub's  *)
(* seqMu, the run goroutine that batches and writes, the Flush barrier     *)
(* account erasure waits on, and Stop, which must not return while a write *)
(* is in flight.  Frames are numbered in the order they are enqueued.      *)
(***************************************************************************)
EXTENDS Integers, Sequences, Functions

CONSTANTS
    Flushers,     \* callers of Flush, each calling it once
    QueueSize,    \* capacity of p.queue
    BatchSize,    \* p.batchSize
    MaxEvents     \* bound: frames enqueued

\* A caller is not one of run's own places.
ASSUME FlushersAssumption == Flushers \cap {"loop", "drain", "exit"} = {}
ASSUME SizesAssumption == {QueueSize, BatchSize} \subseteq Nat \ {0} /\ MaxEvents \in Nat

VARIABLES
    queue,        \* p.queue
    sending,      \* the Enqueue that found p.done open and has yet to send; 0 when none
    offered,      \* frames Enqueue was called with so far
    dropped,      \* frames counted in p.dropped
    batch,        \* run's batch; while its rows go in one by one, those still to come
    run,          \* run's place: loop, drain, flush (a transaction), rows (one by one),
                  \* exit (p.done closed)
    after,        \* where run goes after the flush: loop, drain, exit, or a Flush caller
    table,        \* rows of the events table, in insertion order
    failed,       \* frames counted in p.errors
    flushing,     \* each Flush call: idle, asking, waiting, returned, gave_up
    before,       \* frames enqueued when that call was made
    stopping,     \* the Stop call: idle, waiting, sweeping, returned
    expired,      \* Stop's context is done
    queuedAtStop  \* auxiliary: frames queued or in the batch when Stop was called

producer == <<sending, offered>>
loop == <<batch, run, after, table, failed>>
callers == <<flushing, before, stopping, expired, queuedAtStop>>
vars == <<queue, producer, dropped, loop, callers>>

Init ==
    /\ queue = <<>> /\ sending = 0 /\ offered = 0 /\ dropped = {}
    /\ batch = <<>> /\ run = "loop" /\ after = "loop" /\ table = <<>> /\ failed = {}
    /\ flushing = [f \in Flushers |-> "idle"] /\ before = [f \in Flushers |-> {}]
    /\ stopping = "idle" /\ expired = FALSE /\ queuedAtStop = {}

\* Frames whose Enqueue has returned.
Enqueued == (1..offered) \ {sending}

-----------------------------------------------------------------------------
(* Enqueue: two selects, with run and Stop free to move in between.          *)

EnqueueCheck ==
    /\ sending = 0 /\ offered < MaxEvents
    /\ offered' = offered + 1
    /\ IF run = "exit" THEN dropped' = dropped \cup {offered + 1} /\ UNCHANGED sending
                       ELSE sending' = offered + 1 /\ UNCHANGED dropped
    /\ UNCHANGED <<queue, loop, callers>>

EnqueueSend ==
    /\ sending # 0
    /\ sending' = 0
    /\ IF Len(queue) < QueueSize THEN queue' = Append(queue, sending) /\ UNCHANGED dropped
                                 ELSE dropped' = dropped \cup {sending} /\ UNCHANGED queue
    /\ UNCHANGED <<offered, loop, callers>>

-----------------------------------------------------------------------------
(* run.                                                                      *)

\* A flush is due: run writes b and goes on to next; an empty batch is no flush.
FlushThen(b, next) ==
    /\ batch' = b
    /\ IF b # <<>> THEN run' = "flush" /\ after' = next
       ELSE run' = (IF next \in Flushers THEN "loop" ELSE next) /\ UNCHANGED after

FullBatch(b) == Len(b) >= BatchSize

\* Take one frame; a full batch is flushed.
receive ==
    LET b == Append(batch, Head(queue)) IN
    /\ run \in {"loop", "drain"} /\ queue # <<>>
    /\ queue' = Tail(queue)
    /\ IF FullBatch(b) THEN FlushThen(b, run) ELSE batch' = b /\ UNCHANGED <<run, after>>
    /\ UNCHANGED <<producer, dropped, table, failed, callers>>

tick ==
    /\ run = "loop" /\ batch # <<>>
    /\ FlushThen(batch, "loop")
    /\ UNCHANGED <<queue, producer, dropped, table, failed, callers>>

\* Mutants: the barrier writes the batch without draining the queue first; the
\* queue goes ahead of the batch.
serveFlushShort(f) ==
    /\ run = "loop" /\ flushing[f] = "asking"
    /\ FlushThen(batch, f)
    /\ flushing' = [flushing EXCEPT ![f] = IF batch = <<>> THEN "returned" ELSE "waiting"]
    /\ UNCHANGED <<queue, producer, dropped, table, failed, before, stopping, expired, queuedAtStop>>

serveFlushSwapped(f) ==
    /\ run = "loop" /\ flushing[f] = "asking"
    /\ queue' = <<>>
    /\ FlushThen(queue \o batch, f)
    /\ flushing' = [flushing EXCEPT ![f] = IF batch \o queue = <<>> THEN "returned" ELSE "waiting"]
    /\ UNCHANGED <<producer, dropped, table, failed, before, stopping, expired, queuedAtStop>>

\* run takes a Flush request: drainQueued, flush, answer.
serveFlush(f) ==
    /\ run = "loop" /\ flushing[f] = "asking"
    /\ queue' = <<>>
    /\ FlushThen(batch \o queue, f)
    /\ flushing' = [flushing EXCEPT ![f] = IF batch \o queue = <<>> THEN "returned" ELSE "waiting"]
    /\ UNCHANGED <<producer, dropped, table, failed, before, stopping, expired, queuedAtStop>>

\* The batch is written: run goes on, and the Flush it served is answered.
Written ==
    /\ run' = IF after \in Flushers THEN "loop" ELSE after
    /\ flushing' = [f \in Flushers |->
                      IF f = after /\ flushing[f] = "waiting" THEN "returned" ELSE flushing[f]]

\* PersistEvents: one transaction for the batch, which commits or is rolled back.
persistEventsTx(commits) ==
    /\ run = "flush"
    /\ IF commits THEN table' = table \o batch /\ batch' = <<>> /\ Written
                  ELSE run' = "rows" /\ UNCHANGED <<table, batch, flushing>>
    /\ UNCHANGED <<queue, producer, dropped, after, failed, before, stopping, expired, queuedAtStop>>

\* After a rollback the rows go in one by one, and a bad one is lost.
PersistEvent(ok) ==
    /\ run = "rows"
    /\ batch' = Tail(batch)
    /\ table' = IF ok THEN Append(table, Head(batch)) ELSE table
    /\ failed' = IF ok THEN failed ELSE failed \cup {Head(batch)}
    /\ IF batch' = <<>> THEN Written ELSE UNCHANGED <<run, flushing>>
    /\ UNCHANGED <<queue, producer, dropped, after, before, stopping, expired, queuedAtStop>>

seeStop ==
    /\ run = "loop" /\ stopping # "idle"
    /\ run' = "drain"
    /\ UNCHANGED <<queue, producer, dropped, batch, after, table, failed, callers>>

\* Mutants: run exits on stop without taking what is queued; the drain only
\* ends with Stop's context.
finishDrainEager ==
    /\ run = "drain"
    /\ FlushThen(batch, "exit")
    /\ UNCHANGED <<queue, producer, dropped, table, failed, callers>>

finishDrainStuck ==
    /\ run = "drain" /\ queue = <<>> /\ expired
    /\ FlushThen(batch, "exit")
    /\ UNCHANGED <<queue, producer, dropped, table, failed, callers>>

\* The drain is over: nothing queued, or Stop's context is done.
finishDrain ==
    /\ run = "drain" /\ (queue = <<>> \/ expired)
    /\ FlushThen(batch, "exit")
    /\ UNCHANGED <<queue, producer, dropped, table, failed, callers>>

-----------------------------------------------------------------------------
(* Flush and Stop, as their callers run them.                                *)

Flush(f) ==
    /\ flushing[f] = "idle"
    /\ flushing' = [flushing EXCEPT ![f] = "asking"]
    /\ before' = [before EXCEPT ![f] = Enqueued]
    /\ UNCHANGED <<queue, producer, dropped, loop, stopping, expired, queuedAtStop>>

\* Mutant: the request is sent without watching p.done.
flushStoppedLate(f) ==
    /\ flushing[f] = "waiting" /\ run = "exit"
    /\ flushing' = [flushing EXCEPT ![f] = "returned"]
    /\ UNCHANGED <<queue, producer, dropped, loop, before, stopping, expired, queuedAtStop>>

\* p.done is closed: a stopped persister answers at once.
flushStopped(f) ==
    /\ flushing[f] \in {"asking", "waiting"} /\ run = "exit"
    /\ flushing' = [flushing EXCEPT ![f] = "returned"]
    /\ UNCHANGED <<queue, producer, dropped, loop, before, stopping, expired, queuedAtStop>>

\* The caller's context ends first, and Flush reports an error.
flushGivesUp(f) ==
    /\ flushing[f] \in {"asking", "waiting"}
    /\ flushing' = [flushing EXCEPT ![f] = "gave_up"]
    /\ UNCHANGED <<queue, producer, dropped, loop, before, stopping, expired, queuedAtStop>>

Stop ==
    /\ stopping = "idle"
    /\ stopping' = "waiting" /\ queuedAtStop' = Range(queue) \cup Range(batch)
    /\ UNCHANGED <<queue, producer, dropped, loop, flushing, before, expired>>

stopExpires ==
    /\ stopping = "waiting" /\ ~expired
    /\ expired' = TRUE
    /\ UNCHANGED <<queue, producer, dropped, loop, flushing, before, stopping, queuedAtStop>>

\* Mutant: Stop gives up waiting for run when its context ends.
stopWaitsExpired ==
    /\ stopping = "waiting" /\ (run = "exit" \/ expired)
    /\ stopping' = "sweeping"
    /\ UNCHANGED <<queue, producer, dropped, loop, flushing, before, expired, queuedAtStop>>

\* <-p.done.
stopWaits ==
    /\ stopping = "waiting" /\ run = "exit"
    /\ stopping' = "sweeping"
    /\ UNCHANGED <<queue, producer, dropped, loop, flushing, before, expired, queuedAtStop>>

\* What an Enqueue stranded in the queue meanwhile is counted as dropped.
stopSweeps ==
    /\ stopping = "sweeping"
    /\ stopping' = "returned"
    /\ dropped' = dropped \cup Range(queue) /\ queue' = <<>>
    /\ UNCHANGED <<producer, loop, flushing, before, expired, queuedAtStop>>

Run ==
    \/ receive \/ tick \/ seeStop \/ finishDrain
    \/ \E f \in Flushers : serveFlush(f)
    \/ \E commits \in BOOLEAN : persistEventsTx(commits)
    \/ \E ok \in BOOLEAN : PersistEvent(ok)

Next ==
    \/ EnqueueCheck \/ EnqueueSend \/ Run
    \/ \E f \in Flushers : Flush(f) \/ flushStopped(f) \/ flushGivesUp(f)
    \/ Stop \/ stopExpires \/ stopWaits \/ stopSweeps

Spec == Init /\ [][Next]_vars

\* The goroutine runs (its ticker included), and a started Enqueue, Flush or
\* Stop goes on; nothing obliges a frame to come or a context to end.
Fairness ==
    /\ WF_vars(Run) /\ WF_vars(EnqueueSend)
    /\ \A f \in Flushers : WF_vars(flushStopped(f))
    /\ WF_vars(stopWaits) /\ WF_vars(stopSweeps)

FairSpec == Spec /\ Fairness

-----------------------------------------------------------------------------
TypeOK ==
    /\ Len(queue) <= QueueSize
    /\ run \in {"loop", "drain"} => Len(batch) < BatchSize
    /\ Range(queue) \cup Range(batch) \cup Range(table) \cup failed \cup dropped \subseteq 1..offered
    /\ run \in {"loop", "drain", "flush", "rows", "exit"} /\ after \in {"loop", "drain", "exit"} \cup Flushers
    /\ flushing \in [Flushers -> {"idle", "asking", "waiting", "returned", "gave_up"}]
    /\ stopping \in {"idle", "waiting", "sweeping", "returned"}

\* The barrier of Flush: once it has returned without an error, no frame that
\* was enqueued before the call can reach the table any more, so rows deleted
\* after it stay deleted (purgePersisted).
FlushBarrier ==
    \A f \in Flushers : flushing[f] = "returned" =>
        run = "exit" \/ before[f] \cap (Range(queue) \cup Range(batch)) = {}

\* Rows go in in sequence order, each frame once, whatever is lost in between:
\* the table is always a prefix of the sequence with holes, which is what
\* reconnectVetColdTail's count relies on.
WrittenInOrder ==
    \A i, j \in 1..Len(table) : i < j => table[i] < table[j]

\* A Stop whose context did not run out hands the store everything that was
\* queued when it was called; its final sweep can only meet later frames.
StopDrains ==
    stopping = "returned" /\ ~expired => queuedAtStop \subseteq Range(table) \cup failed

\* What reaches the table is ordered and, after a Stop in time, complete.
OrderedDrain == WrittenInOrder /\ StopDrains

\* Once Stop has returned no write is in flight or to come: the database may close.
StoreQuiet == [][stopping = "returned" => table' = table /\ failed' = failed]_vars

\* After Stop every frame handed to Enqueue was written, rejected by the store or
\* counted as dropped: none is lost silently.
NothingSilent ==
    stopping = "returned" => Enqueued \subseteq Range(table) \cup failed \cup dropped

\* A Flush returns or gives up with its context.
FlushReturns ==
    \A f \in Flushers : flushing[f] = "asking" ~> flushing[f] \in {"returned", "gave_up"}

\* A Stop returns.
StopReturns == stopping = "waiting" ~> stopping = "returned"

\* Flush and Stop return: no caller waits forever on a goroutine that has exited.
CallsReturn == FlushReturns /\ StopReturns
=============================================================================
