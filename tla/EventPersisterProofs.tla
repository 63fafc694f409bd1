------------------------ MODULE EventPersisterProofs -------------------------
(***************************************************************************)
(* Proofs about EventPersister for every queue and batch size, any number  *)
(* of frames and any set of Flush callers.                                 *)
(***************************************************************************)
EXTENDS EventPersister, TLAPS

\* The frames of s are in sequence order, all of them before e, and before t's.
Inc(s) == \A i, j \in 1..Len(s) : i < j => s[i] < s[j]
Below(s, e) == \A i \in 1..Len(s) : s[i] < e
Under(s, t) == \A i \in 1..Len(s), j \in 1..Len(t) : s[i] < t[j]
Avoids(s, S) == \A i \in 1..Len(s) : s[i] \notin S

\* A batch is being written, and run goes to one of next after it.
Writing(next) == run \in {"flush", "rows"} /\ after \in next

Types ==
    /\ queue \in Seq(Nat) /\ batch \in Seq(Nat) /\ table \in Seq(Nat)
    /\ offered \in Nat /\ sending \in {0, offered}
    /\ run \in {"loop", "drain", "flush", "rows", "exit"}
    /\ after \in {"loop", "drain", "exit"} \cup Flushers
    /\ flushing \in [Flushers -> {"idle", "asking", "waiting", "returned", "gave_up"}]
    /\ before \in [Flushers -> SUBSET Nat]
    /\ stopping \in {"idle", "waiting", "sweeping", "returned"}
    /\ expired \in BOOLEAN /\ queuedAtStop \subseteq Nat

\* Table, batch, queue and the frame being sent are one increasing line.
Ordered ==
    /\ Inc(table) /\ Inc(batch) /\ Inc(queue)
    /\ Under(table, batch) /\ Under(table, queue) /\ Under(batch, queue)
    /\ \A s \in {table, batch, queue} :
         Below(s, offered + 1) /\ (sending # 0 => Below(s, sending))

\* run writes a batch that has something in it, and leaves none behind.
RunGood ==
    /\ run \in {"flush", "rows"} => batch # <<>>
    /\ run = "exit" => batch = <<>>
    /\ run \in {"drain", "exit"} \/ Writing({"drain", "exit"}) => stopping # "idle"
    /\ stopping \in {"sweeping", "returned"} => run = "exit"

\* A Flush call knows only frames whose Enqueue has returned.
FlushGood ==
    \A f \in Flushers :
        /\ \A n \in before[f] : n <= offered /\ (sending # 0 => n # sending)
        /\ flushing[f] = "waiting" => Writing({f}) /\ Avoids(queue, before[f])
        /\ flushing[f] = "returned" =>
             run = "exit" \/ (Avoids(queue, before[f]) /\ Avoids(batch, before[f]))

\* What was queued at Stop is on its way; after a drain in time it has left the queue.
StopGood ==
    /\ \A n \in queuedAtStop : n <= offered /\ (sending # 0 => n # sending)
    /\ ~expired =>
         queuedAtStop \subseteq Range(queue) \cup Range(batch) \cup Range(table) \cup failed
    /\ ~expired /\ (run = "exit" \/ Writing({"exit"})) => Avoids(queue, queuedAtStop)

IInv == Types /\ Ordered /\ RunGood /\ FlushGood /\ StopGood

-----------------------------------------------------------------------------
(* Sequences of frames.                                                    *)

\* The members of a sequence.
LEMMA RangeMember ==
    ASSUME NEW s \in Seq(Nat), NEW x
    PROVE  x \in Range(s) <=> \E i \in 1..Len(s) : x = s[i]
BY DEF Range

\* A sequence that avoids a set shares no member with it.
LEMMA AvoidsMember ==
    ASSUME NEW s \in Seq(Nat), NEW S, Avoids(s, S)
    PROVE  S \cap Range(s) = {}
BY RangeMember DEF Avoids

\* a is s with one frame more at its end.
Longer(s, e, a) ==
    /\ a \in Seq(Nat) /\ a # <<>>
    /\ Inc(s) /\ Below(s, e) => Inc(a)
    /\ \A n : Below(s, n) /\ e < n => Below(a, n)
    /\ \A t : Under(s, t) /\ (\A j \in 1..Len(t) : e < t[j]) => Under(a, t)
    /\ \A t : Under(t, s) /\ Below(t, e) => Under(t, a)
    /\ \A S : Avoids(s, S) /\ e \notin S => Avoids(a, S)
    /\ Range(a) = Range(s) \cup {e}

\* a is s without its first frame.
Shorter(s, e, a) ==
    /\ a \in Seq(Nat) /\ e \in Nat
    /\ Inc(s) => Inc(a) /\ \A j \in 1..Len(a) : e < a[j]
    /\ \A n : Below(s, n) => Below(a, n) /\ e < n
    /\ \A t : Under(s, t) => Under(a, t) /\ \A j \in 1..Len(t) : e < t[j]
    /\ \A t : Under(t, s) => Under(t, a) /\ Below(t, e)
    /\ \A S : Avoids(s, S) => Avoids(a, S) /\ e \notin S
    /\ Range(s) = Range(a) \cup {e}

\* One frame more at the end.
LEMMA AppendFacts ==
    ASSUME NEW s \in Seq(Nat), NEW e \in Nat
    PROVE  Longer(s, e, Append(s, e))
<1>1. /\ Append(s, e) \in Seq(Nat) /\ Append(s, e) # <<>> /\ Len(Append(s, e)) = Len(s) + 1
      /\ Append(s, e)[Len(s) + 1] = e
      /\ \A i \in 1..Len(s) : Append(s, e)[i] = s[i]
  OBVIOUS
<1> DEFINE a == Append(s, e)
<1> HIDE DEF a
<1>2. Inc(s) /\ Below(s, e) => Inc(a)
  BY <1>1 DEF Inc, Below, a
<1>3. \A n : Below(s, n) /\ e < n => Below(a, n)
  BY <1>1 DEF Below, a
<1>4. \A t : Under(s, t) /\ (\A j \in 1..Len(t) : e < t[j]) => Under(a, t)
  BY <1>1 DEF Under, a
<1>5. \A t : Under(t, s) /\ Below(t, e) => Under(t, a)
  BY <1>1 DEF Under, Below, a
<1>6. \A S : Avoids(s, S) /\ e \notin S => Avoids(a, S)
  BY <1>1 DEF Avoids, a
<1>7. Range(a) = Range(s) \cup {e}
  BY <1>1 DEF Range, a
<1> QED
  BY <1>1, <1>2, <1>3, <1>4, <1>5, <1>6, <1>7, Zenon DEF a, Longer, Shorter

\* One frame less at the front.
LEMMA TailFacts ==
    ASSUME NEW s \in Seq(Nat), s # <<>>
    PROVE  Shorter(s, Head(s), Tail(s))
<1>1. /\ Tail(s) \in Seq(Nat) /\ Head(s) \in Nat /\ Head(s) = s[1] /\ 1 \in 1..Len(s)
      /\ Len(s) = Len(Tail(s)) + 1
      /\ \A i \in 1..Len(Tail(s)) : Tail(s)[i] = s[i + 1] /\ i + 1 \in 1..Len(s)
  OBVIOUS
<1> DEFINE a == Tail(s)
<1> HIDE DEF a
<1>2. Inc(s) => Inc(a) /\ \A j \in 1..Len(a) : Head(s) < a[j]
  BY <1>1 DEF Inc, a
<1>3. \A n : Below(s, n) => Below(a, n) /\ Head(s) < n
  BY <1>1, Zenon DEF Below, a
<1>4. \A t : Under(s, t) => Under(a, t) /\ \A j \in 1..Len(t) : Head(s) < t[j]
  BY <1>1, Zenon DEF Under, a
<1>5. \A t : Under(t, s) => Under(t, a) /\ Below(t, Head(s))
  BY <1>1, Zenon DEF Under, Below, a
<1>6. \A S : Avoids(s, S) => Avoids(a, S) /\ Head(s) \notin S
  BY <1>1, Zenon DEF Avoids, a
<1>7. Range(s) = Range(a) \cup {Head(s)}
  <2>1. \A i \in 1..Len(s) : i = 1 \/ (i - 1 \in 1..Len(a) /\ a[i - 1] = s[i])
    BY <1>1 DEF a
  <2>2. /\ Head(s) = s[1] /\ 1 \in 1..Len(s) /\ a \in Seq(Nat)
        /\ \A i \in 1..Len(a) : a[i] = s[i + 1] /\ i + 1 \in 1..Len(s)
    BY <1>1, Zenon DEF a
  <2>3. ASSUME NEW x \in Range(s) PROVE x \in Range(a) \cup {Head(s)}
    <3>1. PICK i \in 1..Len(s) : x = s[i]
      BY RangeMember, Zenon
    <3>2. QED
      BY <2>1, <2>2, <3>1, RangeMember, Zenon
  <2>4. ASSUME NEW x \in Range(a) PROVE x \in Range(s)
    <3>1. PICK i \in 1..Len(a) : x = a[i]
      BY <2>2, RangeMember
    <3>2. QED
      BY <2>2, <3>1, RangeMember, Zenon
  <2>5. Head(s) \in Range(s)
    BY <2>2, RangeMember, Zenon
  <2>6. QED
    BY <2>3, <2>4, <2>5, Zenon
<1> QED
  BY <1>1, <1>2, <1>3, <1>4, <1>5, <1>6, <1>7, Zenon DEF a, Longer, Shorter

\* Two runs of frames joined.
LEMMA ConcatFacts ==
    ASSUME NEW s \in Seq(Nat), NEW t \in Seq(Nat)
    PROVE  /\ s \o t \in Seq(Nat) /\ (s \o t = <<>> => s = <<>> /\ t = <<>>)
           /\ Inc(s) /\ Inc(t) /\ Under(s, t) => Inc(s \o t)
           /\ \A n : Below(s, n) /\ Below(t, n) => Below(s \o t, n)
           /\ \A u : Under(s, u) /\ Under(t, u) => Under(s \o t, u)
           /\ \A u : Under(u, s) /\ Under(u, t) => Under(u, s \o t)
           /\ \A S : Avoids(s, S) /\ Avoids(t, S) => Avoids(s \o t, S)
           /\ Range(s \o t) = Range(s) \cup Range(t)
<1> DEFINE a == s \o t
<1>1. /\ a \in Seq(Nat) /\ Len(a) = Len(s) + Len(t) /\ Len(s) \in Nat /\ Len(t) \in Nat
      /\ \A i \in 1..Len(s) : a[i] = s[i] /\ i \in 1..Len(a)
      /\ \A i \in 1..Len(t) : a[Len(s) + i] = t[i] /\ Len(s) + i \in 1..Len(a)
      /\ DOMAIN a = 1..Len(a) /\ DOMAIN s = 1..Len(s) /\ DOMAIN t = 1..Len(t)
  OBVIOUS
<1> HIDE DEF a
<1>2. \A i \in 1..Len(a) :
        (i \in 1..Len(s) /\ a[i] = s[i]) \/ (i - Len(s) \in 1..Len(t) /\ a[i] = t[i - Len(s)])
  BY <1>1 DEF a
<1>3. Inc(s) /\ Inc(t) /\ Under(s, t) => Inc(a)
  <2> SUFFICES ASSUME Inc(s), Inc(t), Under(s, t), NEW i \in 1..Len(a), NEW j \in 1..Len(a), i < j
               PROVE  a[i] < a[j]
    BY Zenon DEF Inc
  <2>1. CASE j \in 1..Len(s)
    <3>1. i \in 1..Len(s)
      BY <1>1, <2>1
    <3>2. QED
      BY <1>1, <2>1, <3>1, Zenon DEF Inc
  <2>2. CASE i \in 1..Len(s) /\ j \notin 1..Len(s)
    BY <1>1, <1>2, <2>2, Zenon DEF Under
  <2>3. CASE i \notin 1..Len(s)
    <3>1. j \notin 1..Len(s) /\ i - Len(s) < j - Len(s)
      BY <1>1, <2>3
    <3>2. a[i] = t[i - Len(s)] /\ a[j] = t[j - Len(s)]
          /\ i - Len(s) \in 1..Len(t) /\ j - Len(s) \in 1..Len(t)
      BY <1>2, <2>3, <3>1, Zenon
    <3>3. QED
      BY <3>1, <3>2, Zenon DEF Inc
  <2>4. QED
    BY <1>1, <2>1, <2>2, <2>3, Zenon
<1>4. \A n : Below(s, n) /\ Below(t, n) => Below(a, n)
  BY <1>2, Zenon DEF Below
<1>5. \A u : Under(s, u) /\ Under(t, u) => Under(a, u)
  BY <1>2, Zenon DEF Under
<1>6. \A u : Under(u, s) /\ Under(u, t) => Under(u, a)
  BY <1>2, Zenon DEF Under
<1>7. \A S : Avoids(s, S) /\ Avoids(t, S) => Avoids(a, S)
  BY <1>2, Zenon DEF Avoids
<1>8. Range(a) = Range(s) \cup Range(t)
  <2>1. Range(a) \subseteq Range(s) \cup Range(t)
    BY <1>1, <1>2, ZenonT(30) DEF Range
  <2>2. Range(s) \subseteq Range(a) /\ Range(t) \subseteq Range(a)
    BY <1>1, Zenon DEF Range
  <2>3. QED
    BY <2>1, <2>2, Zenon
<1>9. a = <<>> => s = <<>> /\ t = <<>>
  BY <1>1
<1> QED
  BY <1>1, <1>3, <1>4, <1>5, <1>6, <1>7, <1>8, <1>9, Zenon DEF a

\* No frames at all.
LEMMA EmptyFacts ==
    /\ <<>> \in Seq(Nat) /\ Inc(<<>>) /\ Range(<<>>) = {}
    /\ \A n : Below(<<>>, n)
    /\ \A t : Under(<<>>, t) /\ Under(t, <<>>)
    /\ \A S : Avoids(<<>>, S)
BY DEF Inc, Below, Under, Avoids, Range

-----------------------------------------------------------------------------
(* The steps.                                                              *)

\* Nothing is enqueued at first.
LEMMA InitOK == Init => IInv
<1> SUFFICES ASSUME Init PROVE IInv
  BY Zenon
<1>1. Types
  <2>1. before \in [Flushers -> SUBSET Nat] /\ queuedAtStop \subseteq Nat
    BY Zenon DEF Init
  <2> QED
    BY <2>1, EmptyFacts, Zenon DEF Init, Types
<1>2. Ordered
  BY EmptyFacts, Zenon DEF Init, Ordered
<1> QED
  BY <1>1, <1>2, Zenon DEF Init, IInv, RunGood, FlushGood, StopGood, Writing

\* Enqueue numbers its frame after every other one.
LEMMA EnqueueCheckOK == IInv /\ EnqueueCheck => IInv'
<1> SUFFICES ASSUME IInv, EnqueueCheck PROVE IInv'
  BY Zenon
<1> USE DEF IInv, EnqueueCheck, loop, callers
<1>1. /\ UNCHANGED <<queue, batch, run, after, table, failed, flushing, before, stopping, expired, queuedAtStop>>
      /\ offered' = offered + 1 /\ sending' \in {0, offered + 1}
  BY Zenon
<1>2. Types'
  BY <1>1 DEF Types
<1>3. Ordered'
  <2>1. \A t : t \in Seq(Nat) /\ Below(t, offered + 1) => Below(t, offered + 2)
    BY DEF Below, Types
  <2>2. QED
    BY <1>1, <2>1 DEF Ordered, Types
<1>4. RunGood'
  BY <1>1, Zenon DEF RunGood, Writing
<1>5. FlushGood'
  BY <1>1 DEF FlushGood, Writing, Types
<1>6. StopGood'
  BY <1>1 DEF StopGood, Writing, Types
<1> QED
  BY <1>2, <1>3, <1>4, <1>5, <1>6, Zenon

\* Enqueue queues its frame last, or counts it as dropped.
LEMMA EnqueueSendOK == IInv /\ EnqueueSend => IInv'
<1> SUFFICES ASSUME IInv, EnqueueSend PROVE IInv'
  BY Zenon
<1>1. /\ UNCHANGED <<offered, batch, run, after, table, failed, flushing, before, stopping, expired, queuedAtStop>>
      /\ sending = offered /\ sending # 0 /\ sending' = 0
      /\ queue' = queue \/ queue' = Append(queue, sending)
  BY Zenon DEF IInv, Types, EnqueueSend, loop, callers
<1>2. CASE queue' = queue
  BY <1>1, <1>2, Zenon DEF IInv, Types, Ordered, RunGood, FlushGood, StopGood, Writing
<1>3. CASE queue' = Append(queue, sending)
  <2> Longer(queue, sending, queue')
    BY <1>3, AppendFacts, Zenon DEF IInv, Types
  <2>1. Types'
    BY <1>1, <1>3, Zenon DEF IInv, Types, Longer
  <2>2. Ordered'
    BY <1>1, <1>3 DEF IInv, Types, Ordered, Longer
  <2>3. RunGood'
    BY <1>1, Zenon DEF IInv, RunGood, Writing
  <2>4. FlushGood'
    BY <1>1, <1>3, Zenon DEF IInv, Types, Longer, FlushGood, Writing
  <2>5. StopGood'
    BY <1>1, <1>3, Zenon DEF IInv, Types, Longer, StopGood, Writing
  <2> QED
    BY <2>1, <2>2, <2>3, <2>4, <2>5, Zenon DEF IInv
<1> QED
  BY <1>1, <1>2, <1>3, Zenon

\* run moves the oldest queued frame to the end of its batch.
LEMMA ReceiveOK == IInv /\ receive => IInv'
<1> SUFFICES ASSUME IInv, receive PROVE IInv'
  BY Zenon
<1> queue # <<>> /\ Append(batch, Head(queue)) # <<>>
  BY AppendFacts, TailFacts, Zenon DEF receive, IInv, Types, Longer, Shorter
<1>1. /\ UNCHANGED <<sending, offered, table, failed, flushing, before, stopping, expired, queuedAtStop>>
      /\ queue # <<>> /\ queue' = Tail(queue) /\ batch' = Append(batch, Head(queue))
      /\ run \in {"loop", "drain"}
      /\ UNCHANGED <<run, after>> \/ (run' = "flush" /\ after' = run)
  BY Zenon DEF receive, FlushThen, producer, callers
<1> Shorter(queue, Head(queue), queue')
  BY <1>1, TailFacts, Zenon DEF IInv, Types
<1> Longer(batch, Head(queue), batch')
  BY <1>1, AppendFacts, Zenon DEF IInv, Types, Shorter
<1>2. Types'
  BY <1>1, SMTT(30) DEF IInv, Types, Longer, Shorter
<1>3. Ordered'
  BY <1>1, Zenon DEF IInv, Types, Longer, Shorter, Ordered
<1>4. RunGood'
  BY <1>1, Zenon DEF IInv, Types, Longer, Shorter, RunGood, Writing
<1>5. FlushGood'
  BY <1>1, FlushersAssumption, Zenon DEF IInv, Types, Longer, Shorter, FlushGood, Writing
<1>6. StopGood'
  BY <1>1, Zenon DEF IInv, Types, Longer, Shorter, StopGood, Writing
<1> QED
  BY <1>2, <1>3, <1>4, <1>5, <1>6, Zenon DEF IInv

\* The ticker only starts a flush.
LEMMA TickOK == IInv /\ tick => IInv'
<1> SUFFICES ASSUME IInv, tick PROVE IInv'
  BY Zenon
<1>1. /\ UNCHANGED <<queue, batch, sending, offered, table, failed, flushing, before, stopping, expired, queuedAtStop>>
      /\ batch # <<>> /\ run = "loop" /\ run' = "flush" /\ after' = "loop"
  BY Zenon DEF tick, FlushThen, producer, callers
<1> QED
  BY <1>1, FlushersAssumption, Zenon DEF IInv, Types, Ordered, RunGood, FlushGood, StopGood, Writing

\* A Flush is served with the batch and all that is queued.
LEMMA ServeFlushOK == ASSUME NEW g \in Flushers PROVE IInv /\ serveFlush(g) => IInv'
<1> SUFFICES ASSUME IInv, serveFlush(g) PROVE IInv'
  BY Zenon
<1>1. /\ UNCHANGED <<sending, offered, table, failed, before, stopping, expired, queuedAtStop>>
      /\ queue' = <<>> /\ batch' = batch \o queue /\ run = "loop"
      /\ flushing' = [flushing EXCEPT ![g] = IF batch \o queue = <<>> THEN "returned" ELSE "waiting"]
      /\ \/ batch \o queue = <<>> /\ UNCHANGED <<run, after>>
         \/ batch \o queue # <<>> /\ run' = "flush" /\ after' = g
  BY Zenon DEF IInv, Types, serveFlush, FlushThen, producer
<1>2. Types'
  BY <1>1, EmptyFacts, ConcatFacts, Zenon DEF IInv, Types
<1>3. Ordered'
  BY <1>1, EmptyFacts, ConcatFacts DEF IInv, Types, Ordered
<1>4. RunGood'
  BY <1>1, FlushersAssumption, Zenon DEF IInv, Types, RunGood, Writing
<1>5. FlushGood'
  BY <1>1, EmptyFacts, ConcatFacts, FlushersAssumption, Zenon DEF IInv, Types, FlushGood, Writing
<1>6. StopGood'
  BY <1>1, EmptyFacts, ConcatFacts, FlushersAssumption DEF IInv, Types, StopGood, Writing
<1> QED
  BY <1>2, <1>3, <1>4, <1>5, <1>6, Zenon DEF IInv

\* The transaction adds the whole batch to the table or nothing.
LEMMA PersistEventsTxOK ==
    ASSUME NEW commits \in BOOLEAN PROVE IInv /\ persistEventsTx(commits) => IInv'
<1> SUFFICES ASSUME IInv, persistEventsTx(commits) PROVE IInv'
  BY Zenon
<1>1. /\ UNCHANGED <<queue, sending, offered, after, failed, before, stopping, expired, queuedAtStop>>
      /\ run = "flush"
  BY Zenon DEF persistEventsTx, producer
<1>2. CASE commits
  <2>1. /\ table' = table \o batch /\ batch' = <<>>
        /\ run' = IF after \in Flushers THEN "loop" ELSE after
        /\ flushing' = [f \in Flushers |->
                         IF f = after /\ flushing[f] = "waiting" THEN "returned" ELSE flushing[f]]
    BY <1>2, Zenon DEF persistEventsTx, Written
  <2>2. Types'
    BY <1>1, <2>1, EmptyFacts, ConcatFacts, Zenon DEF IInv, Types
  <2>3. Ordered'
    BY <1>1, <2>1, EmptyFacts, ConcatFacts DEF IInv, Types, Ordered
  <2>4. RunGood'
    BY <1>1, <2>1, FlushersAssumption, Zenon DEF IInv, Types, RunGood, Writing
  <2>5. FlushGood'
    BY <1>1, <2>1, EmptyFacts, FlushersAssumption, Zenon DEF IInv, Types, FlushGood, Writing
  <2>6. StopGood'
    BY <1>1, <2>1, EmptyFacts, ConcatFacts, FlushersAssumption DEF IInv, Types, StopGood, Writing
  <2> QED
    BY <2>2, <2>3, <2>4, <2>5, <2>6, Zenon DEF IInv
<1>3. CASE ~commits
  <2>1. run' = "rows" /\ UNCHANGED <<table, batch, flushing>>
    BY <1>3, Zenon DEF persistEventsTx
  <2> QED
    BY <1>1, <2>1, Zenon DEF IInv, Types, Ordered, RunGood, FlushGood, StopGood, Writing
<1> QED
  BY <1>2, <1>3, Zenon

\* The row-by-row fallback keeps the order and loses only bad rows.
LEMMA PersistEventOK ==
    ASSUME NEW ok \in BOOLEAN PROVE IInv /\ PersistEvent(ok) => IInv'
<1> SUFFICES ASSUME IInv, PersistEvent(ok) PROVE IInv'
  BY Zenon
<1>1. /\ UNCHANGED <<queue, sending, offered, after, before, stopping, expired, queuedAtStop>>
      /\ run = "rows" /\ batch' = Tail(batch) /\ batch # <<>>
      /\ \/ table' = Append(table, Head(batch)) /\ failed' = failed
         \/ table' = table /\ failed' = failed \cup {Head(batch)}
  BY Zenon DEF IInv, RunGood, PersistEvent, producer
<1>2. \/ batch' # <<>> /\ UNCHANGED <<run, flushing>>
      \/ /\ batch' = <<>>
         /\ run' = IF after \in Flushers THEN "loop" ELSE after
         /\ flushing' = [f \in Flushers |->
                          IF f = after /\ flushing[f] = "waiting" THEN "returned" ELSE flushing[f]]
  BY Zenon DEF PersistEvent, Written
<1> Shorter(batch, Head(batch), batch')
  BY <1>1, TailFacts, Zenon DEF IInv, Types
<1> table' = table \/ Longer(table, Head(batch), table')
  BY <1>1, AppendFacts, Zenon DEF IInv, Types, Shorter
<1>3. Types'
  BY <1>1, <1>2, Zenon DEF IInv, Types, Longer, Shorter
<1>4. Ordered'
  BY <1>1, Zenon DEF IInv, Types, Longer, Shorter, Ordered
<1>5. RunGood'
  BY <1>1, <1>2, FlushersAssumption, SMTT(30) DEF IInv, Types, Longer, Shorter, RunGood, Writing
<1>6. FlushGood'
  <2> SUFFICES ASSUME NEW f \in Flushers
               PROVE  /\ \A n \in before[f] : n <= offered /\ (sending # 0 => n # sending)
                      /\ flushing'[f] = "waiting" => Writing({f})' /\ Avoids(queue, before[f])
                      /\ flushing'[f] = "returned" =>
                           run' = "exit" \/ (Avoids(queue, before[f]) /\ Avoids(batch', before[f]))
    BY <1>1, Zenon DEF FlushGood
  <2>1. \A n \in before[f] : n <= offered /\ (sending # 0 => n # sending)
    BY Zenon DEF IInv, FlushGood
  <2>2. CASE batch' # <<>>
    BY <1>1, <1>2, <2>1, <2>2, Zenon DEF IInv, FlushGood, Writing, Shorter
  <2>3. CASE batch' = <<>>
    BY <1>1, <1>2, <2>1, <2>3, EmptyFacts, FlushersAssumption, Zenon DEF IInv, Types, FlushGood, Writing
  <2> QED
    BY <2>2, <2>3, Zenon
<1>7. StopGood'
  BY <1>1, <1>2, EmptyFacts, FlushersAssumption, SMTT(30) DEF IInv, Types, Longer, Shorter, StopGood, Writing
<1> QED
  BY <1>3, <1>4, <1>5, <1>6, <1>7, Zenon DEF IInv

\* run notices that it is stopped.
LEMMA SeeStopOK == IInv /\ seeStop => IInv'
BY DEF seeStop, producer, callers, IInv, Types, Ordered, RunGood, FlushGood, StopGood, Writing

\* The drain ends with the queue empty or Stop's context done, and writes the batch.
LEMMA FinishDrainOK == IInv /\ finishDrain => IInv'
<1> SUFFICES ASSUME IInv, finishDrain PROVE IInv'
  BY Zenon
<1>1. /\ UNCHANGED <<queue, batch, sending, offered, table, failed, flushing, before, stopping, expired, queuedAtStop>>
      /\ run = "drain" /\ (queue = <<>> \/ expired)
      /\ \/ batch # <<>> /\ run' = "flush" /\ after' = "exit"
         \/ batch = <<>> /\ run' = "exit" /\ after' = after
  BY FlushersAssumption, Zenon DEF finishDrain, FlushThen, producer, callers
<1> QED
  BY <1>1, EmptyFacts, FlushersAssumption, Zenon
     DEF IInv, Types, Ordered, RunGood, FlushGood, StopGood, Writing

\* A Flush call notes what was enqueued before it.
LEMMA FlushOK == ASSUME NEW g \in Flushers PROVE IInv /\ Flush(g) => IInv'
<1> SUFFICES ASSUME IInv, Flush(g) PROVE IInv'
  BY Zenon
<1>1. /\ UNCHANGED <<queue, batch, sending, offered, table, failed, run, after, stopping, expired, queuedAtStop>>
      /\ flushing' = [flushing EXCEPT ![g] = "asking"]
      /\ before' = [before EXCEPT ![g] = (1..offered) \ {sending}]
  BY Zenon DEF Flush, Enqueued, producer, loop
<1> QED
  BY <1>1 DEF IInv, Types, Ordered, RunGood, FlushGood, StopGood, Writing

\* A Flush call whose context ends, or that finds run gone, changes nothing else.
LEMMA FlushEndsOK ==
    ASSUME NEW g \in Flushers PROVE IInv /\ (flushStopped(g) \/ flushGivesUp(g)) => IInv'
<1> SUFFICES ASSUME IInv, flushStopped(g) \/ flushGivesUp(g) PROVE IInv'
  BY Zenon
<1>1. /\ UNCHANGED <<queue, batch, sending, offered, table, failed, run, after, before, stopping, expired, queuedAtStop>>
      /\ \/ flushing' = [flushing EXCEPT ![g] = "returned"] /\ run = "exit"
         \/ flushing' = [flushing EXCEPT ![g] = "gave_up"]
  BY Zenon DEF flushStopped, flushGivesUp, producer, loop
<1> QED
  BY <1>1, SMTT(30) DEF IInv, Types, Ordered, RunGood, FlushGood, StopGood, Writing

\* Stop notes what was queued when it was called.
LEMMA StopOK == IInv /\ Stop => IInv'
<1> SUFFICES ASSUME IInv, Stop PROVE IInv'
  BY Zenon
<1>1. /\ UNCHANGED <<queue, batch, sending, offered, table, failed, run, after, flushing, before, expired>>
      /\ stopping = "idle" /\ stopping' = "waiting"
      /\ queuedAtStop' = Range(queue) \cup Range(batch)
  BY Zenon DEF Stop, producer, loop
<1>2. \A n \in queuedAtStop' : n \in Nat /\ n < offered + 1 /\ (sending # 0 => n < sending)
  <2>1. ASSUME NEW s \in {queue, batch}, NEW n \in Range(s)
        PROVE  n \in Nat /\ n < offered + 1 /\ (sending # 0 => n < sending)
    <3>1. s \in Seq(Nat) /\ Below(s, offered + 1) /\ (sending # 0 => Below(s, sending))
      BY Zenon DEF IInv, Types, Ordered
    <3>2. PICK i \in 1..Len(s) : n = s[i]
      BY <2>1, <3>1, RangeMember, Zenon
    <3> QED
      BY <3>1, <3>2 DEF Below
  <2> QED
    BY <1>1, <2>1, Zenon
<1>3. Types' /\ Ordered' /\ RunGood' /\ FlushGood'
  BY <1>1, <1>2, Zenon DEF IInv, Types, Ordered, RunGood, FlushGood, Writing
<1>4. StopGood'
  BY <1>1, <1>2 DEF IInv, Types, RunGood, StopGood, Writing
<1> QED
  BY <1>3, <1>4, Zenon DEF IInv

\* Stop's context ends, or run has exited.
LEMMA StopRunsOK == IInv /\ (stopExpires \/ stopWaits) => IInv'
<1> SUFFICES ASSUME IInv, stopExpires \/ stopWaits PROVE IInv'
  BY Zenon
<1>1. /\ UNCHANGED <<queue, batch, sending, offered, table, failed, run, after, flushing, before, queuedAtStop>>
      /\ stopping = "waiting"
      /\ \/ stopping' = stopping /\ expired'
         \/ stopping' = "sweeping" /\ run = "exit" /\ expired' = expired
  BY Zenon DEF stopExpires, stopWaits, producer, loop
<1> QED
  BY <1>1, Zenon DEF stopExpires, stopWaits, IInv, Types, Ordered, RunGood, FlushGood, StopGood, Writing

\* Stop counts what is still queued after run has exited.
LEMMA StopSweepsOK == IInv /\ stopSweeps => IInv'
<1> SUFFICES ASSUME IInv, stopSweeps PROVE IInv'
  BY Zenon
<1>1. /\ UNCHANGED <<batch, sending, offered, table, failed, run, after, flushing, before, expired, queuedAtStop>>
      /\ stopping = "sweeping" /\ stopping' = "returned" /\ queue' = <<>>
  BY Zenon DEF stopSweeps, producer, loop
<1>2. Types' /\ Ordered' /\ RunGood' /\ FlushGood'
  BY <1>1, EmptyFacts, Zenon DEF IInv, Types, Ordered, RunGood, FlushGood, Writing
<1>3. ~expired => \A n \in queuedAtStop : n \notin Range(queue)
  BY <1>1, AvoidsMember, Zenon DEF IInv, Types, RunGood, StopGood
<1>4. StopGood'
  BY <1>1, <1>3, EmptyFacts, Zenon DEF IInv, Types, StopGood, Writing
<1> QED
  BY <1>2, <1>4, Zenon DEF IInv

\* Every step keeps the invariant.
LEMMA StepOK == IInv /\ [Next]_vars => IInv'
<1>1. IInv /\ Run => IInv'
  BY ReceiveOK, TickOK, SeeStopOK, FinishDrainOK, ServeFlushOK, PersistEventsTxOK, PersistEventOK, Zenon DEF Run
<1>2. IInv /\ UNCHANGED vars => IInv'
  BY DEF vars, producer, loop, callers, IInv, Types, Ordered, RunGood, FlushGood, StopGood, Writing
<1> QED
  BY <1>1, <1>2, EnqueueCheckOK, EnqueueSendOK, FlushOK, FlushEndsOK, StopOK, StopRunsOK, StopSweepsOK, Zenon DEF Next

-----------------------------------------------------------------------------
(* The theorems.                                                           *)

(* The inductive invariant: table, batch, queue and the frame being sent are one
   increasing line, and each Flush and Stop knows which part of it is theirs. *)
THEOREM PersisterInvariant == Spec => []IInv
BY InitOK, StepOK, PTL DEF Spec

(* The barrier of Flush (event_persister.go 75-110): after it returns nothing
   enqueued before the call can still reach the table. *)
THEOREM FlushIsBarrier == Spec => []FlushBarrier
<1>1. IInv => FlushBarrier
  <2> SUFFICES ASSUME IInv, NEW f \in Flushers, flushing[f] = "returned", run # "exit"
               PROVE  before[f] \cap (Range(queue) \cup Range(batch)) = {}
    BY Zenon DEF FlushBarrier
  <2>1. Avoids(queue, before[f]) /\ Avoids(batch, before[f]) /\ queue \in Seq(Nat) /\ batch \in Seq(Nat)
    BY Zenon DEF IInv, Types, FlushGood
  <2> QED
    BY <2>1, AvoidsMember, Zenon
<1> QED
  BY <1>1, PersisterInvariant, PTL

(* Rows are written in sequence order, and a Stop in time writes all that was
   queued (event_persister.go 166-205). *)
THEOREM DrainIsOrdered == Spec => []OrderedDrain
<1>1. IInv => WrittenInOrder
  BY Zenon DEF IInv, Ordered, Inc, WrittenInOrder
<1>2. IInv => StopDrains
  <2> SUFFICES ASSUME IInv, stopping = "returned", ~expired, NEW n \in queuedAtStop
               PROVE  n \in Range(table) \cup failed
    BY Zenon DEF StopDrains
  <2>1. run = "exit" /\ batch = <<>> /\ Avoids(queue, queuedAtStop)
    BY Zenon DEF IInv, RunGood, StopGood
  <2>2. n \notin Range(queue) /\ n \notin Range(batch)
    BY <2>1, AvoidsMember, EmptyFacts, Zenon DEF IInv, Types
  <2> QED
    BY <2>2, Zenon DEF IInv, StopGood
<1> QED
  BY <1>1, <1>2, PersisterInvariant, PTL DEF OrderedDrain

(* Once Stop has returned the store is left alone (event_persister.go 166-182):
   no step writes a row or counts a lost one. *)
THEOREM StoreIsQuiet == Spec => StoreQuiet
<1>1. IInv /\ [Next]_vars => [stopping = "returned" => table' = table /\ failed' = failed]_vars
  <2> SUFFICES ASSUME IInv, Next, stopping = "returned" PROVE table' = table /\ failed' = failed
    BY Zenon DEF vars, loop
  <2>1. run = "exit"
    BY Zenon DEF IInv, RunGood
  <2> QED
    BY <2>1, Zenon DEF Next, Run, EnqueueCheck, EnqueueSend, receive, tick, seeStop, finishDrain, serveFlush,
       persistEventsTx, PersistEvent, Flush, flushStopped, flushGivesUp, Stop, stopExpires,
       stopWaits, stopSweeps, loop
<1> QED
  BY <1>1, PersisterInvariant, PTL DEF Spec, StoreQuiet

=============================================================================
