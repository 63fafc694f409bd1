------------------------------ MODULE HubReplay ------------------------------
(***************************************************************************)
(* The hub's sequenced delivery and three-tier resume: producers and the   *)
(* broadcast queue, the dispatch goroutine with its content-gate lane, the *)
(* seq counter and replay ring under seqMu, the persisted events table,    *)
(* targeted unsequenced fan-outs, queue-drop accounting, each session's    *)
(* handshake, socket queue and teardown, and the client's last_seq and     *)
(* cseq bookkeeping.  One channel is inside every session's allowed set.   *)
(***************************************************************************)
EXTENDS RingOps, FiniteSets, SequencesExt

CONSTANTS
    AllSessions,  \* device sessions, each the only one of its user
    MaxEvents,    \* bound: events committed in any scene
    SCap,         \* capacity of a client's send queue
    RouteCap,     \* queueDropRouteCap
    Jump,         \* seq space a boot skips (wsSeqFloorReserve)
    Scenes        \* the circumstances to explore, one per behaviour

AllKinds == {"global", "chat", "direct", "voice", "vis"}

\* A scene fixes who takes part, what is produced, two limits and which faults
\* occur, and bounds the disturbances.
Scene ==
    [sessions : SUBSET AllSessions, kinds : SUBSET AllKinds, events : 0..MaxEvents,
     qCap : Nat \ {0},          \* capacity of h.broadcast, which also bounds parked frames
     coldCap : Nat,             \* maxColdReplay; 0 is a hub without an event store
     gateMayFail : BOOLEAN,     \* content-gate reads may end unconfirmed
     mayShed : BOOLEAN,         \* the topic limiter may shed a frame
     dropRaces : BOOLEAN,       \* seqMu sections may run between the halves of recordQueueDrop
     lossyHandshake : BOOLEAN,  \* a fresh handshake written without error may never arrive
     disc : Nat,                \* bound: socket losses left
     prune : Nat,               \* bound: rows left for retention to delete or the persister to lose
     restart : Nat]             \* bound: process restarts left

ASSUME BoundsAssumption == MaxEvents \in Nat /\ {SCap, RouteCap, Jump} \subseteq Nat \ {0}
ASSUME ScenesAssumption == Scenes \subseteq Scene
ASSUME ChannelNumbers == Channels = {1, 2} /\ Payloads = 1..MaxEvents

VARIABLES
    ev,           \* kinds of the events committed to the database; an event's id is its index
    seq,          \* h.seq
    ring,         \* h.replayBuf
    visW,         \* h.visibilityChangeSeq
    bq,           \* h.broadcast: event ids
    lane,         \* h.gates.lanes of the channel: parked content frames
    covered,      \* how many of them the gate read in flight covers
    drain,        \* resolved gate being applied: [n: frames left, ok: confirmed]
    dropping,     \* producers that met a full queue and have not called recordQueueDrop
    noted,        \* producers between noteDropRoute and dropped.Add
    routes,       \* queueDropState.routes; 0 stands for routesOverflow
    unsettled,    \* queueDropState.dropped # applied
    fan,          \* targeted fan-outs in flight: sessions their loop has yet to visit
    pendQ,        \* frames the event persister holds
    store,        \* rows of the events table
    owed,         \* presenceFeed.repair: the session's next connect takes a full ready
    conn,         \* the session's entry in h.clients
    hs,           \* the session's handshake, as its goroutine runs it
    cli,          \* the client
    shed,         \* auxiliary: frames shed while the session was connected
    scene         \* the scene, with the disturbances it has left

dispatchVars == <<bq, lane, covered, drain>>
dropVars == <<dropping, noted, routes, unsettled>>
storeVars == <<pendQ, store>>
sessionVars == <<owed, conn, hs, cli>>
vars == <<ev, seq, ring, visW, dispatchVars, dropVars, fan, storeVars, sessionVars, shed, scene>>

Sessions == scene.sessions
Kinds == scene.kinds
QCap == scene.qCap
ColdCap == scene.coldCap

Max2(a, b) == IF a > b THEN a ELSE b
Ids == 1..Len(ev)

\* Channel 1 is the allowed channel, 2 a voice room outside the allowed set.
ChannelOf(k) == CASE k = "global" -> 0 [] k = "voice" -> 2 [] OTHER -> 1
Allowed == {1}

\* The frame of event id under sequence number n; a targeted frame has none (0).
Frame(n, id, k) ==
    [seq |-> n, channelID |-> ChannelOf(k), contentBearing |-> k \in {"chat", "direct"}, data |-> id]

Fresh == {"strip", "subscribe", "authok", "owed", "loss", "build", "ready"}
Resuming == {"select", "cold", "oldest", "count", "tail", "register"}
Attached == {"supplement", "write", "live"}

NoConn == [reg |-> "none", sub |-> FALSE, closed |-> FALSE, sendQ |-> <<>>, loss |-> FALSE]
NoHandshake == [pc |-> "down", src |-> "none", rows |-> <<>>, replay |-> <<>>,
                snap |-> {}, took |-> FALSE]

\* A session that connected fresh, with nothing missed, before the first event.
Init ==
    /\ scene \in Scenes
    /\ ev = <<>> /\ seq = 0 /\ ring = <<>> /\ visW = 0
    /\ bq = <<>> /\ lane = <<>> /\ covered = 0 /\ drain = [n |-> 0, ok |-> TRUE]
    /\ dropping = {} /\ noted = {} /\ routes = {} /\ unsettled = FALSE
    /\ fan = <<>> /\ pendQ = <<>> /\ store = <<>>
    /\ owed = [s \in Sessions |-> FALSE]
    /\ conn = [s \in Sessions |-> [NoConn EXCEPT !.reg = "cur", !.sub = TRUE]]
    /\ hs = [s \in Sessions |-> [NoHandshake EXCEPT !.pc = "live"]]
    /\ cli = [s \in Sessions |-> [lastSeq |-> 0, have |-> {}, follow |-> TRUE, gap |-> FALSE]]
    /\ shed = [s \in Sessions |-> {}]

-----------------------------------------------------------------------------
(* Sequencing and fan-out, under seqMu.                                      *)

\* Sections under seqMu, kept apart from a half-done recordQueueDrop unless
\* scene.dropRaces lets them meet.
SeqMu == scene.dropRaces \/ noted = {}

\* Client.sendMsg: a full queue closes the connection; a dead socket's queue is
\* never read again.
sendMsg(c, f) ==
    CASE c.reg # "cur" \/ c.closed -> c
      [] Len(c.sendQ) < SCap -> [c EXCEPT !.sendQ = Append(@, f)]
      [] OTHER -> [c EXCEPT !.closed = TRUE]

\* The connections a frame of kind k is published to: the channel topic's
\* subscribers, or every registered client.
Audience(k) ==
    IF k = "chat" THEN {s \in Sessions : conn[s].sub} ELSE {s \in Sessions : conn[s].reg # "none"}

\* Mutant: the overflow of the route table is not acted on.
RouteAudienceCapped == UNION {Audience(ev[id]) : id \in routes \ {0}}

\* The audiences of the drop routes kept so far; an overflow is a global loss.
RouteAudience ==
    IF 0 \in routes THEN Audience("global") ELSE UNION {Audience(ev[id]) : id \in routes}

\* markLoss: a resync is owed and the socket's next cseq skips one.
markLoss(S) ==
    owed' = [s \in Sessions |-> owed[s] \/ s \in S]

\* Mutant: only the resync is recorded, the next cseq is not moved.
MarkedOwedOnly(c, s, S) == c

Marked(c, s, S) == [c EXCEPT !.loss = @ \/ s \in S]

\* applyQueueContentDrops, with the queue and the lane as the caller leaves them:
\* routes are marked at once, the drop settles when nothing is ahead of it.
applyQueueContentDrops(q, parked) ==
    /\ routes' = {}
    /\ unsettled' = (unsettled /\ ~(q = <<>> /\ parked = <<>>))
    /\ UNCHANGED <<dropping, noted>>

\* Mutant: an unsettled queue drop does not move the watermark.
RatchetsGateOnly(confirmed) == ~confirmed

\* Frames that may be missing from a replay push the watermark to this one.
Ratchets(confirmed) == ~confirmed \/ unsettled

\* deliverGated past the limiter: number, store, fan out, settle drops.
deliverGated(id, k, confirmed, q, parked) ==
    LET f    == Frame(seq + 1, id, k)
        to   == IF confirmed THEN Audience(k) ELSE {}
        lost == RouteAudience \cup (IF confirmed THEN {} ELSE Audience(k))
    IN  /\ SeqMu
        /\ seq' = seq + 1
        /\ ring' = PushEntry(ring, f)
        /\ pendQ' = IF ColdCap = 0 THEN pendQ ELSE Append(pendQ, f)
        /\ visW' = IF Ratchets(confirmed) THEN seq + 1 ELSE visW
        /\ conn' = [s \in Sessions |->
                      Marked(IF s \in to THEN sendMsg(conn[s], f) ELSE conn[s], s, lost)]
        /\ markLoss(lost)
        /\ applyQueueContentDrops(q, parked)
        /\ UNCHANGED <<ev, fan, store, hs, cli, shed, scene>>

\* deliverGated when allowTopicFrame sheds a content frame: no seq, but the
\* watermark moves.
shedFrame(id, q, parked) ==
    /\ SeqMu
    /\ visW' = Max2(visW, seq)
    /\ conn' = [s \in Sessions |-> Marked(conn[s], s, RouteAudience)]
    /\ markLoss(RouteAudience)
    /\ shed' = [s \in Sessions |-> shed[s] \cup (IF conn[s].reg = "cur" THEN {id} ELSE {})]
    /\ applyQueueContentDrops(q, parked)
    /\ UNCHANGED <<ev, seq, ring, fan, storeVars, hs, cli, scene>>

\* sendSequencedToUsers: numbered and sent past the queue; drops are not settled here.
sendSequencedToUsers ==
    LET id == Len(ev) + 1
        f  == Frame(seq + 1, id, "direct")
    IN  /\ SeqMu /\ "direct" \in Kinds /\ id <= scene.events
        /\ ev' = Append(ev, "direct")
        /\ seq' = seq + 1
        /\ ring' = PushEntry(ring, f)
        /\ pendQ' = IF ColdCap = 0 THEN pendQ ELSE Append(pendQ, f)
        /\ conn' = [s \in Sessions |-> sendMsg(conn[s], f)]
        /\ UNCHANGED <<visW, dispatchVars, dropVars, fan, store, owed, hs, cli, shed, scene>>

-----------------------------------------------------------------------------
(* Producers and the dispatch goroutine.                                     *)

\* A handler commits its change and calls enqueue; a content frame's bounded
\* wait for room is a later commit here.
enqueue(k) ==
    LET id == Len(ev) + 1 IN
    /\ k \in Kinds \cap {"global", "chat", "voice"} /\ id <= scene.events
    /\ ev' = Append(ev, k)
    /\ IF Len(bq) < QCap THEN bq' = Append(bq, id) /\ UNCHANGED dropping
                         ELSE dropping' = dropping \cup {id} /\ UNCHANGED bq
    /\ UNCHANGED <<seq, ring, visW, lane, covered, drain, noted, routes, unsettled,
                   fan, storeVars, sessionVars, shed, scene>>

\* recordQueueDrop, first half: noteDropRoute.
noteDropRoute(id) ==
    /\ id \in dropping
    /\ dropping' = dropping \ {id}
    /\ noted' = noted \cup {id}
    /\ routes' = routes \cup {IF Cardinality(routes) < RouteCap THEN id ELSE 0}
    /\ UNCHANGED <<ev, seq, ring, visW, dispatchVars, unsettled, fan, storeVars, sessionVars, shed, scene>>

\* recordQueueDrop, second half: queueDrops.dropped.Add(1).
countDrop(id) ==
    /\ id \in noted
    /\ noted' = noted \ {id}
    /\ unsettled' = TRUE
    /\ UNCHANGED <<ev, seq, ring, visW, dispatchVars, dropping, routes, fan, storeVars, sessionVars, shed, scene>>

\* Run takes the next queued frame (broadcastIn) and dispatches it: a content
\* frame is parked and, with no read in flight, starts one; any other goes out.
dispatch ==
    LET id == Head(bq) IN
    /\ bq # <<>> /\ drain.n = 0 /\ Len(lane) < QCap
    /\ bq' = Tail(bq)
    /\ IF ev[id] = "chat"
       THEN /\ lane' = Append(lane, id)
            /\ covered' = IF lane = <<>> THEN 1 ELSE covered
            /\ UNCHANGED <<ev, seq, ring, visW, drain, dropVars, fan, storeVars, sessionVars, shed, scene>>
       ELSE /\ deliverGated(id, ev[id], TRUE, bq', lane)
            /\ UNCHANGED <<lane, covered, drain>>

\* onGateResolved: the read's answer applies to the frames it covered.
onGateResolved(ok) ==
    /\ covered > 0 /\ drain.n = 0
    /\ ok \/ scene.gateMayFail
    /\ drain' = [n |-> covered, ok |-> ok]
    /\ UNCHANGED <<ev, seq, ring, visW, bq, lane, covered, dropVars, fan, storeVars, sessionVars, shed, scene>>

\* ... which then leave the lane one at a time, each in its own seqMu section;
\* what was parked meanwhile gets the next read.
drainLane(isShed) ==
    LET id == Head(lane) IN
    /\ drain.n > 0
    /\ isShed => scene.mayShed
    /\ lane' = Tail(lane)
    /\ drain' = [drain EXCEPT !.n = @ - 1]
    /\ covered' = IF drain.n = 1 THEN Len(lane) - 1 ELSE covered
    /\ UNCHANGED bq
    /\ IF isShed THEN shedFrame(id, bq, lane') ELSE deliverGated(id, "chat", drain.ok, bq, lane')

-----------------------------------------------------------------------------
(* Targeted, unsequenced fan-outs (channel_create, channel_delete, DM open). *)

beginTargetedFanout ==
    LET id == Len(ev) + 1 IN
    /\ SeqMu /\ "vis" \in Kinds /\ id <= scene.events
    /\ ev' = Append(ev, "vis")
    /\ fan' = [i \in DOMAIN fan \cup {id} |->
                 IF i = id THEN {s \in Sessions : conn[s].reg # "none"} ELSE fan[i]]
    /\ visW' = Max2(visW, seq)
    /\ UNCHANGED <<seq, ring, dispatchVars, dropVars, storeVars, sessionVars, shed, scene>>

visitFanout(id, s) ==
    /\ id \in DOMAIN fan /\ s \in fan[id]
    /\ fan' = [fan EXCEPT ![id] = @ \ {s}]
    /\ conn' = [conn EXCEPT ![s] = sendMsg(@, Frame(0, id, "vis"))]
    /\ UNCHANGED <<ev, seq, ring, visW, dispatchVars, dropVars, storeVars, owed, hs, cli, shed, scene>>

\* Mutant: the fan-out ends without moving the watermark again.
endTargetedFanoutSilent(id) ==
    /\ SeqMu /\ id \in DOMAIN fan /\ fan[id] = {}
    /\ fan' = [i \in DOMAIN fan \ {id} |-> fan[i]]
    /\ UNCHANGED <<ev, seq, ring, visW, dispatchVars, dropVars, storeVars, sessionVars, shed, scene>>

endTargetedFanout(id) ==
    /\ SeqMu /\ id \in DOMAIN fan /\ fan[id] = {}
    /\ fan' = [i \in DOMAIN fan \ {id} |-> fan[i]]
    /\ visW' = Max2(visW, seq)
    /\ UNCHANGED <<ev, seq, ring, dispatchVars, dropVars, storeVars, sessionVars, shed, scene>>

-----------------------------------------------------------------------------
(* The events table.                                                         *)

\* The persister writes its oldest frame, or loses the row (full queue, failed insert).
persist(lost) ==
    /\ pendQ # <<>>
    /\ lost => scene.prune > 0
    /\ pendQ' = Tail(pendQ)
    /\ store' = IF lost THEN store ELSE Append(store, Head(pendQ))
    /\ scene' = IF lost THEN [scene EXCEPT !.prune = @ - 1] ELSE scene
    /\ UNCHANGED <<ev, seq, ring, visW, dispatchVars, dropVars, fan, sessionVars, shed>>

\* PruneEventsOlderThan deletes expired rows in chunks and in no order, so any
\* row may be the one missing at a given moment.
prune(i) ==
    /\ i \in 1..Len(store) /\ scene.prune > 0
    /\ store' = RemoveAt(store, i)
    /\ scene' = [scene EXCEPT !.prune = @ - 1]
    /\ UNCHANGED <<ev, seq, ring, visW, dispatchVars, dropVars, fan, pendQ, sessionVars, shed>>

-----------------------------------------------------------------------------
(* Resume: handleReconnect.                                                  *)

hubVars == <<ev, seq, ring, visW, dispatchVars, dropVars, fan, storeVars>>

mustFullResync(last, w) == w > 0 /\ last <= w

\* The client dials with its last_seq; reconnectPrecheck decides whether replay
\* is possible at all (a failed permission read also means no).
reconnectPrecheck(s) ==
    LET last == cli[s].lastSeq IN
    /\ hs[s].pc = "down"
    /\ \/ hs' = [hs EXCEPT ![s].pc = "strip"]
       \/ /\ last > 0 /\ ~owed[s] /\ ~mustFullResync(last, visW)
          /\ hs' = [hs EXCEPT ![s].pc = "select"]
    /\ cli' = [cli EXCEPT ![s].gap = FALSE]
    /\ UNCHANGED <<hubVars, owed, conn, shed, scene>>

\* One read of the handshake goroutine: go on to next, or fall through to a
\* full ready.
Step(s, pc, ok, next) ==
    /\ hs[s].pc = pc
    /\ hs' = [hs EXCEPT ![s].pc = IF ok THEN next ELSE "strip"]
    /\ UNCHANGED <<hubVars, owed, conn, cli, shed, scene>>

\* reconnectSelectReplay, the ring: a hit is served from the buffer.
selectRing(s) ==
    LET hit == Covers(ring, cli[s].lastSeq) IN
    /\ hs[s].pc = "select"
    /\ hs' = [hs EXCEPT ![s] = [@ EXCEPT !.src = IF hit THEN "buffer" ELSE "db",
                                !.pc = CASE hit -> "register" [] ColdCap > 0 -> "cold" [] OTHER -> "strip"]]
    /\ UNCHANGED <<hubVars, owed, conn, cli, shed, scene>>

\* GetEventsSinceForChannels: at most cap allowed rows after last, oldest first.
RowsSince(last, allowed, cap) ==
    LET Wanted(r) == r.seq > last /\ r.channelID \in allowed \cup {0}
        all == SelectSeq(store, Wanted)
    IN  SubSeq(all, 1, IF Len(all) < cap THEN Len(all) ELSE cap)

\* ... the cold query: no row, or as many as the cap, cannot be a replay.
coldQuery(s) ==
    LET rows == RowsSince(cli[s].lastSeq, Allowed, ColdCap) IN
    /\ hs[s].pc = "cold"
    /\ hs' = [hs EXCEPT ![s] = [@ EXCEPT !.rows = rows,
                                !.pc = IF rows # <<>> /\ Len(rows) < ColdCap THEN "oldest" ELSE "strip"]]
    /\ UNCHANGED <<hubVars, owed, conn, cli, shed, scene>>

maxPersistedSeq(s) == Last(hs[s].rows).seq

\* ... the oldest surviving row must reach back to last_seq + 1.
coldOldest(s) ==
    Step(s, "oldest", store # <<>> /\ Head(store).seq <= cli[s].lastSeq + 1, "count")

\* CountEventsInRange over (from, to].
CountEventsInRange(from, to) ==
    Cardinality({i \in 1..Len(store) : store[i].seq > from /\ store[i].seq <= to})

\* Mutant: the rows are not checked for holes.
coldCountSkipped(s) == Step(s, "count", TRUE, "tail")

\* reconnectVetColdTail: every seq up to the last row is in the table.
coldCount(s) ==
    LET last == cli[s].lastSeq IN
    Step(s, "count",
         hs[s].pc = "count" /\ CountEventsInRange(last, maxPersistedSeq(s)) = maxPersistedSeq(s) - last,
         "tail")

\* The ring carries on where the rows end, or there is nothing newer.
TailCovered(s) == Covers(ring, maxPersistedSeq(s)) \/ seq = maxPersistedSeq(s)

coldTail(s) == Step(s, "tail", hs[s].pc = "tail" /\ TailCovered(s), "register")

\* The frames reconnectRegister serves, re-read under seqMu.
ReplayFrames(s) ==
    IF hs[s].src = "buffer" THEN EventsSince(ring, cli[s].lastSeq, Allowed, Allowed)
    ELSE hs[s].rows \o (IF Covers(ring, maxPersistedSeq(s))
                        THEN EventsSince(ring, maxPersistedSeq(s), Allowed, Allowed) ELSE <<>>)

Servable(s) ==
    IF hs[s].src = "buffer" THEN Covers(ring, cli[s].lastSeq) ELSE TailCovered(s)

\* What sends a servable resume to the full ready after all.
ForcedFull(s, w) == DOMAIN fan # {} \/ mustFullResync(cli[s].lastSeq, w) \/ owed[s]

\* reconnectRegister: re-read, re-check and registerNow in one seqMu section.
\* The auth frame's active channel restores the channel subscription.
reconnectRegister(s) ==
    LET w == IF unsettled THEN Max2(visW, seq) ELSE visW
    IN  /\ SeqMu /\ hs[s].pc = "register"
        /\ visW' = IF Servable(s) THEN w ELSE visW
        /\ IF ~Servable(s) \/ ForcedFull(s, w)
           THEN hs' = [hs EXCEPT ![s].pc = "strip"] /\ UNCHANGED conn
           ELSE /\ hs' = [hs EXCEPT ![s] = [@ EXCEPT !.pc = "supplement", !.replay = ReplayFrames(s)]]
                /\ conn' = [conn EXCEPT ![s] = [NoConn EXCEPT !.reg = "cur", !.sub = cli[s].follow]]
        /\ UNCHANGED <<ev, seq, ring, dispatchVars, dropVars, fan, storeVars, owed, cli, shed, scene>>

\* Mutant: the supplement takes whatever newer frames the ring still has.
VoiceSinceUnfiltered(last) == LET Newer(f) == f.seq > last IN SelectSeq(ring, Newer)

\* The voice room's frames after last, from the ring or else the table.
VoiceSince(last) ==
    LET rows == RowsSince(last, {2}, ColdCap + 1)
        Voice(f) == f.channelID = 2
    IN  IF Covers(ring, last) THEN SelectSeq(EventsSince(ring, last, {2}, {2}), Voice)
        ELSE IF Len(rows) <= ColdCap THEN SelectSeq(rows, Voice) ELSE <<>>

\* liveVoiceEventsSince, after registration and outside seqMu.
liveVoiceEventsSince(s) ==
    /\ hs[s].pc = "supplement"
    /\ hs' = [hs EXCEPT ![s] = [@ EXCEPT !.pc = "write", !.replay = @ \o VoiceSince(cli[s].lastSeq)]]
    /\ UNCHANGED <<hubVars, owed, conn, cli, shed, scene>>

\* Mutant: the client does not compare cseq.
ReceivedDeaf(c, f, skip) == [c EXCEPT !.lastSeq = Max2(@, f.seq), !.have = @ \cup {f.data}]

\* What the client does with a frame: it acks the highest seq, applies the
\* event, and a pending cseq skip shows on a sequenced frame.
Received(c, f, skip) ==
    [c EXCEPT !.lastSeq = Max2(@, f.seq), !.have = @ \cup {f.data}, !.gap = @ \/ (skip /\ f.seq > 0)]

\* reconnectWriteReplay, one frame: written, or withheld because its content
\* gate could not be read (replayFrameAllowed).
reconnectWriteReplay(s, withhold) ==
    LET f == Head(hs[s].replay) IN
    /\ hs[s].pc = "write" /\ hs[s].replay # <<>>
    /\ withhold => scene.gateMayFail /\ f.contentBearing
    /\ hs' = [hs EXCEPT ![s].replay = Tail(@)]
    /\ conn' = [conn EXCEPT ![s].loss = withhold]
    /\ owed' = [owed EXCEPT ![s] = @ \/ withhold]
    /\ cli' = IF withhold THEN cli ELSE [cli EXCEPT ![s] = Received(@, f, conn[s].loss)]
    /\ UNCHANGED <<hubVars, shed, scene>>

startPumps(s) ==
    /\ hs[s].pc = "write" /\ hs[s].replay = <<>>
    /\ hs' = [hs EXCEPT ![s] = [NoHandshake EXCEPT !.pc = "live"]]
    /\ UNCHANGED <<hubVars, owed, conn, cli, shed, scene>>

-----------------------------------------------------------------------------
(* Full ready: handleFreshConnect.                                           *)

\* registerNow outside seqMu: the session's old connection is stripped ...
registerStrip(s) ==
    /\ hs[s].pc = "strip"
    /\ conn' = [conn EXCEPT ![s] = NoConn]
    /\ hs' = [hs EXCEPT ![s] = [NoHandshake EXCEPT !.pc = "subscribe"]]
    /\ UNCHANGED <<hubVars, owed, cli, shed, scene>>

\* ... and the new one subscribed; the channel hint counts only with a last_seq.
registerSubscribe(s) ==
    /\ hs[s].pc = "subscribe"
    /\ conn' = [conn EXCEPT ![s] = [NoConn EXCEPT !.reg = "cur",
                                    !.sub = cli[s].follow /\ cli[s].lastSeq > 0]]
    /\ hs' = [hs EXCEPT ![s].pc = "authok"]
    /\ UNCHANGED <<hubVars, owed, cli, shed, scene>>

\* auth_ok with replay_source "none": the client forgets its last_seq.
freshAuthOk(s) ==
    /\ hs[s].pc = "authok"
    /\ hs' = [hs EXCEPT ![s].pc = "owed"]
    /\ cli' = [cli EXCEPT ![s].lastSeq = 0]
    /\ UNCHANGED <<hubVars, owed, conn, shed, scene>>

\* takeOwedResync: first the user's mark ...
takeOwed(s) ==
    /\ hs[s].pc = "owed"
    /\ hs' = [hs EXCEPT ![s] = [@ EXCEPT !.pc = "loss", !.took = owed[s]]]
    /\ owed' = [owed EXCEPT ![s] = FALSE]
    /\ UNCHANGED <<hubVars, conn, cli, shed, scene>>

\* ... then the connection's pending cseq skip.
takeLoss(s) ==
    /\ hs[s].pc = "loss"
    /\ hs' = [hs EXCEPT ![s].pc = "build"]
    /\ conn' = [conn EXCEPT ![s].loss = FALSE]
    /\ UNCHANGED <<hubVars, owed, cli, shed, scene>>

\* buildFreshReady reads the committed state.
buildReady(s) ==
    /\ hs[s].pc = "build"
    /\ hs' = [hs EXCEPT ![s] = [@ EXCEPT !.pc = "ready", !.snap = Ids]]
    /\ UNCHANGED <<hubVars, owed, conn, cli, shed, scene>>

\* sendFreshReady: the client replaces its state; without a restored channel
\* subscription it has yet to focus the channel again.
sendReady(s) ==
    /\ hs[s].pc = "ready"
    /\ hs' = [hs EXCEPT ![s] = [NoHandshake EXCEPT !.pc = "live"]]
    /\ cli' = [cli EXCEPT ![s] = [@ EXCEPT !.have = hs[s].snap, !.follow = conn[s].sub]]
    /\ UNCHANGED <<hubVars, owed, conn, shed, scene>>

\* auth_ok and ready were accepted by the socket and never arrived: the owed
\* resync is spent, the client still holds its old last_seq.
handshakeVanishes(s) ==
    /\ scene.lossyHandshake /\ hs[s].pc = "authok" /\ scene.disc > 0
    /\ hs' = [hs EXCEPT ![s] = NoHandshake]
    /\ owed' = [owed EXCEPT ![s] = FALSE]
    /\ conn' = [conn EXCEPT ![s].reg = "stale"]
    /\ scene' = [scene EXCEPT !.disc = @ - 1]
    /\ UNCHANGED <<hubVars, cli, shed>>

-----------------------------------------------------------------------------
(* The running connection.                                                   *)

\* writePump sends the queue's head.
writePump(s) ==
    LET f == Head(conn[s].sendQ) IN
    /\ hs[s].pc = "live" /\ conn[s].sendQ # <<>>
    /\ conn' = [conn EXCEPT ![s] = [@ EXCEPT !.sendQ = Tail(@), !.loss = @ /\ f.seq = 0]]
    /\ cli' = [cli EXCEPT ![s] = Received(@, f, conn[s].loss)]
    /\ UNCHANGED <<hubVars, owed, hs, shed, scene>>

\* The socket is gone; the server learns of it in readPump's teardown.  A ready
\* that could not be written restores the owed resync it took.
Drop(s) ==
    /\ hs' = [hs EXCEPT ![s] = NoHandshake]
    /\ conn' = [conn EXCEPT ![s].reg = IF @ = "none" THEN "none" ELSE "stale"]
    /\ owed' = [owed EXCEPT ![s] = @ \/ hs[s].took]
    /\ UNCHANGED <<hubVars, cli, shed>>

disconnect(s) ==
    /\ hs[s].pc # "down" /\ scene.disc > 0
    /\ Drop(s)
    /\ scene' = [scene EXCEPT !.disc = @ - 1]

\* A closed send queue is drained and then ends the connection.
drainAndClose(s) ==
    /\ hs[s].pc = "live" /\ conn[s].closed /\ conn[s].sendQ = <<>>
    /\ Drop(s) /\ UNCHANGED scene

\* The client saw a cseq gap and redials (resumeForGap).
resumeForGap(s) ==
    /\ hs[s].pc \in {"write", "live"} /\ cli[s].gap
    /\ Drop(s) /\ UNCHANGED scene

\* readPump's teardown removes the dead connection, unless a new one replaced it.
teardown(s) ==
    /\ conn[s].reg = "stale"
    /\ conn' = [conn EXCEPT ![s] = NoConn]
    /\ UNCHANGED <<hubVars, owed, hs, cli, shed, scene>>

\* channel_focus and the history fetch that goes with it.
channelFocus(s) ==
    /\ hs[s].pc = "live" /\ ~cli[s].follow /\ ~conn[s].closed
    /\ conn' = [conn EXCEPT ![s].sub = TRUE]
    /\ cli' = [cli EXCEPT ![s] = [@ EXCEPT !.follow = TRUE,
                                  !.have = @ \cup {id \in Ids : ev[id] = "chat"}]]
    /\ UNCHANGED <<hubVars, owed, hs, shed, scene>>

\* The counter after a boot: the reserved floor is above every seq handed out.
BootSeq == seq + Jump

\* The process restarts: memory is lost, the table and the clients' state are
\* not.  seedHubReplayState reserves fresh seq space and, when it finds rows,
\* moves the watermark up to it.
restart ==
    /\ scene.restart > 0
    /\ seq' = BootSeq
    /\ visW' \in IF store = <<>> THEN {0} ELSE {0, BootSeq}
    /\ ring' = <<>> /\ bq' = <<>> /\ lane' = <<>> /\ covered' = 0 /\ drain' = [n |-> 0, ok |-> TRUE]
    /\ dropping' = {} /\ noted' = {} /\ routes' = {} /\ unsettled' = FALSE
    /\ fan' = <<>> /\ pendQ' = <<>>
    /\ owed' = [s \in Sessions |-> FALSE]
    /\ conn' = [s \in Sessions |-> NoConn]
    /\ hs' = [s \in Sessions |-> NoHandshake]
    /\ scene' = [scene EXCEPT !.restart = @ - 1]
    /\ UNCHANGED <<ev, store, cli, shed>>

-----------------------------------------------------------------------------
Handshake(s) ==
    \/ selectRing(s) \/ coldQuery(s) \/ coldOldest(s) \/ coldCount(s) \/ coldTail(s)
    \/ reconnectRegister(s) \/ liveVoiceEventsSince(s) \/ startPumps(s)
    \/ registerStrip(s) \/ registerSubscribe(s) \/ freshAuthOk(s)
    \/ takeOwed(s) \/ takeLoss(s) \/ buildReady(s) \/ sendReady(s)

Dispatcher ==
    \/ dispatch
    \/ \E ok \in BOOLEAN : onGateResolved(ok)
    \/ \E isShed \in BOOLEAN : drainLane(isShed)

Accounting == \E id \in Ids : noteDropRoute(id) \/ countDrop(id)

Fanout == \E id \in Ids : endTargetedFanout(id) \/ \E s \in Sessions : visitFanout(id, s)

Next ==
    \/ \E k \in Kinds : enqueue(k)
    \/ sendSequencedToUsers
    \/ beginTargetedFanout
    \/ Dispatcher \/ Accounting \/ Fanout
    \/ \E lost \in BOOLEAN : persist(lost)
    \/ \E i \in 1..MaxEvents : prune(i)
    \/ \E s \in Sessions :
          \/ reconnectPrecheck(s) \/ Handshake(s)
          \/ \E withhold \in BOOLEAN : reconnectWriteReplay(s, withhold)
          \/ handshakeVanishes(s)
          \/ writePump(s) \/ drainAndClose(s) \/ resumeForGap(s) \/ teardown(s) \/ channelFocus(s)
          \/ disconnect(s)
    \/ restart

Spec == Init /\ [][Next]_vars

\* The goroutines keep running, producers finish their calls and the client
\* redials, resumes after a gap and focuses its channel; nothing obliges an
\* event to be produced, a socket to fail or a row to be written.
Connection(s) ==
    \/ reconnectPrecheck(s) \/ Handshake(s) \/ writePump(s) \/ drainAndClose(s)
    \/ \E withhold \in BOOLEAN : reconnectWriteReplay(s, withhold)

Fairness ==
    /\ WF_vars(Dispatcher) /\ WF_vars(Accounting) /\ WF_vars(Fanout)
    /\ \A s \in AllSessions :
          /\ WF_vars(s \in Sessions /\ Connection(s))
          /\ WF_vars(s \in Sessions /\ resumeForGap(s)) /\ WF_vars(s \in Sessions /\ channelFocus(s))

FairSpec == Spec /\ Fairness

-----------------------------------------------------------------------------
TypeOK ==
    /\ scene \in Scene /\ ev \in Seq(Kinds) /\ Len(ev) <= scene.events
    /\ seq \in Nat /\ visW \in 0..seq
    /\ Len(ring) <= RingSize /\ ToSet(ring) \cup ToSet(pendQ) \cup ToSet(store) \subseteq Entry
    /\ Len(bq) <= QCap /\ Len(lane) <= QCap
    /\ covered \in 0..Len(lane) /\ drain.n \in 0..covered
    /\ dropping \cup noted \subseteq Ids /\ routes \subseteq Ids \cup {0}
    /\ DOMAIN fan \subseteq Ids /\ \A id \in DOMAIN fan : fan[id] \subseteq Sessions
    /\ \A s \in Sessions :
          /\ conn[s].reg \in {"none", "stale", "cur"}
          /\ hs[s].pc \in {"down"} \cup Fresh \cup Resuming \cup Attached
          /\ cli[s].lastSeq \in 0..seq /\ cli[s].have \subseteq Ids
          /\ hs[s].pc \in Attached \cup (Fresh \ {"strip", "subscribe"}) => conn[s].reg = "cur"

\* Events whose delivery is over: not waiting anywhere in the hub and, for a
\* dropped one, its audience marked.
Settled(s) ==
    {id \in Ids : /\ id \notin ToSet(bq) \cup ToSet(lane) \cup dropping \cup noted \cup routes
                  /\ id \in DOMAIN fan => s \notin fan[id]
                  /\ 0 \notin routes}

\* Events the client must end up with: channel frames only while it follows the
\* channel; voice frames outside the allowed set are replayed on a best effort.
Entitled(s) == {id \in Ids : ev[id] # "voice" /\ (ev[id] = "chat" => cli[s].follow)}

Waiting(s) == {f.data : f \in ToSet(hs[s].replay) \cup ToSet(conn[s].sendQ)}

Missing(s) == (Settled(s) \cap Entitled(s)) \ (cli[s].have \cup Waiting(s))

Signalled(s) == owed[s] /\ (conn[s].loss \/ cli[s].gap)

\* Delivery guarantee, up to the topic limiter: a connected client has, or has
\* waiting on its socket, every event addressed to it; if one was lost the
\* session is owed a full ready and the socket's next sequenced frame shows a
\* cseq gap, or the client has already seen one.
DeliveryGuarantee ==
    \A s \in Sessions :
        hs[s].pc \in Attached /\ ~conn[s].closed => Missing(s) \subseteq shed[s] \/ Signalled(s)

\* The guarantee of docs/protocol.md as written: a frame dropped before it was
\* sequenced, the limiter's included, is signalled to each connected recipient.
ProtocolGuarantee ==
    \A s \in Sessions :
        hs[s].pc \in Attached /\ ~conn[s].closed => Missing(s) = {} \/ Signalled(s)

\* One FIFO per client for sequenced frames: nothing written by the handshake,
\* the voice supplement's own frames apart, carries a higher seq than a frame
\* waiting in the send queue.
NoOvertaking ==
    \A s \in Sessions : \A f \in ToSet(hs[s].replay), g \in ToSet(conn[s].sendQ) :
        g.seq > 0 /\ f.channelID # 2 => f.seq <= g.seq

\* Every session converges: from some point on its client is connected and has
\* every event addressed to it, or a loss stands marked on its socket, or a
\* queue drop waits for the next dispatch, which is when a loss is shown.
Converged(s) ==
    /\ hs[s].pc = "live" /\ ~conn[s].closed /\ cli[s].follow
    /\ Entitled(s) \subseteq cli[s].have \cup shed[s] \/ (owed[s] /\ conn[s].loss) \/ routes # {}

Convergence == \A s \in AllSessions : <>[](s \in Sessions => Converged(s))
=============================================================================
