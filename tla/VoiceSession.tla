---------------------------- MODULE VoiceSession ----------------------------
(***************************************************************************)
(* One device's voice call: the store the interface shows (stores/         *)
(* voice.store.ts), the LiveKit session behind it (features/voice/         *)
(* voiceSession.ts, joinOrchestration.ts, roomLifecycle.ts), the loop that *)
(* brings a dropped room back (lib/voice/livekitReconnect.ts), and the     *)
(* frames that pass between them and the server (features/voice/           *)
(* wsHandlers.ts).  A join is a chain of awaits.  While it waits, the user *)
(* may leave or switch, the server may move or evict the member, the room  *)
(* or the chat socket may drop, and a newer join may take the session.     *)
(*                                                                         *)
(* `c' is everything the one JavaScript thread owns; every action on it is *)
(* one uninterrupted run up to the next await.  `joins' holds the calls of *)
(* handleVoiceToken in flight, each inside one connectAndSetup, `loops'    *)
(* the calls of attemptAutoReconnect.  `srv', `down' and `hubq' are the    *)
(* server: its membership row, the frames on their way to the device, and  *)
(* the broadcasts still in the hub's queue.                                *)
(*                                                                         *)
(* Some orders of events the code does not sort out.  `Races',             *)
(* `LosesIntent' and LoopGivesUp name them one by one, `raced' remembers   *)
(* that one of them happened, and NoHiddenCall, Agreement and JoinEnds     *)
(* speak of every other behaviour.                                         *)
(*                                                                         *)
(* Bounds: MaxActs user, moderator and refresh steps; MaxFaults refusals,  *)
(* failures, timeouts and drops; Retries connects of one attempt; MaxLoops *)
(* reconnect loops in memory, the superseded ones included.                *)
(***************************************************************************)
EXTENDS Integers, Sequences, FiniteSets, SequencesExt

CONSTANTS Channels,    \* voice channels, positive numbers
          Retries,     \* MAX_RETRIES of connectAndSetup
          MaxActs, MaxFaults, MaxLoops

VARIABLES c, joins, loops, srv, down, hubq, budget,
          raced        \* history: one of the races of `Races' has happened

vars == <<c, joins, loops, srv, down, hubq, budget, raced>>

None == 0

NoTok == [ch |-> None, n |-> 0, id |-> 0]

Frame(t, ch, n, id) == [t |-> t, ch |-> ch, n |-> n, id |-> id]

----------------------------------------------------------------------------
(* The session state.  joinGeneration belongs to "connecting", the room to *)
(* "connected" (with the join it was admitted for), the abort controller   *)
(* to "reconnecting".                                                      *)

Idle == [type |-> "idle", gen |-> 0, pend |-> NoTok, room |-> None, n |-> 0,
         ch |-> None, tok |-> NoTok, ac |-> 0]

Connecting(g) == [Idle EXCEPT !.type = "connecting", !.gen = g]

Connected(room, tok) ==
    [Idle EXCEPT !.type = "connected", !.room = room, !.ch = tok.ch,
                 !.n = tok.n, !.tok = tok]

InitClient ==
    [st |-> Idle, ids |-> 0, open |-> {}, mods |-> None, cut |-> FALSE,
     cur |-> None, status |-> "idle", rows |-> {},
     owed |-> FALSE, owedCh |-> None, pendId |-> 0,
     ws |-> "up", up |-> <<>>]

\* ws.send: a frame for a socket that is down is dropped.
Send(k, f) == IF k.ws = "up" THEN [k EXCEPT !.up = Append(@, f)] ELSE k

JoinVoiceChannel(k, ch) ==
    IF k.cur = ch THEN k ELSE [k EXCEPT !.cur = ch, !.status = "joining"]

LeaveVoiceChannel(k) ==
    [k EXCEPT !.rows = @ \ {k.cur}, !.cur = None, !.status = "idle"]

NoteVoiceLeave(k) == [k EXCEPT !.owed = TRUE, !.owedCh = k.cur]

ClearOwedLeave(k) == [k EXCEPT !.owed = FALSE, !.owedCh = None]

SettleVoiceLeave(k, ch) ==
    IF k.owed /\ k.owedCh = ch THEN ClearOwedLeave(k) ELSE k

\* voice_join with a fresh envelope id, which noteJoinSent records; `user' is 1
\* for the user's own click (user_initiated).
SendJoin(k, ch, user) ==
    ClearOwedLeave([Send(k, Frame("join", ch, user, k.ids + 1))
                        EXCEPT !.ids = k.ids + 1, !.pendId = k.ids + 1])

\* setRoom of the audio and device modules from the state's own room.
SyncModuleRooms(k) == [k EXCEPT !.mods = k.st.room]

Release(k, room) == [k EXCEPT !.open = @ \ {room}]

\* leaveVoice(false): the room goes, the reconnect is aborted, state is idle.
LeaveVoice(k) ==
    SyncModuleRooms([Release(k, k.st.room) EXCEPT
        !.st = Idle, !.status = "idle", !.cut = FALSE])

\* leaveVoice(true): the server is told, and the leave is owed.
LeaveVoiceTold(k) ==
    LeaveVoice(Send(NoteVoiceLeave(k), Frame("leave", None, 0, 0)))

\* Rooms, join generations and abort controllers are told apart by identity
\* alone: a new one is a number that nothing alive refers to.
Fresh(used) ==
    CHOOSE i \in 1..(Cardinality(used) + 1) : i \notin used /\ 1..(i - 1) \subseteq used

NewRoom(k) ==
    Fresh(k.open \cup {k.st.room, k.mods}
            \cup {t.room : t \in joins} \cup {l.room : l \in loops})

NewGen(k) == Fresh({k.st.gen} \cup {t.gen : t \in joins})

NewController(k) ==
    Fresh({k.st.ac} \cup {l.ac : l \in loops}
            \cup {f.id : f \in {g \in Range(k.up \o down) : g.t \in {"ping", "pong"}}})

----------------------------------------------------------------------------
(* connectAndSetup.  An attempt owns the session while the state is        *)
(* "connecting" with its generation; after each await it looks again.      *)

Owns(k, t) == k.st.type = "connecting" /\ k.st.gen = t.gen

IsStateConnected(k, t) == k.st.type = "connected" /\ k.st.room = t.room

\* Up to the first await, which creates the room.
Begin(k, tok) ==
    LET k1 == IF k.st.room # None \/ k.st.type = "reconnecting"
              THEN LeaveVoice(k) ELSE k
        gen == NewGen(k1)
        room == NewRoom(k1)
    IN  [k |-> [k1 EXCEPT !.st = Connecting(gen), !.status = "joining",
                          !.open = @ \cup {room}],
         t |-> [pc |-> "create", gen |-> gen, room |-> room, tok |-> tok, try |-> 1]]

\* The attempt ends (its finally block), and handleVoiceToken drains the
\* join queued meanwhile, if there is one.
Finish(k, t) ==
    LET k1 == IF Owns(k, t) /\ k.st.pend = NoTok
              THEN [k EXCEPT !.st = Idle] ELSE k
        next == Begin([k1 EXCEPT !.st.pend = NoTok], k1.st.pend)
    IN  IF k1.st.pend = NoTok
        THEN c' = k1 /\ joins' = joins \ {t}
        ELSE c' = next.k /\ joins' = (joins \ {t}) \cup {next.t}

Goes(k, t, u) == c' = k /\ joins' = (joins \ {t}) \cup {u}

\* Mutant: the room of a superseded attempt is forgotten, not released.
DisconnectSupersededLeaks(k, room) ==
    IF k.st.type = "idle" THEN SyncModuleRooms(k) ELSE k

\* disconnectSupersededLocalRoom: only the attempt's own room is touched.
DisconnectSuperseded(k, room) ==
    LET k1 == Release(k, room)
    IN  IF k1.st.type = "idle" THEN SyncModuleRooms(k1) ELSE k1

\* Mutant: the call is given up without telling the server.
GiveUpSilent(k, t) ==
    IF Owns(k, t) /\ k.st.pend = NoTok
    THEN LeaveVoiceChannel(LeaveVoice(k)) ELSE k

\* A failure of an attempt that still owns the session gives the call up,
\* unless a newer join is queued for the drain.
GiveUp(k, t) ==
    IF Owns(k, t) /\ k.st.pend = NoTok
    THEN LeaveVoiceChannel(LeaveVoiceTold(k)) ELSE k

Environment == <<srv, down, hubq, raced>>

Fault == budget.faults > 0 /\ budget' = [budget EXCEPT !.faults = @ - 1]

NoFault == UNCHANGED budget

RoomCreated(t) ==
    /\ t.pc = "create"
    /\ IF Owns(c, t)
       THEN Goes([c EXCEPT !.mods = t.room], t,
                 [t EXCEPT !.pc = IF t.try = 1 THEN "resolve" ELSE "connect"])
       ELSE Finish(DisconnectSuperseded(c, t.room), t)
    /\ NoFault /\ UNCHANGED <<loops, Environment>>

UrlResolved(t) ==
    /\ t.pc = "resolve"
    /\ \/ /\ NoFault
          /\ IF Owns(c, t)
             THEN Goes([c EXCEPT !.status = "securing"], t, [t EXCEPT !.pc = "keys"])
             ELSE Finish(DisconnectSuperseded(c, t.room), t)
       \/ Fault /\ Finish(GiveUp(Release(c, t.room), t), t)
    /\ UNCHANGED <<loops, Environment>>

\* The wait for the room key also ends when a leave clears the E2EE state.
KeysEnd(t) ==
    /\ t.pc = "keys"
    /\ \/ NoFault /\ Goes(c, t, [t EXCEPT !.pc = "connect"])
       \/ /\ ~Owns(c, t) /\ NoFault
          /\ Finish(DisconnectSuperseded(c, t.room), t)
       \/ Owns(c, t) /\ Fault /\ Finish(GiveUp(Release(c, t.room), t), t)
    /\ UNCHANGED <<loops, Environment>>

ConnectOk(t) ==
    /\ t.pc = "connect"
    /\ IF ~Owns(c, t) THEN Finish(DisconnectSuperseded(c, t.room), t)
       ELSE IF c.st.pend \notin {NoTok, t.tok}
       THEN Finish([Release(c, t.room) EXCEPT !.mods = None], t)
       ELSE Goes([c EXCEPT !.st = Connected(t.room, t.tok), !.status = "connected"],
                 t, [t EXCEPT !.pc = "tail"])
    /\ NoFault /\ UNCHANGED <<loops, Environment>>

\* A failed connect closes its room; the last one gives the attempt up.
ConnectFails(t) ==
    /\ t.pc = "connect" /\ Fault
    /\ IF t.try < Retries
       THEN Goes(Release(c, t.room), t, [t EXCEPT !.pc = "backoff"])
       ELSE Finish(GiveUp(Release(c, t.room), t), t)
    /\ UNCHANGED <<loops, Environment>>

BackoffEnds(t) ==
    /\ t.pc = "backoff"
    /\ IF Owns(c, t)
       THEN Goes([c EXCEPT !.open = @ \cup {NewRoom(c)}], t,
                 [t EXCEPT !.pc = "create", !.room = NewRoom(c), !.try = @ + 1])
       ELSE Finish(DisconnectSuperseded(c, t.room), t)
    /\ NoFault /\ UNCHANGED <<loops, Environment>>

\* The device switches and the microphone restore after "connected".
TailEnds(t) ==
    /\ t.pc = "tail"
    /\ Finish(IF IsStateConnected(c, t) THEN c
              ELSE DisconnectSuperseded(c, t.room), t)
    /\ NoFault /\ UNCHANGED <<loops, Environment>>

JoinStep(t) ==
    \/ RoomCreated(t) \/ UrlResolved(t) \/ KeysEnd(t) \/ ConnectOk(t)
    \/ ConnectFails(t) \/ BackoffEnds(t) \/ TailEnds(t)

\* Mutant: a token starts a call whatever channel the store shows.
HandleVoiceTokenAny(k, tok) ==
    LET first == Begin(k, tok)
    IN  IF k.st.type \in {"connected", "reconnecting"} /\ k.st.ch = tok.ch
        THEN c' = [k EXCEPT !.st.tok = tok] /\ UNCHANGED joins
        ELSE IF k.st.type = "connecting"
        THEN c' = [k EXCEPT !.st.pend = tok] /\ UNCHANGED joins
        ELSE c' = first.k /\ joins' = joins \cup {first.t}

\* handleVoiceToken, up to its first await.
HandleVoiceToken(k, tok) ==
    LET first == Begin(k, tok)
    IN  IF k.st.type \in {"connected", "reconnecting"} /\ k.st.ch = tok.ch
        THEN c' = [k EXCEPT !.st.tok = tok] /\ UNCHANGED joins
        ELSE IF k.st.type = "connecting"
        THEN c' = [k EXCEPT !.st.pend = tok] /\ UNCHANGED joins
        ELSE IF k.cur # tok.ch
        THEN c' = k /\ UNCHANGED joins
        ELSE c' = first.k /\ joins' = joins \cup {first.t}

----------------------------------------------------------------------------
(* attemptAutoReconnect.  A loop owns the session while the state is       *)
(* "reconnecting" with its abort controller.                               *)

Superseded(k, l) == k.st.type # "reconnecting" \/ k.st.ac # l.ac

LoopGoes(k, l, m) == c' = k /\ loops' = (loops \ {l}) \cup {m}

LoopEnds(k, l) == c' = k /\ loops' = loops \ {l}

\* abandonRoomAndReconnect: the room is dropped, the loop starts.
Abandon(k) ==
    LET ac == NewController(k)
    IN  /\ c' = [Release(k, k.st.room) EXCEPT
                    !.mods = None, !.cut = FALSE, !.status = "reconnecting",
                    !.st = [@ EXCEPT !.type = "reconnecting", !.room = None, !.n = 0,
                                     !.ac = ac]]
        /\ loops' = loops \cup {[pc |-> "delay", ac |-> ac, room |-> None,
                                 tok |-> k.st.tok]}

\* The delay is over.  The roster is asked for (a ping) only on a live chat
\* socket; without one this attempt waits for the next.
DelayEnds(l) ==
    /\ l.pc = "delay"
    /\ \/ Superseded(c, l) /\ LoopEnds(c, l)
       \/ /\ ~Superseded(c, l) /\ c.ws = "up"
          /\ LoopGoes(Send(c, Frame("ping", None, 0, l.ac)), l, [l EXCEPT !.pc = "ping"])
    /\ NoFault /\ UNCHANGED <<joins, Environment>>

\* The retry time is over.  With the chat socket down the leave is neither sent
\* nor owed, and a resume may give the membership back.
LoopGivesUp(l) ==
    /\ l.pc = "delay" /\ ~Superseded(c, l) /\ Fault
    /\ LoopEnds(LeaveVoiceChannel(IF c.ws = "up" THEN LeaveVoiceTold(c)
                                  ELSE LeaveVoice(c)), l)
    /\ raced' = (raced \/ c.ws = "down")
    /\ UNCHANGED <<joins, srv, down, hubq>>

\* The wait for the pong ends with the abort of the loop.
PingAborted(l) ==
    /\ l.pc = "ping" /\ Superseded(c, l) /\ LoopEnds(c, l)
    /\ NoFault /\ UNCHANGED <<joins, Environment>>

\* rejoinVoice: the server let the membership go, so ask for a new one.
RejoinVoice(k, ch) == SendJoin([LeaveVoice(k) EXCEPT !.status = "joining"], ch, 0)

\* The pong: the roster is current.
Pong(l) ==
    IF Superseded(c, l) THEN LoopEnds(c, l)
    ELSE IF c.st.ch \in c.rows
    THEN LoopGoes([c EXCEPT !.open = @ \cup {NewRoom(c)}], l,
                  [l EXCEPT !.pc = "create", !.room = NewRoom(c), !.tok = c.st.tok])
    ELSE LoopEnds(RejoinVoice(c, c.st.ch), l)

\* A superseded attempt releases its room, and once that is done re-syncs the
\* modules, unless a newer attempt is wiring them.
Aborts(l) == LoopGoes(Release(c, l.room), l, [l EXCEPT !.pc = "cleanup"])

\* Mutant: the modules are re-synced whoever is wiring them.
SyncAlways(k, l) == SyncModuleRooms(k)

SyncUnlessOwned(k, l) ==
    IF ~Superseded(k, l) \/ k.st.type \in {"idle", "connected"}
    THEN SyncModuleRooms(k) ELSE k

CleanupEnds(l) ==
    /\ l.pc = "cleanup" /\ LoopEnds(SyncUnlessOwned(c, l), l)
    /\ NoFault /\ UNCHANGED <<joins, Environment>>

LoopCreated(l) ==
    /\ l.pc = "create"
    /\ IF Superseded(c, l) THEN Aborts(l)
       ELSE LoopGoes([c EXCEPT !.mods = l.room], l, [l EXCEPT !.pc = "resolve"])
    /\ NoFault /\ UNCHANGED <<joins, Environment>>

\* The address and the new key announcement, each followed by the same check.
LoopResolved(l) ==
    /\ l.pc = "resolve"
    /\ IF Superseded(c, l) THEN Aborts(l) ELSE LoopGoes(c, l, [l EXCEPT !.pc = "connect"])
    /\ NoFault /\ UNCHANGED <<joins, Environment>>

LoopConnects(l) ==
    /\ l.pc = "connect"
    /\ IF Superseded(c, l) THEN Aborts(l)
       ELSE LoopGoes([c EXCEPT !.st = Connected(l.room, l.tok), !.status = "connected"],
                     l, [l EXCEPT !.pc = "tail"])
    /\ NoFault /\ UNCHANGED <<joins, Environment>>

LoopFails(l) ==
    /\ l.pc \in {"resolve", "connect"} /\ Fault
    /\ LoopGoes(SyncUnlessOwned(Release(c, l.room), l), l,
                [l EXCEPT !.pc = "delay", !.room = None])
    /\ UNCHANGED <<joins, Environment>>

LoopTailEnds(l) ==
    /\ l.pc = "tail"
    /\ LoopEnds(IF IsStateConnected(c, l) THEN c ELSE DisconnectSuperseded(c, l.room), l)
    /\ NoFault /\ UNCHANGED <<joins, Environment>>

LoopStep(l) ==
    \/ DelayEnds(l) \/ LoopGivesUp(l) \/ PingAborted(l) \/ CleanupEnds(l)
    \/ LoopCreated(l) \/ LoopResolved(l) \/ LoopConnects(l) \/ LoopFails(l)
    \/ LoopTailEnds(l)

----------------------------------------------------------------------------
(* The user and the room.                                                  *)

Act == budget.acts > 0 /\ budget' = [budget EXCEPT !.acts = @ - 1]

\* No frame is on its way, and no attempt or reconnect is running.
Settled == c.up = <<>> /\ down = <<>> /\ hubq = <<>> /\ joins = {} /\ loops = {}

OnVoiceJoin(ch) ==
    /\ Act
    /\ c.ws = "up" /\ c.cur # ch
    /\ c' = SendJoin(JoinVoiceChannel(c, ch), ch, 1)
    /\ UNCHANGED <<joins, loops, Environment>>

OnVoiceLeave ==
    /\ Act
    /\ c.cur # None
    /\ c' = Send(LeaveVoiceChannel(NoteVoiceLeave(LeaveVoice(c))), Frame("leave", None, 0, 0))
    /\ UNCHANGED <<joins, loops, Environment>>

\* The routine voice_token_refresh of a session.
RequestRefresh ==
    /\ Act
    /\ c.ws = "up" /\ c.st.type \in {"connected", "reconnecting"}
    /\ c' = Send(c, Frame("refresh", None, 0, 0))
    /\ UNCHANGED <<joins, loops, Environment>>

\* handleDisconnected on the session's room: a network loss, or the SFU ends a
\* participant whose join is no longer the server's.
Stale == c.st.type = "connected" /\ (srv.mem = None \/ c.st.n # srv.n)

RoomDisconnected ==
    /\ c.st.type = "connected" /\ Cardinality(loops) < MaxLoops
    /\ \/ Stale /\ NoFault
       \/ ~Stale /\ Fault
    /\ Abandon(c)
    /\ UNCHANGED <<joins, Environment>>

\* The SDK resumes a cut signal socket by itself, or stalls past its budget.
SdkReconnecting ==
    /\ c.st.type = "connected" /\ c.status = "connected" /\ Fault
    /\ c' = [c EXCEPT !.status = "reconnecting", !.cut = TRUE]
    /\ UNCHANGED <<joins, loops, Environment>>

SdkReconnected ==
    /\ c.cut
    /\ c' = [c EXCEPT !.cut = FALSE,
                      !.status = IF @ = "reconnecting" THEN "connected" ELSE @]
    /\ NoFault /\ UNCHANGED <<joins, loops, Environment>>

StallFires ==
    /\ c.cut /\ Abandon(c)
    /\ NoFault /\ UNCHANGED <<joins, Environment>>

----------------------------------------------------------------------------
(* The frames of the server.                                               *)

HandleVoiceState(k, ch) ==
    LET k1 == [k EXCEPT !.rows = @ \cup {ch}]
    IN  IF k.status = "idle" THEN k1 ELSE JoinVoiceChannel(k1, ch)

HandleVoiceLeave(k, ch) ==
    LET k1 == SettleVoiceLeave([k EXCEPT !.rows = @ \ {ch}], ch)
        loopMayOwn == k.status = "reconnecting"
        k2 == IF loopMayOwn THEN k1 ELSE LeaveVoiceChannel(k1)
        k3 == LeaveVoice(k2)
    IN  IF k.cur # ch THEN k1
        ELSE IF k.st.type = "reconnecting" THEN k2
        ELSE IF loopMayOwn THEN LeaveVoiceChannel(k3) ELSE k3

HandleVoiceMoved(k, ch) ==
    SendJoin(JoinVoiceChannel(LeaveVoiceChannel(LeaveVoice(k)), ch), ch, 0)

HandleVoiceDisconnected(k, ch) ==
    IF k.cur \notin {None, ch} THEN k ELSE LeaveVoice(LeaveVoiceChannel(k))

\* The store is cleared first; the session's teardown follows in a microtask.
HandleVoiceJoinRollback(k, id) ==
    IF k.status # "joining" \/ id # k.pendId THEN k
    ELSE LET k1 == LeaveVoiceChannel([k EXCEPT !.pendId = 0])
         IN  IF k.st.type = "idle" THEN k1 ELSE LeaveVoiceTold(k1)

\* The voice slice of ready: the roster is replaced, and a device in a call
\* takes the channel of its own row.
HandleReady(k, mem) ==
    [k EXCEPT !.rows = {mem} \ {None},
              !.cur = IF k.status # "idle" /\ mem # None THEN mem ELSE @]

\* A join of ch, or its answer, is between this device and the server.
JoinInFlight(ch) ==
    \/ \E i \in DOMAIN c.up : c.up[i].t = "join" /\ c.up[i].ch = ch
    \/ \E i \in DOMAIN down :
           \/ down[i].t = "token" /\ down[i].ch = ch
           \/ down[i].t = "error" /\ down[i].id = c.pendId

\* The races this handling does not resolve, as a frame arrives: the end of an
\* earlier membership of a channel joined again since; the refusal of a switch
\* whose badge the outgoing attempt has overwritten; the token or voice_state of
\* a join that a newer one replaced, or an older row in ready; the end of a
\* membership while the reconnect loop runs under another badge; the roster that
\* lets the loop rejoin its channel after the user picked another.
Races(f) ==
    \/ /\ f.t \in {"left", "kicked"} /\ f.ch = c.cur
       /\ srv.mem = f.ch \/ JoinInFlight(f.ch)
    \/ f.t = "error" /\ f.id = c.pendId /\ c.status \notin {"idle", "joining"}
    \/ f.t = "token" /\ c.st.type # "connecting" /\ c.cur \notin {None, f.ch}
    \/ f.t \in {"state", "ready"} /\ c.status # "idle" /\ f.ch \notin {None, c.cur}
    \/ f.t = "left" /\ f.ch = c.cur /\ c.st.type = "reconnecting" /\ c.status # "reconnecting"
    \/ f.t = "pong" /\ c.st.type = "reconnecting" /\ c.cur # c.st.ch

Receive ==
    /\ c.ws = "up" /\ down # <<>>
    /\ LET f == Head(down)
       IN  \/ /\ f.t = "token"
              /\ HandleVoiceToken(c, [ch |-> f.ch, n |-> f.n, id |-> f.id])
              /\ UNCHANGED loops
           \/ /\ f.t = "pong"
              /\ IF \E l \in loops : l.pc = "ping" /\ l.ac = f.id
                 THEN \E l \in loops : l.pc = "ping" /\ l.ac = f.id /\ Pong(l)
                 ELSE UNCHANGED <<c, loops>>
              /\ UNCHANGED joins
           \/ /\ f.t \notin {"token", "pong"}
              /\ c' = CASE f.t = "state"  -> HandleVoiceState(c, f.ch)
                         [] f.t = "left"   -> HandleVoiceLeave(c, f.ch)
                         [] f.t = "moved"  -> HandleVoiceMoved(c, f.ch)
                         [] f.t = "kicked" -> HandleVoiceDisconnected(c, f.ch)
                         [] f.t = "error"  -> HandleVoiceJoinRollback(c, f.id)
                         [] f.t = "ready"  -> HandleReady(c, f.ch)
              /\ UNCHANGED <<joins, loops>>
    /\ down' = Tail(down)
    /\ raced' = (raced \/ Races(Head(down)))
    /\ UNCHANGED <<srv, hubq, budget>>

----------------------------------------------------------------------------
(* The server, from the frames the client reads: one membership row, ended *)
(* by a leave, a switch, a moderator or the grace window.  Its voice_leave *)
(* goes through the hub's queue; the other frames are sent directly.       *)

Left(ch) == Append(hubq, Frame("left", ch, 0, 0))

TakesUp == c' = [c EXCEPT !.up = Tail(@)] /\ UNCHANGED <<joins, loops, raced>>

ServerJoins ==
    /\ c.up # <<>> /\ Head(c.up).t = "join" /\ TakesUp
    /\ LET f == Head(c.up)
           blocked == f.n = 0 /\ f.ch = srv.block
           refusal == Append(down, Frame("error", None, 0, f.id))
           left == IF srv.mem = None THEN hubq ELSE Left(srv.mem)
           free == [srv EXCEPT !.block = IF f.n = 1 THEN None ELSE @]
       IN  \/ /\ f.ch = srv.mem \/ blocked
              /\ down' = refusal /\ srv' = free
              /\ NoFault /\ UNCHANGED hubq
           \/ /\ f.ch # srv.mem /\ Fault
              /\ down' = refusal /\ srv' = free /\ UNCHANGED hubq
           \/ /\ f.ch # srv.mem /\ ~blocked /\ srv.mem # None /\ Fault
              /\ down' = refusal /\ srv' = [free EXCEPT !.mem = None] /\ hubq' = left
           \/ /\ f.ch # srv.mem /\ ~blocked /\ NoFault
              /\ srv' = [free EXCEPT !.mem = f.ch, !.n = @ + 1, !.toks = @ + 1]
              /\ down' = down \o <<Frame("token", f.ch, srv.n + 1, srv.toks + 1),
                                   Frame("state", f.ch, 0, 0)>>
              /\ hubq' = left

ServerLeaves ==
    /\ c.up # <<>> /\ Head(c.up).t = "leave" /\ TakesUp
    /\ srv' = [srv EXCEPT !.mem = None]
    /\ hubq' = IF srv.mem = None THEN hubq ELSE Left(srv.mem)
    /\ UNCHANGED <<down, budget>>

ServerAnswers ==
    /\ c.up # <<>> /\ Head(c.up).t \in {"ping", "refresh"} /\ TakesUp
    /\ IF Head(c.up).t = "ping"
       THEN down' = Append(down, Frame("pong", None, 0, Head(c.up).id)) /\ UNCHANGED srv
       ELSE IF srv.mem = None THEN UNCHANGED <<down, srv>>
       ELSE /\ down' = Append(down, Frame("token", srv.mem, srv.n, srv.toks + 1))
            /\ srv' = [srv EXCEPT !.toks = @ + 1]
    /\ UNCHANGED <<hubq, budget>>

HubRuns ==
    /\ hubq # <<>>
    /\ down' = Append(down, Head(hubq)) /\ hubq' = Tail(hubq)
    /\ UNCHANGED <<c, joins, loops, srv, budget, raced>>

\* A moderator's kick or move, or an eviction with no companion frame.
ServerEvicts ==
    /\ c.ws = "up" /\ srv.mem # None /\ Act
    /\ hubq' = Left(srv.mem)
    /\ \/ UNCHANGED down /\ srv' = [srv EXCEPT !.mem = None]
       \/ /\ srv' = [srv EXCEPT !.mem = None, !.block = srv.mem]
          /\ \/ down' = Append(down, Frame("kicked", srv.mem, 0, 0))
             \/ \E ch \in Channels \ {srv.mem} :
                    down' = Append(down, Frame("moved", ch, 0, 0))
    /\ UNCHANGED <<c, joins, loops, raced>>

\* A drop loses the join the badge shows, or a leave already sent again once.
LosesIntent ==
    \/ \E ch \in Channels : JoinInFlight(ch)
    \/ ~c.owed /\ \E i \in DOMAIN c.up : c.up[i].t = "leave"

\* Mutant: the drop does not reject a ping in flight.
DropKeepsPing ==
    /\ c.ws = "up" /\ Fault
    /\ c' = [c EXCEPT !.ws = "down", !.up = <<>>]
    /\ down' = SelectSeq(down, LAMBDA f : f.t \in {"state", "left"})
    /\ raced' = (raced \/ LosesIntent)
    /\ UNCHANGED <<joins, loops, srv, hubq>>

\* The chat socket drops.  Frames in flight are lost, but a sequenced one is
\* replayed on the resume; a ping in flight is rejected, and its loop waits.
Drop ==
    /\ c.ws = "up" /\ Fault
    /\ c' = [c EXCEPT !.ws = "down", !.up = <<>>]
    /\ down' = SelectSeq(down, LAMBDA f : f.t \in {"state", "left"})
    /\ loops' = {[l EXCEPT !.pc = IF @ = "ping" THEN "delay" ELSE @] : l \in loops}
    /\ raced' = (raced \/ LosesIntent)
    /\ UNCHANGED <<joins, srv, hubq>>

GraceExpires ==
    /\ c.ws = "down" /\ srv.mem # None /\ Fault
    /\ srv' = [srv EXCEPT !.mem = None] /\ hubq' = Left(srv.mem)
    /\ UNCHANGED <<c, joins, loops, down, raced>>

\* handleAuthOk sends a leave still owed, once, while no call is held.
HandleAuthOk(k) ==
    LET k1 == ClearOwedLeave(k)
    IN  IF k.owed /\ k.status = "idle" THEN Send(k1, Frame("leave", None, 0, 0)) ELSE k1

\* A resume replays what was missed; a full resync sends ready instead.
Reconnect ==
    /\ c.ws = "down"
    /\ c' = HandleAuthOk([c EXCEPT !.ws = "up"])
    /\ \/ UNCHANGED <<down, hubq>>
       \/ down' = <<Frame("ready", srv.mem, 0, 0)>> /\ UNCHANGED hubq
    /\ UNCHANGED <<joins, loops, srv, budget, raced>>

----------------------------------------------------------------------------
Init ==
    /\ c = InitClient
    /\ joins = {} /\ loops = {}
    /\ srv = [mem |-> None, n |-> 0, toks |-> 0, block |-> None]
    /\ down = <<>> /\ hubq = <<>>
    /\ raced = FALSE
    /\ budget = [acts |-> MaxActs, faults |-> MaxFaults]

JoinSteps == \E t \in joins : JoinStep(t)

LoopSteps == \E l \in loops : LoopStep(l)

ServerSteps == ServerJoins \/ ServerLeaves \/ ServerAnswers

Next ==
    \/ JoinSteps \/ LoopSteps
    \/ \E ch \in Channels : OnVoiceJoin(ch)
    \/ OnVoiceLeave \/ RequestRefresh
    \/ RoomDisconnected \/ SdkReconnecting \/ SdkReconnected \/ StallFires
    \/ Receive \/ ServerSteps \/ HubRuns \/ ServerEvicts
    \/ Drop \/ GraceExpires \/ Reconnect

Spec == Init /\ [][Next]_vars

FairSpec ==
    /\ Spec
    /\ WF_vars(JoinSteps) /\ WF_vars(LoopSteps)
    /\ WF_vars(Receive) /\ WF_vars(ServerSteps) /\ WF_vars(HubRuns)
    /\ WF_vars(Reconnect)
    /\ WF_vars(Stale /\ RoomDisconnected) /\ WF_vars(SdkReconnected \/ StallFires)

----------------------------------------------------------------------------
\* Types, and one attempt per join generation.
TypeOK ==
    /\ c.st.type \in {"idle", "connecting", "connected", "reconnecting"}
    /\ c.cur \in Channels \cup {None}
    /\ c.status \in {"idle", "joining", "securing", "connected", "reconnecting"}
    /\ \A t, u \in joins : t.gen = u.gen => t = u

\* No hot microphone without a call on the screen: while the session connects,
\* is connected or reconnects, the store shows a channel (the checks of
\* handleVoiceToken, handleVoiceJoinRollback and handleVoiceLeave that keep an
\* attempt from running on after its leave).
NoHiddenCall == ~raced /\ c.st.type # "idle" => c.cur # None

\* No LiveKit room leaks: an open room is the session's or that of an attempt
\* still in flight, which releases it (every supersede check of connectAndSetup
\* and attemptAutoReconnect).  It holds in the races too.
RoomsOwned ==
    c.open \subseteq {c.st.room} \cup {t.room : t \in joins} \cup {l.room : l \in loops}

\* The audio and device modules hold the session's own room and never that of a
\* superseded attempt, whose late cleanup must not unwire the newer one
\* (syncModuleRooms and the re-sync of a superseded reconnect).
ModulesFollow ==
    /\ c.st.type = "idle" => c.mods = None
    /\ c.st.type = "connected" => c.mods = c.st.room
    /\ c.st.type = "reconnecting" =>
        c.mods \in {None} \cup {l.room : l \in {m \in loops : m.ac = c.st.ac}}

\* Rooms and the modules that play them follow the session.
RoomsFollow == RoomsOwned /\ ModulesFollow

\* Nothing is on its way and no room is about to be cut.
AtRest == Settled /\ c.ws = "up" /\ ~c.cut /\ ~Stale

\* When all is quiet the store, the LiveKit session and the server name the same
\* channel or all three name none: no ghost member on the server, no call that
\* the user left, whatever joins, leaves, evictions, refusals, connect failures
\* and socket drops came before.
Agreement ==
    AtRest /\ ~raced =>
        \/ c.cur = None /\ c.status = "idle" /\ c.st = Idle /\ srv.mem = None
        \/ /\ c.cur # None /\ c.status = "connected"
           /\ c.st.type = "connected" /\ c.st.ch = c.cur /\ srv.mem = c.cur

\* The badge never hangs: joining, securing or reconnecting ends in a connected
\* or an idle call (the finally of connectAndSetup, the drain of a queued token,
\* and the reconnect loop's own end).
JoinEnds ==
    c.status \in {"joining", "securing", "reconnecting"}
        ~> (raced \/ c.status \in {"connected", "idle"})

=============================================================================
