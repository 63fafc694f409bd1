------------------------------ MODULE WsClient ------------------------------
(***************************************************************************)
(* The client's connection: the reconnect state machine of lib/ws.ts, the  *)
(* desktop transport under it (platform/desktop/socket.ts) and the native   *)
(* proxy that owns the socket (src-tauri/src/ws_proxy.rs).                  *)
(*                                                                          *)
(* c is the closure state of createWsClient and createSocketConnection;     *)
(* each function of those files is an operator from such a record to the    *)
(* next one, composed as the code composes its calls.  The host runs in     *)
(* parallel: its events carry no connection id, so what a late event of an  *)
(* old socket does to a newer attempt is decided by the listeners alone.    *)
(*                                                                          *)
(* Time is abstracted: a pending timer may fire at any moment, and "slept"  *)
(* says that the clock has jumped past WAKE_GAP_MS since lastActivityAt.    *)
(***************************************************************************)
EXTENDS Naturals, Sequences, FiniteSets

CONSTANTS MaxGen,    \* bound: transport generations (dials and disconnects)
          MaxEvents, \* bound: faults, user actions and server refusals
          MaxFrames, \* bound: live frames the server numbers per socket
          Drained    \* a superseded socket stops reading before the next handshake ends

ASSUME WsBounds == MaxGen \in Nat \ {0} /\ MaxEvents \in Nat /\ MaxFrames \in Nat /\ Drained \in BOOLEAN

VARIABLES c,      \* the client: ws.ts and socket.ts closure variables
          owner,  \* the proxy's generation: the attempt that claimed it, or 0
          sock,   \* per attempt: the native socket's life
          srv,    \* per attempt: how far the server is with it
          sent,   \* per attempt: the last cseq the server used
          woke,   \* history: a suspend the next automatic dial must report
          events  \* environment events so far

host == <<owner, sock, srv, sent>>
vars == <<c, owner, sock, srv, sent, woke, events>>

Gens == 1..MaxGen
States == {"disconnected", "connecting", "authenticating", "connected", "reconnecting"}
Phases == {"none", "apis", "listen", "registered", "invoked", "rejected", "done"}

InitClient ==
  [state |-> "disconnected", config |-> FALSE, intentionalClose |-> FALSE,
   certBlock |-> FALSE, pendingWake |-> FALSE, proxyOpen |-> FALSE,
   reconnectTimer |-> FALSE, heartbeat |-> FALSE, liveness |-> FALSE,
   ping |-> "none", wakeOwner |-> FALSE, slept |-> FALSE, beatGap |-> FALSE,
   restart |-> FALSE, busyHint |-> FALSE, busyHold |-> FALSE,
   socketId |-> 0, lastCseq |-> 0, gapTimer |-> 0,
   gen |-> 0, tgen |-> 0, att |-> [g \in Gens |-> "none"],
   cmds |-> <<>>, closing |-> {}, keyWait |-> {}]

-----------------------------------------------------------------------------
(* ws.ts: the functions on the closure state.                              *)

\* suspendGapExceeded() followed by "pendingWake = true", as every caller uses it.
NoteSuspend(s) == [s EXCEPT !.pendingWake = @ \/ s.slept, !.slept = FALSE]

\* armLiveness(): every parsed frame clears the unanswered ping.
ArmLiveness(s) == [s EXCEPT !.ping = "none", !.liveness = TRUE]

\* onWake(): ping now; only the deadline gets shorter.
OnWake(s) ==
  IF s.state # "connected" \/ ~s.proxyOpen THEN s
  ELSE [s EXCEPT !.ping = IF @ = "none" THEN "young" ELSE @, !.liveness = TRUE]

\* Mutant: every connect drops the wake marker, not only a takeover.
ConnectForgets(s, takeover) ==
  [s EXCEPT !.gen = @ + 1, !.config = TRUE, !.intentionalClose = FALSE,
            !.pendingWake = FALSE, !.slept = FALSE, !.certBlock = FALSE,
            !.reconnectTimer = FALSE, !.gapTimer = 0, !.liveness = FALSE,
            !.state = "connecting",
            !.tgen = @ + 1, !.att[s.tgen + 1] = "apis"]

\* connect() up to its await: ws.ts resets the attempt's state and socket.ts,
\* called in the same turn, takes a generation and starts loading its APIs.
Connect(s, takeover) ==
  [s EXCEPT !.gen = @ + 1, !.config = TRUE, !.intentionalClose = FALSE,
            !.pendingWake = @ /\ ~takeover, !.slept = FALSE, !.certBlock = FALSE,
            !.restart = FALSE, !.busyHint = FALSE, !.busyHold = FALSE,
            !.reconnectTimer = FALSE, !.gapTimer = 0, !.liveness = FALSE,
            !.state = "connecting",
            !.tgen = @ + 1, !.att[s.tgen + 1] = "apis"]

\* redial(): the backoff timer's callback and a wake signal's early redial.
Redial(s) ==
  LET noted == NoteSuspend([s EXCEPT !.reconnectTimer = FALSE])
  IN IF s.config THEN Connect(noted, FALSE)
     ELSE [noted EXCEPT !.state = "disconnected"]

ScheduleReconnect(s) ==
  LET noted == NoteSuspend(s)
  IN IF s.intentionalClose \/ s.certBlock \/ ~s.config THEN s
     ELSE IF s.reconnectTimer THEN noted
     ELSE [noted EXCEPT !.busyHold = s.busyHint, !.busyHint = FALSE,
                        !.state = "reconnecting", !.reconnectTimer = TRUE]

\* Mutant: the transport's listeners keep their generation.
DisconnectProxyKeeps(s) ==
  [s EXCEPT !.cmds = Append(@, [op |-> "disconnect", g |-> s.gen]),
            !.closing = @ \union {s.gen}]

\* disconnectProxy() up to its await: socket.ts bumps its generation, which
\* turns every listener off, and hands the host a ws_disconnect.
DisconnectProxy(s) ==
  [s EXCEPT !.tgen = @ + 1, !.cmds = Append(@, [op |-> "disconnect", g |-> s.gen]),
            !.closing = @ \union {s.gen}]

Disconnect(s) ==
  DisconnectProxy(
    [s EXCEPT !.gen = @ + 1, !.intentionalClose = TRUE, !.certBlock = FALSE,
              !.pendingWake = FALSE, !.restart = FALSE, !.busyHint = FALSE,
              !.busyHold = FALSE, !.reconnectTimer = FALSE, !.gapTimer = 0,
              !.heartbeat = FALSE, !.liveness = FALSE, !.wakeOwner = FALSE,
              !.proxyOpen = FALSE, !.state = "disconnected", !.config = FALSE])

\* noteCseq(): one gap resume per socket, owned by the socket that saw the gap.
NoteCseq(s, cseq) ==
  [s EXCEPT !.lastCseq = cseq,
            !.gapTimer = IF cseq = s.lastCseq + 1 \/ @ # 0 THEN @ ELSE s.socketId]

ResumeForGap(s) ==
  IF s.intentionalClose \/ s.certBlock \/ ~s.config \/ s.state # "connected" \/ ~s.proxyOpen
  THEN s
  ELSE Redial([s EXCEPT !.proxyOpen = FALSE, !.heartbeat = FALSE, !.liveness = FALSE,
                        !.reconnectTimer = FALSE, !.state = "reconnecting"])

-----------------------------------------------------------------------------
(* ws.ts: what a transport report does.                                    *)

\* handleMessage() on a parsed frame: kind is its type (or, for the two error
\* codes that steer the connection, the code); cseq is 0 when it carries none.
HandleMessage(s, kind, cseq) ==
  LET alive   == NoteSuspend(ArmLiveness(s))
      counted == IF cseq = 0 THEN alive ELSE NoteCseq(alive, cseq)
  IN CASE kind = "auth_error" ->
            [DisconnectProxy([counted EXCEPT !.intentionalClose = TRUE])
               EXCEPT !.state = "disconnected"]
       [] kind = "SERVER_BUSY" -> [counted EXCEPT !.busyHint = TRUE]
       [] kind = "server_restart" -> [counted EXCEPT !.restart = TRUE]
       [] kind = "SESSION_REPLACED" -> Disconnect(counted)
       [] kind = "auth_ok" ->
            [ArmLiveness(counted)
               EXCEPT !.state = "connected", !.pendingWake = FALSE,
                      !.heartbeat = TRUE, !.beatGap = FALSE, !.wakeOwner = TRUE]
       [] OTHER -> counted

\* Mutant: a new socket goes on with the old one's count.
HandleOpenCounting(s) ==
  [s EXCEPT !.proxyOpen = TRUE, !.socketId = @ + 1, !.gapTimer = 0,
            !.state = "authenticating",
            !.keyWait = @ \union {[socket |-> s.socketId + 1, gen |-> s.gen,
                                   dial |-> s.tgen, wake |-> s.pendingWake]}]

\* handleTransportState("connected"): the auth frame is built now, sent when the
\* identity key lookup settles.
HandleOpen(s) ==
  LET open == [s EXCEPT !.proxyOpen = TRUE, !.socketId = @ + 1, !.lastCseq = 0,
                        !.gapTimer = 0, !.state = "authenticating"]
  IN IF ~s.config THEN open
     ELSE [open EXCEPT !.keyWait = @ \union
             {[socket |-> open.socketId, gen |-> s.gen, dial |-> s.tgen,
              wake |-> s.pendingWake]}]

\* handleTransportState("disconnected").
HandleClosed(s) ==
  LET closed == [s EXCEPT !.proxyOpen = FALSE, !.gapTimer = 0, !.heartbeat = FALSE,
                          !.liveness = FALSE,
                          !.wakeOwner = @ /\ ~s.intentionalClose /\ ~s.certBlock]
  IN IF s.intentionalClose THEN [closed EXCEPT !.state = "disconnected"]
     ELSE ScheduleReconnect(closed)

\* Mutant: the latch leaves an armed reconnect running.
HandleCertMismatchArmed(s) ==
  IF ~s.config THEN s
  ELSE [s EXCEPT !.certBlock = TRUE, !.wakeOwner = FALSE, !.state = "disconnected"]

\* handleCertMismatch() for this connection's own host.
HandleCertMismatch(s) ==
  IF ~s.config THEN s
  ELSE [s EXCEPT !.certBlock = TRUE, !.wakeOwner = FALSE, !.reconnectTimer = FALSE,
                 !.state = "disconnected"]

-----------------------------------------------------------------------------
(* socket.ts: connect() after each await, and what the listeners let in.    *)

\* A native event reaches ws.ts only through a listener that is registered and
\* whose generation is still the transport's.
Listening(s) == s.tgen \in Gens /\ s.att[s.tgen] \in {"registered", "invoked", "rejected", "done"}

Delivered(s, handled) == IF Listening(s) THEN handled ELSE s

\* The promise connect() waits on settles: a superseded attempt stops there.
Resume(g) ==
  /\ UNCHANGED <<host, woke, events>>
  /\ \/ /\ c.att[g] = "apis"
        /\ c' = [c EXCEPT !.att[g] = IF g = c.tgen THEN "listen" ELSE "done"]
     \/ /\ c.att[g] = "listen"
        /\ c' = [c EXCEPT !.att[g] = "registered"]
     \/ /\ c.att[g] = "registered"
        /\ c' = IF g # c.tgen THEN [c EXCEPT !.att[g] = "done"]
                ELSE [c EXCEPT !.att[g] = "invoked",
                               !.cmds = Append(@, [op |-> "connect", g |-> g])]
     \/ /\ c.att[g] = "rejected"
        /\ LET settled == [c EXCEPT !.att[g] = "done"]
           IN c' = IF g = c.tgen THEN HandleClosed(settled) ELSE settled

\* Mutant: whoever owns the proxy by now, it is marked closed.
ProxyClosedAny(g) ==
  /\ g \in c.closing
  /\ [op |-> "disconnect", g |-> g] \notin {c.cmds[i] : i \in DOMAIN c.cmds}
  /\ c' = [c EXCEPT !.closing = @ \ {g}, !.proxyOpen = FALSE]
  /\ UNCHANGED <<host, woke, events>>

\* disconnectProxy() after its await.
ProxyClosed(g) ==
  /\ g \in c.closing
  /\ [op |-> "disconnect", g |-> g] \notin {c.cmds[i] : i \in DOMAIN c.cmds}
  /\ c' = [c EXCEPT !.closing = @ \ {g}, !.proxyOpen = @ /\ g # c.gen]
  /\ UNCHANGED <<host, woke, events>>

-----------------------------------------------------------------------------
(* ws_proxy.rs: commands run in the order they were invoked (a ws_connect   *)
(* follows an earlier ws_disconnect by at least one IPC round trip).        *)

\* Mutant: ws_disconnect drops the sender without claiming the generation.
HostCommandNoClaim ==
  /\ c.cmds # <<>>
  /\ LET cmd == Head(c.cmds)
     IN IF cmd.op = "connect"
        THEN owner' = cmd.g /\ sock' = [sock EXCEPT ![cmd.g] = "dialing"]
        ELSE UNCHANGED <<owner, sock>>
  /\ c' = [c EXCEPT !.cmds = Tail(@)]
  /\ UNCHANGED <<srv, sent, woke, events>>

\* begin_connection(): drop the sender and claim the generation.
HostCommand ==
  /\ c.cmds # <<>>
  /\ LET cmd == Head(c.cmds)
     IN IF cmd.op = "connect"
        THEN owner' = cmd.g /\ sock' = [sock EXCEPT ![cmd.g] = "dialing"]
        ELSE owner' = 0 /\ UNCHANGED sock
  /\ c' = [c EXCEPT !.cmds = Tail(@)]
  /\ UNCHANGED <<srv, sent, woke, events>>

Reject(s, g) == [s EXCEPT !.att[g] = "rejected"]

\* install_sender(): a superseded handshake is dropped and rejects; the current
\* one is announced at once (no await lies between the two).
HostOpen(g) ==
  /\ sock[g] = "dialing"
  /\ Drained => \A old \in Gens : sock[old] # "open"
  /\ IF owner = g
     THEN /\ sock' = [sock EXCEPT ![g] = "open"]
          /\ LET resolved == [c EXCEPT !.att[g] = "done"]
             IN c' = Delivered(resolved, HandleOpen(resolved))
     ELSE sock' = [sock EXCEPT ![g] = "gone"] /\ c' = Reject(c, g)
  /\ UNCHANGED <<owner, srv, sent, woke, events>>

\* The dial fails, or its certificate is refused: a changed one is announced
\* (cert-tofu reaches the app-lifetime listener) before the command rejects.
HostRefuse(g, mismatch) ==
  /\ sock[g] = "dialing"
  /\ events < MaxEvents
  /\ events' = events + 1
  /\ sock' = [sock EXCEPT ![g] = "gone"]
  /\ c' = Reject(IF mismatch THEN HandleCertMismatch(c) ELSE c, g)
  /\ UNCHANGED <<owner, srv, sent, woke>>

\* The read or the write task finishes: the sender is gone (a newer claim), the
\* server closed, or the network failed.
HostEnd(g) ==
  /\ sock[g] = "open"
  /\ IF owner # g \/ srv[g] = "closing" THEN UNCHANGED events
     ELSE events < MaxEvents /\ events' = events + 1
  /\ sock' = [sock EXCEPT ![g] = "ended"]
  /\ UNCHANGED <<c, owner, srv, sent, woke>>

\* clear_sender_if_current(): only the current claim announces its close.
HostClosed(g) ==
  /\ sock[g] = "ended"
  /\ sock' = [sock EXCEPT ![g] = "gone"]
  /\ c' = IF owner = g THEN Delivered(c, HandleClosed(c)) ELSE c
  /\ UNCHANGED <<owner, srv, sent, woke, events>>

-----------------------------------------------------------------------------
(* ws.ts: timers, the wake probe and the auth frame.                       *)

Room == c.tgen < MaxGen
Event == events < MaxEvents /\ events' = events + 1

\* An automatic dial has to report a suspend that came before it.
AutoDial(next) ==
  /\ c' = next
  /\ woke' = IF next.gen # c.gen /\ woke = "slept" THEN "owed" ELSE woke

ReconnectFires ==
  /\ c.reconnectTimer /\ Room
  /\ AutoDial(Redial(c))
  /\ UNCHANGED <<host, events>>

GapFires ==
  /\ c.gapTimer # 0 /\ Room
  /\ LET fired == [c EXCEPT !.gapTimer = 0]
     IN AutoDial(IF c.gapTimer = c.socketId THEN ResumeForGap(fired) ELSE fired)
  /\ UNCHANGED <<host, events>>

\* onWakeSignal(): "online", or the window becoming visible.
WakeSignal ==
  /\ c.wakeOwner /\ Room
  /\ \/ c.state = "connected" /\ AutoDial(OnWake(c))
     \/ /\ c.state = "reconnecting" /\ c.reconnectTimer
        /\ ~c.intentionalClose /\ ~c.certBlock /\ c.config
        /\ ~c.restart /\ ~c.busyHold
        /\ AutoDial(Redial([c EXCEPT !.reconnectTimer = FALSE]))
  /\ UNCHANGED <<host, events>>

\* onLivenessDeadline(): a ping younger than its grace only re-arms the timer.
LivenessFires ==
  /\ c.liveness
  /\ LET fired == [c EXCEPT !.liveness = FALSE]
     IN \/ /\ c.intentionalClose \/ ~c.proxyOpen \/ c.state # "connected"
           /\ c' = fired
        \/ /\ ~c.intentionalClose /\ c.proxyOpen /\ c.state = "connected" /\ c.ping = "old"
           /\ c' = ScheduleReconnect([fired EXCEPT !.proxyOpen = FALSE, !.heartbeat = FALSE])
  /\ UNCHANGED <<host, woke, events>>

\* The heartbeat interval: handleWakeSignal() reads the gap since the last beat.
HeartbeatTick ==
  /\ c.heartbeat
  /\ LET seen == [c EXCEPT !.slept = FALSE, !.beatGap = FALSE]
     IN c' = IF c.beatGap THEN OnWake([seen EXCEPT !.pendingWake = TRUE])
             ELSE IF c.proxyOpen /\ c.ping = "none" THEN [seen EXCEPT !.ping = "young"]
             ELSE seen
  /\ UNCHANGED <<host, woke, events>>

\* Mutant: the attempt is not asked whether it still owns the socket.
KeySettlesAny(k) ==
  /\ k \in c.keyWait
  /\ c' = [c EXCEPT !.keyWait = @ \ {k}]
  /\ IF c.proxyOpen /\ owner \in Gens /\ sock[owner] = "open"
     THEN srv' = [srv EXCEPT ![owner] = IF @ = "idle" THEN "auth" ELSE @]
     ELSE UNCHANGED srv
  /\ UNCHANGED <<owner, sock, sent, woke, events>>

\* The identity key lookup settles: a stale frame is dropped, a current one is
\* handed to whatever sender the proxy holds.
KeySettles(k) ==
  /\ k \in c.keyWait
  /\ c' = [c EXCEPT !.keyWait = @ \ {k}]
  /\ IF /\ k.socket = c.socketId /\ k.gen = c.gen /\ c.proxyOpen
        /\ owner \in Gens /\ sock[owner] = "open"
     THEN srv' = [srv EXCEPT ![owner] = IF @ = "idle" THEN "auth" ELSE @]
     ELSE UNCHANGED srv
  /\ UNCHANGED <<owner, sock, sent, woke, events>>

-----------------------------------------------------------------------------
(* The server, the user and the machine (external).                        *)

Receive(g, kind, cseq) ==
  /\ sock[g] = "open"
  /\ c' = Delivered(c, HandleMessage(c, kind, cseq))
  /\ woke' = IF Listening(c) /\ kind \in {"auth_ok", "SESSION_REPLACED"} THEN "no" ELSE woke

ServerAccepts(g) ==
  /\ srv[g] = "auth" /\ srv' = [srv EXCEPT ![g] = "ok"]
  /\ Receive(g, "auth_ok", 0)
  /\ UNCHANGED <<owner, sock, sent, events>>

\* The server refuses the auth frame, or ends an accepted session, and closes.
ServerEnds(g, kind) ==
  /\ Event /\ Room
  /\ \/ srv[g] = "auth" /\ kind \in {"auth_error", "SERVER_BUSY"}
     \/ srv[g] \in {"ok", "lossy"} /\ kind \in {"server_restart", "SESSION_REPLACED"}
  /\ srv' = [srv EXCEPT ![g] = "closing"]
  /\ Receive(g, kind, 0)
  /\ UNCHANGED <<owner, sock, sent>>

\* A numbered frame; lost is the one before it, shed by the server.
ServerFrame(g, lost) ==
  /\ srv[g] \in {"ok", "lossy"} /\ sent[g] + lost < MaxFrames
  /\ sent' = [sent EXCEPT ![g] = @ + 1 + lost]
  /\ Receive(g, "frame", sent'[g])
  /\ IF lost = 0 THEN UNCHANGED <<srv, events>>
     ELSE Event /\ srv' = [srv EXCEPT ![g] = "lossy"]
  /\ UNCHANGED <<owner, sock>>

ServerPong(g) ==
  /\ srv[g] \in {"ok", "lossy"} /\ owner = g /\ c.ping # "none"
  /\ Receive(g, "pong", 0)
  /\ UNCHANGED <<host, events>>

\* No frame for the whole pong grace.
Silence ==
  /\ c.ping = "young" /\ Event
  /\ c' = [c EXCEPT !.ping = "old"]
  /\ UNCHANGED <<host, woke>>

\* The machine sleeps past WAKE_GAP_MS.
Sleep ==
  /\ Event
  /\ c' = [c EXCEPT !.slept = TRUE, !.beatGap = c.heartbeat]
  /\ woke' = IF c.config /\ woke = "no" THEN "slept" ELSE woke
  /\ UNCHANGED host

\* startSession(), the banner's Retry and "Use here", a certificate re-dial.
UserConnect(takeover) ==
  /\ Event /\ Room
  /\ c.state # "connected"
  /\ c' = Connect(c, takeover)
  /\ woke' = IF takeover \/ woke = "slept" THEN "no" ELSE woke
  /\ UNCHANGED host

UserDisconnect ==
  /\ Event /\ Room
  /\ c.config
  /\ c' = Disconnect(c)
  /\ woke' = "no"
  /\ UNCHANGED host

\* A tunneled REST request of this host meets a changed certificate.
RestCertMismatch ==
  /\ Event
  /\ c' = HandleCertMismatch(c)
  /\ UNCHANGED <<host, woke>>

-----------------------------------------------------------------------------
Init ==
  /\ c = InitClient
  /\ owner = 0
  /\ sock = [g \in Gens |-> "none"]
  /\ srv = [g \in Gens |-> "idle"]
  /\ sent = [g \in Gens |-> 0]
  /\ woke = "no"
  /\ events = 0

Host(g) == HostOpen(g) \/ HostEnd(g) \/ HostClosed(g)
Timers == ReconnectFires \/ GapFires \/ LivenessFires

Next ==
  \/ HostCommand \/ Timers \/ WakeSignal \/ HeartbeatTick
  \/ \E k \in c.keyWait : KeySettles(k)
  \/ \E g \in Gens :
       \/ Resume(g) \/ ProxyClosed(g) \/ Host(g) \/ ServerAccepts(g) \/ ServerPong(g)
       \/ \E mismatch \in BOOLEAN : HostRefuse(g, mismatch)
       \/ \E lost \in 0..1 : ServerFrame(g, lost)
       \/ \E kind \in {"auth_error", "SERVER_BUSY", "server_restart", "SESSION_REPLACED"} :
            ServerEnds(g, kind)
  \/ Silence \/ Sleep \/ UserDisconnect \/ RestCertMismatch
  \/ \E takeover \in BOOLEAN : UserConnect(takeover)

Spec == Init /\ [][Next]_vars

\* Timers fire, awaited promises settle, the host's tasks run, and a server that
\* got the auth frame on an open socket answers it.
Fairness ==
  /\ WF_vars(HostCommand) /\ WF_vars(ReconnectFires) /\ WF_vars(GapFires)
  /\ WF_vars(LivenessFires)
  /\ WF_vars(\E k \in c.keyWait : KeySettles(k))
  /\ \A g \in Gens :
       /\ WF_vars(Resume(g)) /\ WF_vars(ProxyClosed(g)) /\ WF_vars(HostOpen(g)) /\ WF_vars(HostClosed(g))
       /\ WF_vars(HostEnd(g) /\ UNCHANGED events) /\ WF_vars(ServerAccepts(g))

FairSpec == Spec /\ Fairness

-----------------------------------------------------------------------------
(* Type invariant: every field holds a value of its declared kind.         *)
TypeOK ==
  /\ c.state \in States
  /\ {c.config, c.intentionalClose, c.certBlock, c.pendingWake, c.proxyOpen,
      c.reconnectTimer, c.heartbeat, c.liveness, c.wakeOwner, c.slept, c.beatGap,
      c.restart, c.busyHint, c.busyHold} \subseteq BOOLEAN
  /\ c.ping \in {"none", "young", "old"}
  /\ {c.gen, c.tgen} \subseteq 0..MaxGen
  /\ c.att \in [Gens -> Phases]
  /\ owner \in 0..MaxGen
  /\ sock \in [Gens -> {"none", "dialing", "open", "ended", "gone"}]
  /\ srv \in [Gens -> {"idle", "auth", "ok", "lossy", "closing"}]
  /\ sent \in [Gens -> 0..MaxFrames]
  /\ woke \in {"no", "slept", "owed"}
  /\ events \in 0..MaxEvents

(* disconnect() is final (ws.ts 994-1025): until the next connect(), whatever
   attempt was suspended and whatever the host still emits, the client stays
   disconnected with every timer, probe and listener off. *)
DisconnectFinal ==
  ~c.config =>
    /\ c.state = "disconnected" /\ ~c.proxyOpen
    /\ ~c.reconnectTimer /\ c.gapTimer = 0 /\ ~c.heartbeat /\ ~c.liveness
    /\ ~c.wakeOwner /\ ~Listening(c)

Blocked == c.intentionalClose \/ c.certBlock \/ ~c.config
Wanted == ~Blocked

(* The loop never dials past a close it would not retry (ws.ts 360-364,
   742-745): a dial nobody asked for starts only while neither disconnect() nor a
   certificate latch stands. *)
NoDialWhileBlocked ==
  [][c'.gen > c.gen /\ c'.config /\ events' = events => c.config /\ ~c.certBlock]_vars

(* A suspend is reported (ws.ts 185-203): an automatic dial begun after the
   machine slept carries the wake marker in its auth frame, through every failed
   attempt, until auth_ok, a takeover or disconnect(). *)
WakeCarried ==
  woke = "owed" =>
    /\ c.pendingWake
    /\ \A k \in c.keyWait : k.gen = c.gen /\ k.socket = c.socketId => k.wake

(* A stale auth frame is dropped (ws.ts 815-822): a socket is never sent a frame
   that an earlier attempt built, with that attempt's resume point and marker,
   however late its identity key arrives. *)
StaleAuthDropped ==
  [][\A g \in Gens : srv[g] = "idle" /\ srv'[g] = "auth" =>
       \A k \in c.keyWait \ c'.keyWait : k.dial >= g]_vars

(* No traffic nobody wants: neither an automatic dial past a deliberate close nor
   an auth frame of an earlier attempt. *)
NoUnwantedTraffic == NoDialWhileBlocked /\ StaleAuthDropped

(* A loss is noticed (ws.ts 649-671): while the client is connected on a socket
   on which the server skipped a numbered frame, a gap resume is pending.  The
   count restarts with each socket, so no earlier socket's number hides the loss. *)
LossNoticed ==
  /\ c.state = "connected" /\ c.proxyOpen
  /\ owner \in Gens /\ owner = c.tgen /\ sock[owner] = "open" /\ srv[owner] = "lossy"
  => c.gapTimer = c.socketId \/ c.certBlock

Live ==
  /\ c.state = "connected" /\ c.proxyOpen
  /\ owner \in Gens /\ owner = c.tgen /\ sock[owner] = "open" /\ srv[owner] = "ok"

(* Once the faults stop, a wanted connection ends up live and stays so: no race
   of a stale close, a gap resume, the silence deadline and a dial leaves the
   client stranded, redialling forever, or on a socket that lost a frame.  (~Room:
   the instance has used up its generations.) *)
EventuallyLive == <>[](Blocked \/ Live \/ ~Room)

(* After disconnect() the host ends up holding no socket: an attempt that was in
   flight is superseded and its socket dropped (ws_proxy.rs 524-542). *)
SocketReleased == <>[](c.config \/ \A g \in Gens : sock[g] \in {"none", "gone"})

(* Client and host settle on one answer: a wanted connection is live, an unwanted
   one holds no socket. *)
ConnectionSettles == EventuallyLive /\ SocketReleased

=============================================================================
