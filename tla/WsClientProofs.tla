--------------------------- MODULE WsClientProofs ---------------------------
(***************************************************************************)
(* For every bound: a disconnect is final, a suspend is carried to the     *)
(* server, nothing stale or unwanted is dialled or sent, and a frame lost  *)
(* on the client's socket is noticed.                                      *)
(*                                                                          *)
(* The inductive invariant has a part about the client's record alone,      *)
(* Good, which every operator of WsClient preserves, and three that relate  *)
(* it to the host and to the history variable. The frame count has an       *)
(* inductive invariant of its own, LInv, on top of it.                      *)
(***************************************************************************)
EXTENDS WsClient, TLAPS

\* The fields of the client's closure variables.
Fields ==
  {"state", "config", "intentionalClose", "certBlock", "pendingWake", "proxyOpen",
   "reconnectTimer", "heartbeat", "liveness", "ping", "wakeOwner", "slept",
   "beatGap", "restart", "busyHint", "busyHold", "socketId", "lastCseq", "gapTimer",
   "gen", "tgen", "att", "cmds", "closing", "keyWait"}

\* The types the argument needs.
Client(s) ==
  /\ DOMAIN s = Fields
  /\ s.gen \in Nat /\ s.tgen \in Nat
  /\ s.att \in [Gens -> Phases]
  /\ s.cmds \in Seq([op : {"connect", "disconnect"}, g : Nat])
  /\ \A k \in s.keyWait : k.gen \in Nat /\ k.dial \in Nat

\* No attempt has begun under the transport's generation.
Unused(s) == s.tgen \in Gens => s.att[s.tgen] = "none"

\* What a client without a config looks like.
Off(s) ==
  /\ s.state = "disconnected" /\ ~s.proxyOpen
  /\ ~s.reconnectTimer /\ s.gapTimer = 0 /\ ~s.heartbeat /\ ~s.liveness
  /\ ~s.wakeOwner /\ Unused(s)

\* Only attempts that began have a later phase, a command or an auth frame to build.
Good(s) ==
  /\ Client(s)
  /\ ~s.config => Off(s)
  /\ s.certBlock => ~s.reconnectTimer
  /\ \A g \in Gens : g > s.tgen => s.att[g] = "none"
  /\ \A k \in s.keyWait :
       /\ k.gen <= s.gen
       /\ k.gen = s.gen => \A g \in Gens : g > k.dial => s.att[g] = "none"
  /\ \A i \in 1..Len(s.cmds) : s.cmds[i].op = "connect" =>
       s.cmds[i].g \in Gens /\ s.att[s.cmds[i].g] # "none"

HostGood ==
  /\ sock \in [Gens -> {"none", "dialing", "open", "ended", "gone"}]
  /\ srv \in [Gens -> {"idle", "auth", "ok", "lossy", "closing"}]
  /\ events \in Nat
  /\ \A g \in Gens : sock[g] # "none" => c.att[g] # "none"

\* A suspend that no auth frame has reported yet is remembered in the client.
WakeGood(s, k) ==
  /\ k \in {"no", "slept", "owed"}
  /\ k = "slept" => s.slept \/ s.pendingWake
  /\ k = "slept" /\ s.slept /\ s.heartbeat => s.beatGap \/ s.pendingWake
  /\ k = "owed" => s.pendingWake /\ \A w \in s.keyWait : w.gen = s.gen => w.wake

IInv == Good(c) /\ HostGood /\ WakeGood(c, woke)

-----------------------------------------------------------------------------
\* What a step of the client's code that neither dials nor disconnects does to
\* the invariant's parts: its generation stays, attempts that began have begun,
\* a suspend is still remembered.
Keeps(s, n) ==
  /\ Good(n) /\ n.gen = s.gen
  /\ \A g \in Gens : s.att[g] # "none" => n.att[g] # "none"
  /\ \A k \in {"no", "slept", "owed"} : WakeGood(s, k) => WakeGood(n, k)

\* The fields Good speaks of, apart from the flags.
SameCore(s, n) ==
  /\ DOMAIN n = Fields
  /\ n.gen = s.gen /\ n.tgen = s.tgen /\ n.att = s.att
  /\ n.cmds = s.cmds /\ n.keyWait = s.keyWait

WakeKept(s, n) ==
  /\ s.pendingWake => n.pendingWake
  /\ s.slept => n.slept \/ n.pendingWake
  /\ n.slept => s.slept
  /\ n.heartbeat => s.heartbeat
  /\ s.beatGap => n.beatGap

\* Keeps composes, as the handlers call one another in sequence.
LEMMA KeepsTrans ==
  ASSUME NEW s, NEW n, NEW m, Keeps(s, n), Keeps(n, m)
  PROVE  Keeps(s, m)
BY Zenon DEF Keeps

\* An operator that moves only flags keeps the invariant's parts when a client
\* without a config stays off and the certificate latch stops the timer.
LEMMA SameKeeps ==
  ASSUME NEW s, NEW n, Good(s), SameCore(s, n), WakeKept(s, n),
         ~n.config => Off(n), n.certBlock => ~n.reconnectTimer
  PROVE  Keeps(s, n)
<1>1. Client(n)
  BY Zenon DEF Good, Client, SameCore
<1>2. Good(n)
  BY <1>1, Zenon DEF Good, Client, SameCore
<1>3. \A k \in {"no", "slept", "owed"} : WakeGood(s, k) => WakeGood(n, k)
  BY Zenon DEF WakeGood, SameCore, WakeKept
<1>4. QED
  BY <1>2, <1>3, Zenon DEF Keeps, SameCore

\* Noting a suspend moves it from slept to pendingWake, where it is still owed.
LEMMA NoteSuspendKeeps ==
  ASSUME NEW s, Good(s)
  PROVE  Keeps(s, NoteSuspend(s)) /\ NoteSuspend(s).config = s.config
<1> DEFINE n == NoteSuspend(s)
<1>1. SameCore(s, n)
  BY Zenon DEF Good, Client, Fields, NoteSuspend, SameCore
<1>2. WakeKept(s, n)
  BY Zenon DEF Good, Client, Fields, NoteSuspend, WakeKept
<1>3. /\ n.config = s.config /\ n.certBlock = s.certBlock
      /\ n.reconnectTimer = s.reconnectTimer
  BY Zenon DEF Good, Client, Fields, NoteSuspend
<1>4. Off(s) => Off(n)
  BY Zenon DEF Good, Client, Fields, NoteSuspend, Off, Unused
<1> HIDE DEF n
<1>5. Keeps(s, n)
  BY <1>1, <1>2, <1>3, <1>4, SameKeeps, Zenon DEF Good
<1>6. QED
  BY <1>3, <1>5, Zenon DEF n

\* armLiveness() while a config stands.
LEMMA ArmLivenessKeeps ==
  ASSUME NEW s, Good(s), s.config
  PROVE  Keeps(s, ArmLiveness(s)) /\ ArmLiveness(s).config = s.config
<1> DEFINE n == ArmLiveness(s)
<1>1. SameCore(s, n)
  BY Zenon DEF Good, Client, Fields, ArmLiveness, SameCore
<1>2. WakeKept(s, n)
  BY Zenon DEF Good, Client, Fields, ArmLiveness, WakeKept
<1>3. n.config = s.config /\ (n.certBlock => ~n.reconnectTimer)
  BY Zenon DEF Good, Client, Fields, ArmLiveness
<1>4. ~s.config => Off(n)
  BY Zenon DEF Good, Client, Fields, ArmLiveness, Off, Unused
<1> HIDE DEF n
<1>5. Keeps(s, n)
  BY <1>1, <1>2, <1>3, <1>4, SameKeeps, Zenon
<1>6. QED
  BY <1>3, <1>5, Zenon DEF n

\* onWake() pings only on an open connection.
LEMMA OnWakeKeeps ==
  ASSUME NEW s, Good(s)
  PROVE  Keeps(s, OnWake(s)) /\ OnWake(s).config = s.config
<1> DEFINE n == OnWake(s)
<1>1. SameCore(s, n)
  BY Zenon DEF Good, Client, Fields, OnWake, SameCore
<1>2. WakeKept(s, n)
  BY Zenon DEF Good, Client, Fields, OnWake, WakeKept
<1>3. n.config = s.config /\ (n.certBlock => ~n.reconnectTimer)
  BY Zenon DEF Good, Client, Fields, OnWake
<1>4. ~s.config => Off(n)
  BY Zenon DEF Good, Client, Fields, OnWake, Off, Unused
<1> HIDE DEF n
<1>5. Keeps(s, n)
  BY <1>1, <1>2, <1>3, <1>4, SameKeeps, Zenon
<1>6. QED
  BY <1>3, <1>5, Zenon DEF n

\* noteCseq() may arm the gap timer, which only a client with a config has.
LEMMA NoteCseqKeeps ==
  ASSUME NEW s, Good(s), NEW q, s.config
  PROVE  Keeps(s, NoteCseq(s, q)) /\ NoteCseq(s, q).config = s.config
<1> DEFINE n == NoteCseq(s, q)
<1>1. SameCore(s, n)
  BY Zenon DEF Good, Client, Fields, NoteCseq, SameCore
<1>2. WakeKept(s, n)
  BY Zenon DEF Good, Client, Fields, NoteCseq, WakeKept
<1>3. n.config = s.config /\ (n.certBlock => ~n.reconnectTimer)
  BY Zenon DEF Good, Client, Fields, NoteCseq
<1>4. ~s.config => Off(n)
  BY Zenon DEF Good, Client, Fields, NoteCseq, Off, Unused
<1> HIDE DEF n
<1>5. Keeps(s, n)
  BY <1>1, <1>2, <1>3, <1>4, SameKeeps, Zenon
<1>6. QED
  BY <1>3, <1>5, Zenon DEF n

\* handleCertMismatch() latches and clears the reconnect timer in one step.
LEMMA HandleCertMismatchKeeps ==
  ASSUME NEW s, Good(s)
  PROVE  Keeps(s, HandleCertMismatch(s)) /\ HandleCertMismatch(s).config = s.config
<1> DEFINE n == HandleCertMismatch(s)
<1>1. SameCore(s, n)
  BY Zenon DEF Good, Client, Fields, HandleCertMismatch, SameCore
<1>2. WakeKept(s, n)
  BY Zenon DEF Good, Client, Fields, HandleCertMismatch, WakeKept
<1>3. n.config = s.config /\ (n.certBlock => ~n.reconnectTimer)
  BY Zenon DEF Good, Client, Fields, HandleCertMismatch
<1>4. ~s.config => Off(n)
  BY Zenon DEF Good, Client, Fields, HandleCertMismatch, Off, Unused
<1> HIDE DEF n
<1>5. Keeps(s, n)
  BY <1>1, <1>2, <1>3, <1>4, SameKeeps, Zenon
<1>6. QED
  BY <1>3, <1>5, Zenon DEF n

\* connect() starts a fresh generation: no auth frame is being built under it,
\* and a noted suspend survives unless the user takes over.
LEMMA ConnectGood ==
  ASSUME NEW s, Good(s), NEW t \in BOOLEAN, s.tgen < MaxGen
  PROVE  /\ Good(Connect(s, t)) /\ Connect(s, t).config
         /\ Connect(s, t).gen = s.gen + 1
         /\ \A g \in Gens : s.att[g] # "none" => Connect(s, t).att[g] # "none"
         /\ ~Connect(s, t).slept
         /\ s.pendingWake /\ ~t => Connect(s, t).pendingWake
         /\ \A k \in Connect(s, t).keyWait : k.gen # Connect(s, t).gen
<1> DEFINE n == Connect(s, t)
<1>0. s.tgen + 1 \in Gens
  BY WsBounds DEF Good, Client, Gens
<1>1. DOMAIN n = Fields
  BY Zenon DEF Good, Client, Connect
<1>2. /\ n.gen = s.gen + 1 /\ n.tgen = s.tgen + 1
      /\ n.cmds = s.cmds /\ n.keyWait = s.keyWait
  BY Zenon DEF Good, Client, Connect, Fields
<1>3. n.config /\ ~n.certBlock
  BY Zenon DEF Good, Client, Connect, Fields
<1>4. n.att = [s.att EXCEPT ![s.tgen + 1] = "apis"]
  BY Zenon DEF Good, Client, Connect, Fields
<1> HIDE DEF n
<1>5. Client(n)
  BY <1>0, <1>1, <1>2, <1>4 DEF Good, Client, Phases
<1>6. \A g \in Gens : g > n.tgen => n.att[g] = "none"
  BY <1>0, <1>2, <1>4, WsBounds DEF Good, Client, Gens
<1>7. \A k \in n.keyWait : k.gen <= n.gen /\ k.gen # n.gen
  BY <1>2 DEF Good, Client
<1>8. \A i \in 1..Len(n.cmds) : n.cmds[i].op = "connect" =>
        n.cmds[i].g \in Gens /\ n.att[n.cmds[i].g] # "none"
  BY <1>0, <1>2, <1>4 DEF Good, Client
<1>9. Good(n)
  BY <1>3, <1>5, <1>6, <1>7, <1>8, Zenon DEF Good
<1>10. \A g \in Gens : s.att[g] # "none" => n.att[g] # "none"
  BY <1>0, <1>4, Zenon DEF Good, Client
<1>11. ~n.slept /\ (s.pendingWake /\ ~t => n.pendingWake)
  BY Zenon DEF n, Good, Client, Connect, Fields
<1>12. QED
  BY <1>2, <1>3, <1>7, <1>9, <1>10, <1>11, Zenon DEF n

\* Nothing after a bump of the transport's generation belongs to an attempt.
LEMMA BumpGood ==
  ASSUME NEW s, NEW n, Good(s), DOMAIN n = Fields,
         n.gen \in {s.gen, s.gen + 1}, n.tgen = s.tgen + 1, n.att = s.att,
         NEW d \in Nat, n.cmds = Append(s.cmds, [op |-> "disconnect", g |-> d]),
         n.keyWait = s.keyWait,
         ~n.config => n.state = "disconnected" /\ ~n.proxyOpen /\ ~n.reconnectTimer
                        /\ n.gapTimer = 0 /\ ~n.heartbeat /\ ~n.liveness /\ ~n.wakeOwner,
         n.certBlock => ~n.reconnectTimer
  PROVE  Good(n)
<1>1. Client(n)
  BY DEF Good, Client
<1>2. \A g \in Gens : g >= n.tgen => n.att[g] = "none"
  BY WsBounds DEF Good, Client, Gens
<1>3. ~n.config => Off(n)
  BY <1>2, WsBounds DEF Off, Unused, Gens
<1>4. \A g \in Gens : g > n.tgen => n.att[g] = "none"
  BY <1>1, <1>2, WsBounds DEF Client, Gens
<1>5. \A k \in n.keyWait :
        /\ k.gen <= n.gen
        /\ k.gen = n.gen => \A g \in Gens : g > k.dial => n.att[g] = "none"
  BY DEF Good, Client
<1>6. \A i \in 1..Len(n.cmds) : n.cmds[i].op = "connect" =>
        n.cmds[i].g \in Gens /\ n.att[n.cmds[i].g] # "none"
  BY DEF Good, Client
<1>7. QED
  BY <1>1, <1>3, <1>4, <1>5, <1>6, Zenon DEF Good

\* The transport's own disconnect leaves the client's generation alone.
LEMMA ProxyDisconnectKeeps ==
  ASSUME NEW s, Good(s), s.config
  PROVE  Keeps(s, DisconnectProxy(s)) /\ DisconnectProxy(s).config
<1> DEFINE n == DisconnectProxy(s)
<1>1. /\ DOMAIN n = Fields /\ n.gen = s.gen /\ n.tgen = s.tgen + 1 /\ n.att = s.att
      /\ n.cmds = Append(s.cmds, [op |-> "disconnect", g |-> s.gen])
      /\ n.keyWait = s.keyWait
  BY Zenon DEF Good, Client, Fields, DisconnectProxy
<1>2. n.config /\ (n.certBlock => ~n.reconnectTimer)
  BY Zenon DEF Good, Client, Fields, DisconnectProxy
<1>3. /\ n.pendingWake = s.pendingWake /\ n.slept = s.slept
      /\ n.heartbeat = s.heartbeat /\ n.beatGap = s.beatGap
  BY Zenon DEF Good, Client, Fields, DisconnectProxy
<1> HIDE DEF n
<1>4. s.gen \in Nat
  BY Zenon DEF Good, Client
<1>5. Good(n)
  BY <1>1, <1>2, <1>4, BumpGood, Zenon
<1>6. Keeps(s, n)
  BY <1>1, <1>3, <1>5, Zenon DEF Keeps, WakeGood
<1>7. QED
  BY <1>2, <1>6, Zenon DEF n

\* disconnect() leaves the client off, and forgets no attempt.
LEMMA DisconnectGood ==
  ASSUME NEW s, Good(s)
  PROVE  /\ Good(Disconnect(s)) /\ ~Disconnect(s).config
         /\ Disconnect(s).att = s.att
<1> DEFINE n == Disconnect(s)
<1>1. /\ DOMAIN n = Fields /\ n.gen = s.gen + 1 /\ n.tgen = s.tgen + 1 /\ n.att = s.att
      /\ n.cmds = Append(s.cmds, [op |-> "disconnect", g |-> s.gen + 1])
      /\ n.keyWait = s.keyWait
  <2>1. DOMAIN s = Fields
    BY Zenon DEF Good, Client
  <2>2. n.att = s.att /\ n.keyWait = s.keyWait
    BY <2>1, ZenonT(30) DEF Fields, Disconnect, DisconnectProxy
  <2>3. DOMAIN n = Fields
    BY <2>1, Zenon DEF Disconnect, DisconnectProxy
  <2>4. n.gen = s.gen + 1 /\ n.tgen = s.tgen + 1
    BY <2>1, Zenon DEF Fields, Disconnect, DisconnectProxy
  <2>5. n.cmds = Append(s.cmds, [op |-> "disconnect", g |-> s.gen + 1])
    BY <2>1, Zenon DEF Fields, Disconnect, DisconnectProxy
  <2> QED
    BY <2>2, <2>3, <2>4, <2>5, Zenon
<1>2. /\ n.state = "disconnected" /\ ~n.proxyOpen /\ ~n.reconnectTimer
      /\ n.gapTimer = 0 /\ ~n.heartbeat /\ ~n.liveness /\ ~n.wakeOwner
      /\ ~n.config /\ ~n.certBlock
  BY Zenon DEF Good, Client, Fields, Disconnect, DisconnectProxy
<1> HIDE DEF n
<1>3. s.gen + 1 \in Nat
  BY DEF Good, Client
<1>4. Good(n)
  BY <1>1, <1>2, <1>3, BumpGood, Zenon
<1>5. QED
  BY <1>1, <1>2, <1>4, Zenon DEF n

\* scheduleReconnect() arms no timer while a close is deliberate or latched.
LEMMA ScheduleReconnectKeeps ==
  ASSUME NEW s, Good(s)
  PROVE  Keeps(s, ScheduleReconnect(s)) /\ ScheduleReconnect(s).config = s.config
<1> DEFINE n == ScheduleReconnect(s)
<1>1. SameCore(s, n)
  BY Zenon DEF Good, Client, Fields, ScheduleReconnect, NoteSuspend, SameCore
<1>2. WakeKept(s, n)
  BY Zenon DEF Good, Client, Fields, ScheduleReconnect, NoteSuspend, WakeKept
<1>3. n.config = s.config /\ (n.certBlock => ~n.reconnectTimer)
  BY Zenon DEF Good, Client, Fields, ScheduleReconnect, NoteSuspend
<1>4. ~s.config => Off(n)
  BY Zenon DEF Good, ScheduleReconnect
<1> HIDE DEF n
<1>5. Keeps(s, n)
  BY <1>1, <1>2, <1>3, <1>4, SameKeeps, Zenon
<1>6. QED
  BY <1>3, <1>5, Zenon DEF n

\* The handler of a closed socket.
LEMMA HandleClosedKeeps ==
  ASSUME NEW s, Good(s), s.config
  PROVE  Keeps(s, HandleClosed(s))
<1> DEFINE d == [s EXCEPT !.proxyOpen = FALSE, !.gapTimer = 0, !.heartbeat = FALSE,
                          !.liveness = FALSE,
                          !.wakeOwner = @ /\ ~s.intentionalClose /\ ~s.certBlock]
           e == [d EXCEPT !.state = "disconnected"]
<1>1. SameCore(s, d) /\ SameCore(s, e)
  BY Zenon DEF Good, Client, Fields, SameCore
<1>2. WakeKept(s, d) /\ WakeKept(s, e)
  BY Zenon DEF Good, Client, Fields, WakeKept
<1>3. /\ d.config /\ (d.certBlock => ~d.reconnectTimer)
      /\ e.config /\ (e.certBlock => ~e.reconnectTimer)
  BY Zenon DEF Good, Client, Fields
<1>4. HandleClosed(s) = IF s.intentionalClose THEN e ELSE ScheduleReconnect(d)
  BY Zenon DEF HandleClosed
<1> HIDE DEF d, e
<1>5. Keeps(s, d) /\ Keeps(s, e)
  BY <1>1, <1>2, <1>3, SameKeeps, Zenon
<1>6. Keeps(d, ScheduleReconnect(d))
  BY <1>5, ScheduleReconnectKeeps, Zenon DEF Keeps
<1>7. QED
  BY <1>4, <1>5, <1>6, KeepsTrans, Zenon

\* The handler of an opened socket: the frame it starts to build carries a noted
\* suspend and the current dial.
LEMMA HandleOpenKeeps ==
  ASSUME NEW s, Good(s), s.config
  PROVE  Keeps(s, HandleOpen(s))
<1> DEFINE n == HandleOpen(s)
           k == [socket |-> s.socketId + 1, gen |-> s.gen, dial |-> s.tgen,
                 wake |-> s.pendingWake]
<1>1. /\ DOMAIN n = Fields /\ n.gen = s.gen /\ n.tgen = s.tgen /\ n.att = s.att
      /\ n.cmds = s.cmds
  BY Zenon DEF Good, Client, Fields, HandleOpen
<1>2. n.keyWait = s.keyWait \union {k}
  BY Zenon DEF Good, Client, Fields, HandleOpen
<1>3. n.config /\ (n.certBlock => ~n.reconnectTimer)
  BY Zenon DEF Good, Client, Fields, HandleOpen
<1>4. /\ n.pendingWake = s.pendingWake /\ n.slept = s.slept
      /\ n.heartbeat = s.heartbeat /\ n.beatGap = s.beatGap
  BY Zenon DEF Good, Client, Fields, HandleOpen
<1> HIDE DEF n
<1>5. Client(n)
  BY <1>1, <1>2 DEF Good, Client
<1>6. \A j \in n.keyWait :
        /\ j.gen <= n.gen
        /\ j.gen = n.gen => \A g \in Gens : g > j.dial => n.att[g] = "none"
  BY <1>1, <1>2 DEF Good, Client
<1>7. Good(n)
  BY <1>1, <1>3, <1>5, <1>6, ZenonT(30) DEF Good
<1>8. \A w \in {"no", "slept", "owed"} : WakeGood(s, w) => WakeGood(n, w)
  BY <1>1, <1>2, <1>4 DEF WakeGood
<1>9. QED
  BY <1>1, <1>7, <1>8, Zenon DEF Keeps, n

\* What an automatic dial does: a new generation that carries the wake marker.
Dials(s, n) ==
  /\ Good(n) /\ n.config /\ n.gen = s.gen + 1
  /\ \A g \in Gens : s.att[g] # "none" => n.att[g] # "none"
  /\ \A k \in {"no", "slept", "owed"} :
       WakeGood(s, k) => WakeGood(n, IF k = "slept" THEN "owed" ELSE k)

\* An automatic dial: the next generation, with any suspend now pending.
LEMMA RedialDials ==
  ASSUME NEW s, Good(s), s.config, s.tgen < MaxGen
  PROVE  Dials(s, Redial(s))
<1> DEFINE d == [s EXCEPT !.reconnectTimer = FALSE]
           m == NoteSuspend(d)
           n == Connect(m, FALSE)
<1>1. SameCore(s, d) /\ WakeKept(s, d) /\ d.config /\ ~d.reconnectTimer
  BY Zenon DEF Good, Client, Fields, SameCore, WakeKept
<1>2. Redial(s) = n
  BY Zenon DEF Redial
<1>3. (d.slept \/ d.pendingWake) => m.pendingWake
  BY <1>1, Zenon DEF SameCore, Fields, NoteSuspend
<1> HIDE DEF d
<1>4. Keeps(s, d)
  BY <1>1, SameKeeps, Zenon
<1>5. Keeps(d, m) /\ m.config = d.config
  BY <1>4, NoteSuspendKeeps, Zenon DEF Keeps
<1>6. m.tgen = s.tgen
  BY <1>1, Zenon DEF SameCore, Fields, NoteSuspend
<1> HIDE DEF m
<1>7. /\ Good(n) /\ n.config /\ n.gen = m.gen + 1
      /\ \A g \in Gens : m.att[g] # "none" => n.att[g] # "none"
      /\ ~n.slept /\ (m.pendingWake => n.pendingWake)
      /\ \A k \in n.keyWait : k.gen # n.gen
  BY <1>5, <1>6, ConnectGood, Zenon DEF Keeps
<1> HIDE DEF n
<1>8. \A k \in {"no", "slept", "owed"} :
        WakeGood(d, k) => WakeGood(n, IF k = "slept" THEN "owed" ELSE k)
  BY <1>3, <1>7, Zenon DEF WakeGood
<1>9. Dials(s, n)
  BY <1>4, <1>5, <1>7, <1>8, Zenon DEF Keeps, Dials
<1>10. QED
  BY <1>2, <1>9, Zenon

\* A gap resume does nothing, or dials while the connection is wanted.
LEMMA ResumeForGapDials ==
  ASSUME NEW s, Good(s), s.tgen < MaxGen
  PROVE  \/ ResumeForGap(s) = s
         \/ Dials(s, ResumeForGap(s)) /\ s.config /\ ~s.certBlock
<1> DEFINE d == [s EXCEPT !.proxyOpen = FALSE, !.heartbeat = FALSE, !.liveness = FALSE,
                          !.reconnectTimer = FALSE, !.state = "reconnecting"]
<1>1. SUFFICES ASSUME s.config, ~s.certBlock, ResumeForGap(s) = Redial(d)
               PROVE  Dials(s, Redial(d))
  BY Zenon DEF ResumeForGap
<1>2. SameCore(s, d) /\ WakeKept(s, d) /\ d.config /\ ~d.reconnectTimer
  BY <1>1, Zenon DEF Good, Client, Fields, SameCore, WakeKept
<1> HIDE DEF d
<1>3. Keeps(s, d)
  BY <1>2, SameKeeps, Zenon
<1>4. Dials(d, Redial(d))
  BY <1>2, <1>3, RedialDials, Zenon DEF Keeps, SameCore
<1>5. QED
  BY <1>3, <1>4, Zenon DEF Keeps, Dials

\* A native event is let in only while the client has a config.
LEMMA ListeningOn ==
  ASSUME NEW s, Good(s), Listening(s)
  PROVE  s.config
BY Zenon DEF Good, Off, Unused, Listening

\* The frame dispatcher: only auth_ok and a replaced session settle the suspend.
LEMMA HandleMessageGood ==
  ASSUME NEW s, Good(s), s.config, NEW kind, NEW q
  PROVE  LET n == HandleMessage(s, kind, q)
         IN /\ Good(n)
            /\ \A g \in Gens : s.att[g] # "none" => n.att[g] # "none"
            /\ n.config => n.gen = s.gen
            /\ kind \notin {"auth_ok", "SESSION_REPLACED"} => Keeps(s, n)
<1> DEFINE a == NoteSuspend(ArmLiveness(s))
           d == IF q = 0 THEN a ELSE NoteCseq(a, q)
           n == HandleMessage(s, kind, q)
<1>1. Keeps(s, ArmLiveness(s)) /\ ArmLiveness(s).config
  BY ArmLivenessKeeps, Zenon
<1>2. Keeps(s, a) /\ a.config
  BY <1>1, NoteSuspendKeeps, KeepsTrans, Zenon DEF Keeps
<1> HIDE DEF a
<1>3. Keeps(s, d) /\ d.config
  BY <1>2, NoteCseqKeeps, KeepsTrans DEF Keeps
<1> DEFINE u == [d EXCEPT !.intentionalClose = TRUE]
           v == DisconnectProxy(u)
           x == [v EXCEPT !.state = "disconnected"]
           y == [d EXCEPT !.busyHint = TRUE]
           z == [d EXCEPT !.restart = TRUE]
           o == [ArmLiveness(d)
                   EXCEPT !.state = "connected", !.pendingWake = FALSE,
                          !.heartbeat = TRUE, !.beatGap = FALSE, !.wakeOwner = TRUE]
<1>4. n = CASE kind = "auth_error" -> x
            [] kind = "SERVER_BUSY" -> y
            [] kind = "server_restart" -> z
            [] kind = "SESSION_REPLACED" -> Disconnect(d)
            [] kind = "auth_ok" -> o
            [] OTHER -> d
  BY Zenon DEF HandleMessage, a
<1> HIDE DEF d, n
<1>5. Keeps(d, u) /\ u.config
  <2>1. /\ SameCore(d, u) /\ WakeKept(d, u) /\ u.config
        /\ u.certBlock => ~u.reconnectTimer
    BY <1>3, Zenon DEF Keeps, Good, Client, Fields, SameCore, WakeKept
  <2> HIDE DEF u
  <2>2. QED
    BY <1>3, <2>1, SameKeeps, Zenon DEF Keeps
<1> HIDE DEF u
<1>6. Keeps(s, v) /\ v.config
  BY <1>3, <1>5, ProxyDisconnectKeeps, KeepsTrans, Zenon DEF Keeps
<1> HIDE DEF v
<1>7. Keeps(s, x)
  <2>1. /\ SameCore(v, x) /\ WakeKept(v, x) /\ x.config
        /\ x.certBlock => ~x.reconnectTimer
    BY <1>6, Zenon DEF Keeps, Good, Client, Fields, SameCore, WakeKept
  <2> HIDE DEF x
  <2>2. QED
    BY <1>6, <2>1, SameKeeps, KeepsTrans DEF Keeps
<1>8. Keeps(s, y) /\ Keeps(s, z)
  <2>1. /\ SameCore(d, y) /\ WakeKept(d, y) /\ y.config
        /\ y.certBlock => ~y.reconnectTimer
    BY <1>3, Zenon DEF Keeps, Good, Client, Fields, SameCore, WakeKept
  <2>2. /\ SameCore(d, z) /\ WakeKept(d, z) /\ z.config
        /\ z.certBlock => ~z.reconnectTimer
    BY <1>3, Zenon DEF Keeps, Good, Client, Fields, SameCore, WakeKept
  <2> HIDE DEF y, z
  <2>3. QED
    BY <1>3, <2>1, <2>2, SameKeeps, KeepsTrans DEF Keeps
<1>9. Good(o) /\ o.gen = s.gen /\ o.config /\ \A g \in Gens : s.att[g] # "none" => o.att[g] # "none"
  <2>1. Keeps(s, ArmLiveness(d)) /\ ArmLiveness(d).config
    BY <1>3, ArmLivenessKeeps, KeepsTrans, Zenon DEF Keeps
  <2>2. SameCore(ArmLiveness(d), o) /\ o.config /\ (o.certBlock => ~o.reconnectTimer)
    BY <2>1, Zenon DEF Keeps, Good, Client, Fields, SameCore
  <2> HIDE DEF o
  <2>3. Good(o)
    BY <2>1, <2>2 DEF Keeps, Good, Client, SameCore
  <2>4. QED
    BY <2>1, <2>2, <2>3, Zenon DEF Keeps, SameCore
<1>10. /\ Good(Disconnect(d)) /\ ~Disconnect(d).config
       /\ \A g \in Gens : s.att[g] # "none" => Disconnect(d).att[g] # "none"
  BY <1>3, DisconnectGood, Zenon DEF Keeps
<1> HIDE DEF x, y, z, o
<1>11. /\ Good(n)
       /\ \A g \in Gens : s.att[g] # "none" => n.att[g] # "none"
       /\ n.config => n.gen = s.gen
       /\ kind \notin {"auth_ok", "SESSION_REPLACED"} => Keeps(s, n)
  BY <1>3, <1>4, <1>7, <1>8, <1>9, <1>10, Zenon DEF Keeps
<1>12. QED
  BY <1>11, Zenon DEF n

-----------------------------------------------------------------------------
(* The steps.                                                              *)

\* A dial nobody asked for starts only while the connection is wanted.
DialWanted == c'.gen > c.gen /\ c'.config /\ events' = events => c.config /\ ~c.certBlock

\* An auth frame goes to a socket that its own attempt, or an earlier one, opened.
AuthFresh ==
  \A g \in Gens : srv[g] = "idle" /\ srv'[g] = "auth" =>
    \A k \in c.keyWait \ c'.keyWait : k.dial >= g

Preserved == IInv' /\ DialWanted /\ AuthFresh

\* A step of the client that leaves the host alone.
LEMMA ClientStep ==
  ASSUME IInv, Good(c'), WakeGood(c', woke'), DialWanted,
         \A g \in Gens : c.att[g] # "none" => c'.att[g] # "none",
         UNCHANGED <<sock, srv>>, events' \in Nat
  PROVE  Preserved
BY Zenon DEF IInv, HostGood, Preserved, AuthFresh

\* A step that runs one of the handlers above and leaves the host alone.
LEMMA KeepsStep ==
  ASSUME IInv, Keeps(c, c'), woke' = woke, UNCHANGED <<sock, srv>>, events' \in Nat
  PROVE  Preserved
<1>1. Good(c') /\ WakeGood(c', woke') /\ c'.gen = c.gen
  BY Zenon DEF IInv, Keeps, WakeGood
<1>2. DialWanted
  BY <1>1 DEF DialWanted, IInv, Good, Client
<1>3. QED
  BY <1>1, <1>2, ClientStep, Zenon DEF Keeps

\* A step that dials: a suspend not yet reported becomes owed.
LEMMA DialStep ==
  ASSUME IInv, NEW s, Keeps(c, s), Dials(s, c'), c.config, ~c.certBlock,
         woke' = IF woke = "slept" THEN "owed" ELSE woke,
         UNCHANGED <<sock, srv, events>>
  PROVE  Preserved
<1>1. Good(c') /\ WakeGood(c', woke')
  BY Zenon DEF IInv, Keeps, Dials, WakeGood
<1>2. \A g \in Gens : c.att[g] # "none" => c'.att[g] # "none"
  BY Zenon DEF Keeps, Dials
<1>3. QED
  BY <1>1, <1>2, ClientStep, Zenon DEF DialWanted, IInv, HostGood

\* Doing nothing keeps the invariant's parts.
LEMMA KeepsSelf ==
  ASSUME NEW s, Good(s)
  PROVE  Keeps(s, s)
BY Zenon DEF Keeps

\* The backoff timer: armed only while wanted, so its dial is wanted.
LEMMA ReconnectFiresOK ==
  ASSUME IInv, ReconnectFires
  PROVE  Preserved
<1>1. c.config /\ ~c.certBlock /\ c.tgen < MaxGen
  BY Zenon DEF IInv, Good, Off, ReconnectFires, Room
<1>2. Dials(c, Redial(c))
  BY <1>1, RedialDials, Zenon DEF IInv
<1>3. c' = Redial(c) /\ (woke' = IF c'.gen # c.gen /\ woke = "slept" THEN "owed" ELSE woke)
      /\ UNCHANGED <<sock, srv, events>>
  BY Zenon DEF ReconnectFires, AutoDial, host
<1>4. c'.gen # c.gen
  BY <1>2, <1>3 DEF Dials, IInv, Good, Client
<1>5. QED
  BY <1>1, <1>2, <1>3, <1>4, KeepsSelf, DialStep, Zenon DEF IInv

\* The gap timer: dials only for the socket that armed it.
LEMMA GapFiresOK ==
  ASSUME IInv, GapFires
  PROVE  Preserved
<1> DEFINE d == [c EXCEPT !.gapTimer = 0]
<1>1. /\ SameCore(c, d) /\ WakeKept(c, d) /\ (d.certBlock => ~d.reconnectTimer)
      /\ d.config = c.config /\ d.certBlock = c.certBlock
  BY Zenon DEF IInv, Good, Client, Fields, SameCore, WakeKept
<1>2. ~d.config => Off(d)
  BY Zenon DEF IInv, Good, Client, Fields, Off, Unused
<1>3. /\ c' = IF c.gapTimer = c.socketId THEN ResumeForGap(d) ELSE d
      /\ woke' = IF c'.gen # c.gen /\ woke = "slept" THEN "owed" ELSE woke
      /\ UNCHANGED <<sock, srv, events>> /\ c.tgen < MaxGen
  BY Zenon DEF GapFires, AutoDial, host, Room
<1> HIDE DEF d
<1>4. Keeps(c, d)
  BY <1>1, <1>2, SameKeeps, Zenon DEF IInv
<1>5. CASE c' = d
  <2>1. woke' = woke
    BY <1>3, <1>4, <1>5, Zenon DEF Keeps
  <2>2. QED
    BY <1>3, <1>4, <1>5, <2>1, KeepsStep, Zenon DEF IInv, HostGood
<1>6. CASE c' = ResumeForGap(d) /\ c' # d
  <2>1. Dials(d, c') /\ c.config /\ ~c.certBlock
    BY <1>1, <1>3, <1>4, <1>6, ResumeForGapDials, Zenon DEF Keeps, SameCore
  <2>2. c'.gen # c.gen
    BY <1>4, <2>1 DEF Dials, Keeps, IInv, Good, Client
  <2>3. QED
    BY <1>3, <1>4, <2>1, <2>2, DialStep, Zenon
<1>7. QED
  BY <1>3, <1>5, <1>6, Zenon

\* A wake signal: an early dial, a probe, or nothing.
LEMMA WakeSignalOK ==
  ASSUME IInv, WakeSignal
  PROVE  Preserved
<1>0. UNCHANGED <<sock, srv, events>> /\ c.tgen < MaxGen
  BY Zenon DEF WakeSignal, host, Room
<1>1. CASE AutoDial(OnWake(c))
  <2>1. Keeps(c, c')
    BY <1>1, OnWakeKeeps, Zenon DEF AutoDial, IInv
  <2>2. woke' = woke
    BY <1>1, <2>1, Zenon DEF AutoDial, Keeps
  <2>3. QED
    BY <1>0, <2>1, <2>2, KeepsStep, Zenon DEF IInv, HostGood
<1>2. CASE /\ c.config /\ ~c.certBlock
           /\ AutoDial(Redial([c EXCEPT !.reconnectTimer = FALSE]))
  <2> DEFINE d == [c EXCEPT !.reconnectTimer = FALSE]
  <2>1. SameCore(c, d) /\ WakeKept(c, d) /\ d.config /\ ~d.reconnectTimer
    BY <1>2, Zenon DEF IInv, Good, Client, Fields, SameCore, WakeKept
  <2>2. c' = Redial(d) /\ woke' = IF c'.gen # c.gen /\ woke = "slept" THEN "owed" ELSE woke
    BY <1>2, Zenon DEF AutoDial
  <2> HIDE DEF d
  <2>3. Keeps(c, d)
    BY <2>1, SameKeeps, Zenon DEF IInv
  <2>4. Dials(d, c')
    BY <1>0, <2>1, <2>2, <2>3, RedialDials, Zenon DEF Keeps, SameCore
  <2>5. c'.gen # c.gen
    BY <2>3, <2>4 DEF Dials, Keeps, IInv, Good, Client
  <2>6. QED
    BY <1>0, <1>2, <2>2, <2>3, <2>4, <2>5, DialStep, Zenon
<1>3. QED
  BY <1>1, <1>2, Zenon DEF WakeSignal

\* The silence deadline schedules a reconnect and dials nothing itself.
LEMMA LivenessFiresOK ==
  ASSUME IInv, LivenessFires
  PROVE  Preserved
<1> DEFINE d == [c EXCEPT !.liveness = FALSE]
           e == [d EXCEPT !.proxyOpen = FALSE, !.heartbeat = FALSE]
<1>1. c.config /\ UNCHANGED <<sock, srv, woke, events>> /\ (c' = d \/ c' = ScheduleReconnect(e))
  BY Zenon DEF LivenessFires, host, IInv, Good, Off
<1>2. /\ SameCore(c, d) /\ WakeKept(c, d) /\ d.config /\ (d.certBlock => ~d.reconnectTimer)
      /\ SameCore(c, e) /\ WakeKept(c, e) /\ e.config /\ (e.certBlock => ~e.reconnectTimer)
  BY <1>1, Zenon DEF IInv, Good, Client, Fields, SameCore, WakeKept
<1> HIDE DEF d, e
<1>3. Keeps(c, d) /\ Keeps(c, e)
  BY <1>2, SameKeeps, Zenon DEF IInv
<1>4. Keeps(c, c')
  <2>1. Keeps(e, ScheduleReconnect(e))
    BY <1>3, ScheduleReconnectKeeps, Zenon DEF Keeps
  <2> QED
    BY <1>1, <1>3, <2>1, KeepsTrans, Zenon
<1>5. QED
  BY <1>1, <1>4, KeepsStep, Zenon DEF IInv, HostGood

\* The heartbeat sees a suspend as the gap between its own beats.
LEMMA HeartbeatTickOK ==
  ASSUME IInv, HeartbeatTick
  PROVE  Preserved
<1> DEFINE d == [c EXCEPT !.slept = FALSE, !.beatGap = FALSE]
           e == [d EXCEPT !.pendingWake = TRUE]
           f == [d EXCEPT !.ping = "young"]
<1>1. /\ c.config /\ c.heartbeat /\ UNCHANGED <<sock, srv, woke, events>>
      /\ c' = IF c.beatGap THEN OnWake(e) ELSE IF c.proxyOpen /\ c.ping = "none" THEN f ELSE d
  BY Zenon DEF HeartbeatTick, host, IInv, Good, Off
<1>2. /\ SameCore(c, d) /\ SameCore(c, e) /\ SameCore(c, f)
      /\ d.config /\ (d.certBlock => ~d.reconnectTimer)
      /\ e.config /\ (e.certBlock => ~e.reconnectTimer)
      /\ f.config /\ (f.certBlock => ~f.reconnectTimer)
  BY <1>1, Zenon DEF IInv, Good, Client, Fields, SameCore
<1>3. /\ ~d.slept /\ ~e.slept /\ ~f.slept /\ e.pendingWake
      /\ d.pendingWake = c.pendingWake /\ f.pendingWake = c.pendingWake
  BY Zenon DEF IInv, Good, Client, Fields
<1> HIDE DEF d, e, f
<1>4. Good(d) /\ Good(e) /\ Good(f)
  BY <1>2 DEF IInv, Good, Client, SameCore
<1>5. Keeps(e, OnWake(e))
  BY <1>4, OnWakeKeeps, Zenon
<1>6. WakeGood(e, woke)
  BY <1>2, <1>3, Zenon DEF IInv, WakeGood, SameCore
<1>7. ~c.beatGap => WakeGood(d, woke) /\ WakeGood(f, woke)
  BY <1>1, <1>2, <1>3, Zenon DEF IInv, WakeGood, SameCore
<1>8. Good(c') /\ WakeGood(c', woke)
  BY <1>1, <1>4, <1>5, <1>6, <1>7, Zenon DEF Keeps, WakeGood
<1>9. c'.gen = c.gen /\ \A g \in Gens : c.att[g] # "none" => c'.att[g] # "none"
  BY <1>1, <1>2, <1>5, Zenon DEF Keeps, SameCore
<1>10. ~(c'.gen > c.gen)
  BY <1>9 DEF IInv, Good, Client
<1>11. events' \in Nat /\ UNCHANGED <<sock, srv, woke>>
  BY <1>1, Zenon DEF IInv, HostGood
<1>12. QED
  BY <1>8, <1>9, <1>10, <1>11, ClientStep, Zenon DEF DialWanted

\* The key lookup settles: the frame of the current generation was built no earlier
\* than the last attempt that began, so no socket is newer than it.
LEMMA KeySettlesOK ==
  ASSUME IInv, NEW k \in c.keyWait, KeySettles(k)
  PROVE  Preserved
<1>1. /\ DOMAIN c' = Fields /\ c'.gen = c.gen /\ c'.tgen = c.tgen /\ c'.att = c.att
      /\ c'.cmds = c.cmds /\ c'.keyWait = c.keyWait \ {k}
      /\ (c.config => c'.config) /\ (c'.certBlock => ~c'.reconnectTimer)
  BY Zenon DEF KeySettles, IInv, Good, Client, Fields
<1>2. ~c.config => Off(c')
  BY Zenon DEF KeySettles, IInv, Good, Client, Fields, Off, Unused
<1>3. /\ c'.pendingWake = c.pendingWake /\ c'.slept = c.slept
      /\ c'.heartbeat = c.heartbeat /\ c'.beatGap = c.beatGap
  BY Zenon DEF KeySettles, IInv, Good, Client, Fields
<1>4. Good(c')
  BY <1>1, <1>2 DEF IInv, Good, Client
<1>5. WakeGood(c', woke')
  BY <1>1, <1>3, Zenon DEF KeySettles, IInv, WakeGood
<1>6. HostGood'
  BY <1>1, Zenon DEF KeySettles, IInv, HostGood
<1>7. AuthFresh
  <2> SUFFICES ASSUME NEW g \in Gens, srv[g] = "idle", srv'[g] = "auth",
                      NEW j \in c.keyWait \ c'.keyWait
               PROVE  j.dial >= g
    BY Zenon DEF AuthFresh
  <2>1. j = k
    BY <1>1, Zenon
  <2>2. k.gen = c.gen /\ owner = g /\ sock[g] = "open"
    BY Zenon DEF KeySettles, IInv, HostGood
  <2>3. c.att[g] # "none"
    BY <2>2, Zenon DEF IInv, HostGood
  <2>4. ~(g > k.dial)
    BY <2>2, <2>3, Zenon DEF IInv, Good
  <2>5. QED
    BY <2>1, <2>4, WsBounds DEF IInv, Good, Client, Gens
<1>8. QED
  BY <1>1, <1>4, <1>5, <1>6, <1>7 DEF IInv, Preserved, DialWanted, Good, Client

\* An attempt that began moves to another phase.
LEMMA PhaseKeeps ==
  ASSUME NEW s, Good(s), NEW g \in Gens, s.att[g] # "none", NEW p \in Phases \ {"none"}
  PROVE  LET n == [s EXCEPT !.att[g] = p]
         IN Keeps(s, n) /\ n.config = s.config /\ n.tgen = s.tgen /\ n.att[g] = p
<1> DEFINE n == [s EXCEPT !.att[g] = p]
<1>1. /\ DOMAIN n = Fields /\ n.gen = s.gen /\ n.tgen = s.tgen
      /\ n.att = [s.att EXCEPT ![g] = p] /\ n.cmds = s.cmds /\ n.keyWait = s.keyWait
      /\ n.config = s.config /\ (n.certBlock => ~n.reconnectTimer)
  BY Zenon DEF Good, Client, Fields
<1>2. /\ n.state = s.state /\ n.proxyOpen = s.proxyOpen /\ n.reconnectTimer = s.reconnectTimer
      /\ n.gapTimer = s.gapTimer /\ n.heartbeat = s.heartbeat /\ n.liveness = s.liveness
      /\ n.wakeOwner = s.wakeOwner
  BY Zenon DEF Good, Client, Fields
<1>3. n.pendingWake = s.pendingWake /\ n.slept = s.slept /\ n.beatGap = s.beatGap
  BY Zenon DEF Good, Client, Fields
<1> HIDE DEF n
<1>4. Client(n)
  BY <1>1, Zenon DEF Good, Client
<1>5. ~n.config => Off(n)
  BY <1>1, <1>2 DEF Good, Client, Off, Unused
<1>6. \A h \in Gens : (s.att[h] = "none") = (n.att[h] = "none")
  BY <1>1, Zenon DEF Good, Client
<1>7. Good(n)
  BY <1>1, <1>4, <1>5, <1>6 DEF Good
<1>8. \A k \in {"no", "slept", "owed"} : WakeGood(s, k) => WakeGood(n, k)
  BY <1>1, <1>2, <1>3, Zenon DEF WakeGood
<1>9. Keeps(s, n)
  BY <1>1, <1>6, <1>7, <1>8, Zenon DEF Keeps
<1>10. n.att[g] = p
  BY <1>1, Zenon DEF Good, Client
<1>11. QED
  BY <1>1, <1>9, <1>10, Zenon DEF n

\* A dial resumes after an await: it goes on, gives up, or asks the host.
LEMMA ResumeOK ==
  ASSUME IInv, NEW g \in Gens, Resume(g)
  PROVE  Preserved
<1>0. UNCHANGED <<sock, srv, woke, events>>
  BY Zenon DEF Resume, host
<1>1. CASE \E p \in Phases \ {"none"} : c.att[g] # "none" /\ c' = [c EXCEPT !.att[g] = p]
  <2>1. Keeps(c, c')
    BY <1>1, PhaseKeeps, SMTT(30) DEF IInv
  <2>2. QED
    BY <1>0, <2>1, KeepsStep, Zenon DEF IInv, HostGood
<1>2. CASE /\ c.att[g] = "registered"
           /\ c' = [c EXCEPT !.att[g] = "invoked",
                              !.cmds = Append(@, [op |-> "connect", g |-> g])]
  <2>1. /\ DOMAIN c' = Fields /\ c'.gen = c.gen /\ c'.tgen = c.tgen
        /\ c'.att = [c.att EXCEPT ![g] = "invoked"] /\ c'.keyWait = c.keyWait
        /\ c'.cmds = Append(c.cmds, [op |-> "connect", g |-> g])
        /\ c'.config = c.config /\ (c'.certBlock => ~c'.reconnectTimer)
    BY <1>2, Zenon DEF IInv, Good, Client, Fields
  <2>2. /\ c'.state = c.state /\ c'.proxyOpen = c.proxyOpen /\ c'.reconnectTimer = c.reconnectTimer
        /\ c'.gapTimer = c.gapTimer /\ c'.heartbeat = c.heartbeat /\ c'.liveness = c.liveness
        /\ c'.wakeOwner = c.wakeOwner
    BY <1>2, Zenon DEF IInv, Good, Client, Fields
  <2>3. c'.pendingWake = c.pendingWake /\ c'.slept = c.slept /\ c'.beatGap = c.beatGap
    BY <1>2, Zenon DEF IInv, Good, Client, Fields
  <2>4. g \in Nat
    BY WsBounds DEF Gens
  <2>5. Client(c')
    BY <2>1, <2>4 DEF IInv, Good, Client, Phases
  <2>6. ~c'.config => Off(c')
    BY <1>2, <2>1, <2>2 DEF IInv, Good, Client, Off, Unused
  <2>7. \A h \in Gens : (c.att[h] = "none") = (c'.att[h] = "none")
    BY <1>2, <2>1 DEF IInv, Good, Client
  <2>8. \A i \in 1..Len(c'.cmds) : c'.cmds[i].op = "connect" =>
          c'.cmds[i].g \in Gens /\ c'.att[c'.cmds[i].g] # "none"
    BY <1>2, <2>1, <2>7 DEF IInv, Good, Client
  <2>9. Good(c')
    BY <2>1, <2>5, <2>6, <2>7, <2>8, Zenon DEF IInv, Good
  <2>10. WakeGood(c', woke')
    BY <1>0, <2>1, <2>2, <2>3, Zenon DEF IInv, WakeGood
  <2>11. QED
    BY <1>0, <2>1, <2>7, <2>9, <2>10, ClientStep DEF DialWanted, IInv, Good, Client, HostGood
<1>3. CASE /\ c.att[g] = "rejected" /\ g = c.tgen
           /\ c' = HandleClosed([c EXCEPT !.att[g] = "done"])
  <2> DEFINE d == [c EXCEPT !.att[g] = "done"]
  <2>1. c.config
    BY <1>3, Zenon DEF IInv, Good, Off, Unused
  <2>2. Keeps(c, d) /\ d.config = c.config
    BY <1>3, PhaseKeeps DEF IInv, Phases
  <2> HIDE DEF d
  <2>3. Keeps(d, HandleClosed(d))
    BY <2>1, <2>2, HandleClosedKeeps, Zenon DEF Keeps
  <2>4. Keeps(c, c')
    BY <1>3, <2>2, <2>3, KeepsTrans, Zenon DEF d
  <2>5. QED
    BY <1>0, <2>4, KeepsStep, Zenon DEF IInv, HostGood
<1>4. QED
  BY <1>1, <1>2, <1>3, Zenon DEF Resume, Phases

\* The transport's close of an old attempt settles.
LEMMA ProxyClosedOK ==
  ASSUME IInv, NEW g, ProxyClosed(g)
  PROVE  Preserved
<1>1. UNCHANGED <<sock, srv, woke, events>>
  BY Zenon DEF ProxyClosed, host
<1>2. /\ SameCore(c, c') /\ WakeKept(c, c') /\ (c'.certBlock => ~c'.reconnectTimer)
      /\ c'.config = c.config
  BY Zenon DEF ProxyClosed, IInv, Good, Client, Fields, SameCore, WakeKept
<1>3. ~c.config => Off(c')
  BY Zenon DEF ProxyClosed, IInv, Good, Client, Fields, Off, Unused
<1>4. Keeps(c, c')
  BY <1>2, <1>3, SameKeeps, Zenon DEF IInv
<1>5. QED
  BY <1>1, <1>4, KeepsStep, Zenon DEF IInv, HostGood

\* The host takes the oldest command; only an attempt that began is dialled.
LEMMA HostCommandOK ==
  ASSUME IInv, HostCommand
  PROVE  Preserved
<1> DEFINE cmd == Head(c.cmds)
<1>1. /\ DOMAIN c' = Fields /\ c'.gen = c.gen /\ c'.tgen = c.tgen /\ c'.att = c.att
      /\ c'.keyWait = c.keyWait /\ c'.cmds = Tail(c.cmds) /\ c.cmds # <<>>
      /\ c'.config = c.config /\ (c'.certBlock => ~c'.reconnectTimer)
  BY Zenon DEF HostCommand, IInv, Good, Client, Fields
<1>2. ~c.config => Off(c')
  BY Zenon DEF HostCommand, IInv, Good, Client, Fields, Off, Unused
<1>3. /\ c'.pendingWake = c.pendingWake /\ c'.slept = c.slept
      /\ c'.heartbeat = c.heartbeat /\ c'.beatGap = c.beatGap
  BY Zenon DEF HostCommand, IInv, Good, Client, Fields
<1>4. Client(c')
  BY <1>1 DEF IInv, Good, Client
<1>5. \A i \in 1..Len(c'.cmds) : i + 1 \in 1..Len(c.cmds) /\ c'.cmds[i] = c.cmds[i + 1]
  BY <1>1 DEF IInv, Good, Client
<1>6. Good(c')
  BY <1>1, <1>2, <1>4, <1>5, Zenon DEF IInv, Good
<1>7. WakeGood(c', woke')
  BY <1>1, <1>3, Zenon DEF HostCommand, IInv, WakeGood
<1>8. cmd.op = "connect" => cmd.g \in Gens /\ c.att[cmd.g] # "none"
  <2>1. 1 \in 1..Len(c.cmds) /\ cmd = c.cmds[1]
    BY <1>1 DEF IInv, Good, Client
  <2>2. QED
    BY <2>1, Zenon DEF IInv, Good
<1>9. /\ UNCHANGED <<srv, woke, events>>
      /\ sock' = IF cmd.op = "connect" THEN [sock EXCEPT ![cmd.g] = "dialing"] ELSE sock
  BY Zenon DEF HostCommand
<1> HIDE DEF cmd
<1>10. HostGood'
  BY <1>1, <1>8, <1>9, Zenon DEF IInv, HostGood
<1>11. QED
  BY <1>1, <1>6, <1>7, <1>9, <1>10 DEF IInv, Preserved, DialWanted, AuthFresh, Good, Client, HostGood

\* The host moves one socket that a command asked for.
LEMMA SocketStep ==
  ASSUME IInv, Keeps(c, c'), woke' = woke, UNCHANGED srv, events' \in Nat,
         NEW g \in Gens, sock[g] # "none", NEW v \in {"open", "ended", "gone"},
         sock' = [sock EXCEPT ![g] = v]
  PROVE  Preserved
<1>1. Good(c') /\ WakeGood(c', woke') /\ c'.gen = c.gen
  BY Zenon DEF IInv, Keeps, WakeGood
<1>2. HostGood'
  BY Zenon DEF IInv, HostGood, Keeps
<1>3. DialWanted /\ AuthFresh
  BY <1>1 DEF DialWanted, AuthFresh, IInv, HostGood, Good, Client
<1>4. QED
  BY <1>1, <1>2, <1>3, Zenon DEF IInv, Preserved

\* The host's socket opens: delivered to its owner, dropped when superseded.
LEMMA HostOpenOK ==
  ASSUME IInv, NEW g \in Gens, HostOpen(g)
  PROVE  Preserved
<1>1. UNCHANGED <<srv, woke, events>> /\ sock[g] = "dialing" /\ c.att[g] # "none"
  BY Zenon DEF HostOpen, IInv, HostGood
<1>2. CASE owner = g
  <2> DEFINE d == [c EXCEPT !.att[g] = "done"]
  <2>1. Keeps(c, d)
    BY <1>1, PhaseKeeps, Zenon DEF IInv, Phases
  <2>2. c' = (IF Listening(d) THEN HandleOpen(d) ELSE d) /\ sock' = [sock EXCEPT ![g] = "open"]
    BY <1>2, Zenon DEF HostOpen, Delivered
  <2> HIDE DEF d
  <2>3. Listening(d) => Keeps(d, HandleOpen(d))
    BY <2>1, ListeningOn, HandleOpenKeeps, Zenon DEF Keeps
  <2>4. Keeps(c, c')
    BY <2>1, <2>2, <2>3, KeepsTrans, Zenon
  <2>5. QED
    BY <1>1, <2>2, <2>4, SocketStep, Zenon DEF IInv, HostGood
<1>3. CASE owner # g
  <2>1. Keeps(c, c') /\ sock' = [sock EXCEPT ![g] = "gone"]
    BY <1>1, <1>3, PhaseKeeps DEF HostOpen, Reject, IInv, Phases
  <2>2. QED
    BY <1>1, <2>1, SocketStep, Zenon DEF IInv, HostGood
<1>4. QED
  BY <1>2, <1>3, Zenon

\* The host's dial fails, perhaps on a changed certificate.
LEMMA HostRefuseOK ==
  ASSUME IInv, NEW g \in Gens, NEW mismatch \in BOOLEAN, HostRefuse(g, mismatch)
  PROVE  Preserved
<1> DEFINE d == IF mismatch THEN HandleCertMismatch(c) ELSE c
<1>1. /\ UNCHANGED <<srv, woke>> /\ sock[g] = "dialing" /\ c.att[g] # "none"
      /\ events' \in Nat /\ sock' = [sock EXCEPT ![g] = "gone"] /\ c' = Reject(d, g)
  BY DEF HostRefuse, IInv, HostGood
<1>2. Keeps(c, d)
  BY HandleCertMismatchKeeps, KeepsSelf, Zenon DEF IInv
<1> HIDE DEF d
<1>3. Keeps(d, Reject(d, g))
  BY <1>1, <1>2, PhaseKeeps DEF Reject, Phases, Keeps
<1>4. Keeps(c, c')
  BY <1>1, <1>2, <1>3, KeepsTrans, Zenon
<1>5. QED
  BY <1>1, <1>4, SocketStep, Zenon

\* The host's read loop ends.
LEMMA HostEndOK ==
  ASSUME IInv, NEW g \in Gens, HostEnd(g)
  PROVE  Preserved
<1>1. /\ UNCHANGED <<c, srv, woke>> /\ sock[g] = "open"
      /\ events' \in Nat /\ sock' = [sock EXCEPT ![g] = "ended"]
  BY DEF HostEnd, IInv, HostGood
<1>2. Keeps(c, c')
  BY <1>1, KeepsSelf, Zenon DEF IInv
<1>3. QED
  BY <1>1, <1>2, SocketStep, Zenon

\* The close event is delivered, or nobody listens.
LEMMA HostClosedOK ==
  ASSUME IInv, NEW g \in Gens, HostClosed(g)
  PROVE  Preserved
<1>1. /\ UNCHANGED <<srv, woke, events>> /\ sock[g] = "ended"
      /\ sock' = [sock EXCEPT ![g] = "gone"]
      /\ c' = c \/ (Listening(c) /\ c' = HandleClosed(c))
  BY Zenon DEF HostClosed, Delivered
<1>2. Keeps(c, c')
  BY <1>1, KeepsSelf, ListeningOn, HandleClosedKeeps, Zenon DEF IInv
<1>3. QED
  BY <1>1, <1>2, SocketStep, Zenon DEF IInv, HostGood

\* A frame reaches the client, or is dropped by its listeners.
LEMMA ReceiveOK ==
  ASSUME IInv, NEW g \in Gens, NEW kind, NEW q, Receive(g, kind, q),
         UNCHANGED sock, events' \in Nat, srv' \in [Gens -> {"idle", "auth", "ok", "lossy", "closing"}],
         \A h \in Gens : srv'[h] = "auth" => srv[h] = "auth"
  PROVE  Preserved
<1> DEFINE n == HandleMessage(c, kind, q)
<1>1. CASE ~Listening(c)
  <2>1. UNCHANGED <<c, woke>>
    BY <1>1, Zenon DEF Receive, Delivered
  <2>2. ~(c'.gen > c.gen)
    BY <2>1 DEF IInv, Good, Client
  <2>3. \A h \in Gens : ~(srv[h] = "idle" /\ srv'[h] = "auth")
    BY Zenon
  <2>4. IInv'
    BY <2>1, Zenon DEF IInv, HostGood
  <2>5. QED
    BY <2>2, <2>3, <2>4, Zenon DEF Preserved, DialWanted, AuthFresh
<1>2. CASE Listening(c)
  <2>1. c.config
    BY <1>2, ListeningOn, Zenon DEF IInv
  <2>2. /\ Good(n) /\ \A h \in Gens : c.att[h] # "none" => n.att[h] # "none"
        /\ n.config => n.gen = c.gen
        /\ kind \notin {"auth_ok", "SESSION_REPLACED"} => Keeps(c, n)
    BY <2>1, HandleMessageGood, Zenon DEF IInv
  <2>3. /\ c' = n
        /\ woke' = IF kind \in {"auth_ok", "SESSION_REPLACED"} THEN "no" ELSE woke
    BY <1>2, Zenon DEF Receive, Delivered
  <2> HIDE DEF n
  <2>4. WakeGood(c', woke')
    BY <2>2, <2>3, Zenon DEF WakeGood, Keeps, IInv
  <2>5. HostGood'
    BY <2>2, <2>3, Zenon DEF IInv, HostGood
  <2>6. QED
    BY <2>2, <2>3, <2>4, <2>5 DEF IInv, Preserved, DialWanted, AuthFresh, Good, Client
<1>3. QED
  BY <1>1, <1>2, Zenon

\* The server's answers, refusals and frames.
LEMMA ServerOK ==
  ASSUME IInv, NEW g \in Gens,
         \/ ServerAccepts(g)
         \/ ServerPong(g)
         \/ \E lost \in 0..1 : ServerFrame(g, lost)
         \/ \E kind \in {"auth_error", "SERVER_BUSY", "server_restart", "SESSION_REPLACED"} :
              ServerEnds(g, kind)
  PROVE  Preserved
<1>1. CASE ServerAccepts(g)
  <2>1. Receive(g, "auth_ok", 0) /\ UNCHANGED <<sock, events>> /\ srv' = [srv EXCEPT ![g] = "ok"]
    BY <1>1, Zenon DEF ServerAccepts
  <2>2. QED
    BY <2>1, ReceiveOK, Zenon DEF IInv, HostGood
<1>2. CASE ServerPong(g)
  <2>1. Receive(g, "pong", 0) /\ UNCHANGED <<sock, events, srv>>
    BY <1>2, Zenon DEF ServerPong, host
  <2>2. QED
    BY <2>1, ReceiveOK, Zenon DEF IInv, HostGood
<1>3. ASSUME NEW lost \in 0..1, ServerFrame(g, lost)
      PROVE  Preserved
  <2>1. /\ Receive(g, "frame", sent'[g]) /\ UNCHANGED sock /\ events' \in Nat
        /\ srv' = srv \/ srv' = [srv EXCEPT ![g] = "lossy"]
    BY <1>3 DEF ServerFrame, Event, IInv, HostGood
  <2>2. QED
    BY <2>1, ReceiveOK, Zenon DEF IInv, HostGood
<1>4. ASSUME NEW kind, ServerEnds(g, kind)
      PROVE  Preserved
  <2>1. /\ Receive(g, kind, 0) /\ UNCHANGED sock /\ events' \in Nat
        /\ srv' = [srv EXCEPT ![g] = "closing"]
    BY <1>4 DEF ServerEnds, Event, IInv, HostGood
  <2>2. QED
    BY <2>1, ReceiveOK, Zenon DEF IInv, HostGood
<1>5. QED
  BY <1>1, <1>2, <1>3, <1>4, Zenon

\* The pong grace passes.
LEMMA SilenceOK ==
  ASSUME IInv, Silence
  PROVE  Preserved
<1>1. /\ SameCore(c, c') /\ WakeKept(c, c') /\ (c'.certBlock => ~c'.reconnectTimer)
      /\ c'.config = c.config
  BY Zenon DEF Silence, IInv, Good, Client, Fields, SameCore, WakeKept
<1>2. ~c'.config => Off(c')
  BY Zenon DEF Silence, IInv, Good, Client, Fields, Off, Unused
<1>3. Keeps(c, c')
  BY <1>1, <1>2, SameKeeps, Zenon DEF IInv
<1>4. woke' = woke /\ UNCHANGED <<sock, srv>> /\ events' \in Nat
  BY DEF Silence, Event, host, IInv, HostGood
<1>5. QED
  BY <1>3, <1>4, KeepsStep, Zenon

\* The machine sleeps: the heartbeat's gap records it where one is running.
LEMMA SleepOK ==
  ASSUME IInv, Sleep
  PROVE  Preserved
<1>1. /\ DOMAIN c' = Fields /\ c'.gen = c.gen /\ c'.tgen = c.tgen /\ c'.att = c.att
      /\ c'.cmds = c.cmds /\ c'.keyWait = c.keyWait /\ c'.config = c.config
      /\ c'.pendingWake = c.pendingWake /\ c'.slept /\ (c'.heartbeat => c'.beatGap)
      /\ (c'.certBlock => ~c'.reconnectTimer)
  BY Zenon DEF Sleep, IInv, Good, Client, Fields
<1>2. ~c'.config => Off(c')
  BY Zenon DEF Sleep, IInv, Good, Client, Fields, Off, Unused
<1>3. Client(c')
  BY <1>1, Zenon DEF IInv, Good, Client
<1>4. Good(c')
  BY <1>1, <1>2, <1>3 DEF IInv, Good
<1>5. WakeGood(c', woke')
  BY <1>1, Zenon DEF Sleep, IInv, WakeGood
<1>6. DialWanted
  BY <1>1 DEF DialWanted, IInv, Good, Client
<1>7. UNCHANGED <<sock, srv>> /\ events' \in Nat
  BY DEF Sleep, Event, host, IInv, HostGood
<1>8. QED
  BY <1>1, <1>4, <1>5, <1>6, <1>7, ClientStep, Zenon

\* The user dials.
LEMMA UserConnectOK ==
  ASSUME IInv, NEW takeover \in BOOLEAN, UserConnect(takeover)
  PROVE  Preserved
<1>1. /\ c' = Connect(c, takeover) /\ c.tgen < MaxGen
      /\ woke' = (IF takeover \/ woke = "slept" THEN "no" ELSE woke)
      /\ UNCHANGED <<sock, srv>> /\ events' = events + 1
  BY Zenon DEF UserConnect, Room, Event, host
<1>2. /\ Good(c') /\ \A g \in Gens : c.att[g] # "none" => c'.att[g] # "none"
      /\ c.pendingWake /\ ~takeover => c'.pendingWake
      /\ \A k \in c'.keyWait : k.gen # c'.gen
  BY <1>1, ConnectGood, Zenon DEF IInv
<1>3. WakeGood(c', woke')
  BY <1>1, <1>2, Zenon DEF IInv, WakeGood
<1>4. DialWanted /\ events' \in Nat
  BY <1>1 DEF DialWanted, IInv, HostGood
<1>5. QED
  BY <1>1, <1>2, <1>3, <1>4, ClientStep, Zenon

\* The user disconnects: nothing is owed any more.
LEMMA UserDisconnectOK ==
  ASSUME IInv, UserDisconnect
  PROVE  Preserved
<1>1. /\ c' = Disconnect(c) /\ woke' = "no" /\ UNCHANGED <<sock, srv>> /\ events' \in Nat
  BY DEF UserDisconnect, Event, host, IInv, HostGood
<1>2. Good(c') /\ ~c'.config /\ c'.att = c.att
  BY <1>1, DisconnectGood, Zenon DEF IInv
<1>3. WakeGood(c', woke') /\ DialWanted
  BY <1>1, <1>2, Zenon DEF WakeGood, DialWanted
<1>4. QED
  BY <1>1, <1>2, <1>3, ClientStep, Zenon

\* A REST request meets a changed certificate.
LEMMA RestCertMismatchOK ==
  ASSUME IInv, RestCertMismatch
  PROVE  Preserved
<1>1. /\ c' = HandleCertMismatch(c) /\ woke' = woke /\ UNCHANGED <<sock, srv>> /\ events' \in Nat
  BY DEF RestCertMismatch, Event, host, IInv, HostGood
<1>2. Keeps(c, c')
  BY <1>1, HandleCertMismatchKeeps, Zenon DEF IInv
<1>3. QED
  BY <1>1, <1>2, KeepsStep, Zenon

\* A stuttering step.
LEMMA StutterOK ==
  ASSUME IInv, UNCHANGED vars
  PROVE  Preserved
BY DEF IInv, HostGood, Preserved, DialWanted, AuthFresh, Good, Client, vars, host

\* The initial state satisfies the invariant.
LEMMA InitOK == Init => IInv
<1> SUFFICES ASSUME Init PROVE IInv
  BY Zenon
<1>1. /\ DOMAIN c = Fields /\ c.gen = 0 /\ c.tgen = 0 /\ c.att = [g \in Gens |-> "none"]
      /\ c.cmds = <<>> /\ c.keyWait = {} /\ ~c.reconnectTimer /\ ~c.config
  BY Zenon DEF Init, InitClient, Fields
<1>2. Client(c)
  BY <1>1 DEF Client, Phases
<1>3. Off(c)
  BY <1>1, Zenon DEF Off, Unused, Init, InitClient
<1>4. Good(c)
  BY <1>1, <1>2, <1>3 DEF Good
<1>5. QED
  BY <1>4, Zenon DEF IInv, HostGood, WakeGood, Init

\* Every step preserves the invariant, dials only what is wanted and sends no stale
\* auth frame.
LEMMA StepOK ==
  ASSUME IInv, [Next]_vars
  PROVE  Preserved
<1>1. CASE HostCommand \/ Timers \/ WakeSignal \/ HeartbeatTick
  BY <1>1, HostCommandOK, ReconnectFiresOK, GapFiresOK, LivenessFiresOK, WakeSignalOK,
     HeartbeatTickOK, Zenon DEF Timers
<1>2. CASE \E k \in c.keyWait : KeySettles(k)
  BY <1>2, KeySettlesOK, Zenon
<1>3. ASSUME NEW g \in Gens, Resume(g) \/ ProxyClosed(g) \/ Host(g)
      PROVE  Preserved
  BY <1>3, ResumeOK, ProxyClosedOK, HostOpenOK, HostEndOK, HostClosedOK, Zenon DEF Host
<1>4. ASSUME NEW g \in Gens,
             \/ ServerAccepts(g) \/ ServerPong(g)
             \/ \E lost \in 0..1 : ServerFrame(g, lost)
             \/ \E kind \in {"auth_error", "SERVER_BUSY", "server_restart", "SESSION_REPLACED"} :
                  ServerEnds(g, kind)
      PROVE  Preserved
  BY <1>4, ServerOK, Zenon
<1>5. ASSUME NEW g \in Gens, NEW mismatch \in BOOLEAN, HostRefuse(g, mismatch)
      PROVE  Preserved
  BY <1>5, HostRefuseOK, Zenon
<1>6. CASE Silence \/ Sleep \/ UserDisconnect \/ RestCertMismatch
  BY <1>6, SilenceOK, SleepOK, UserDisconnectOK, RestCertMismatchOK, Zenon
<1>7. CASE \E takeover \in BOOLEAN : UserConnect(takeover)
  BY <1>7, UserConnectOK, Zenon
<1>8. CASE UNCHANGED vars
  BY <1>8, StutterOK, Zenon
<1>9. QED
  BY <1>1, <1>2, <1>3, <1>4, <1>5, <1>6, <1>7, <1>8, Zenon DEF Next

-----------------------------------------------------------------------------
(* The theorems.                                                           *)

(* The inductive invariant: the facts about attempts, queued host commands and
   the remembered suspend that ws.ts's handlers rely on hold in every state,
   however host events, timers and user calls interleave. *)
THEOREM ClientInvariant == Spec => []IInv
<1>1. IInv /\ [Next]_vars => IInv'
  BY StepOK, Zenon DEF Preserved
<1>2. QED
  BY <1>1, InitOK, PTL DEF Spec

(* disconnect() is final (ws.ts 994-1025): with no config the client is
   disconnected, its timers, probe and listeners off, for any number of attempts,
   frames and faults. *)
THEOREM DisconnectIsFinal == Spec => []DisconnectFinal
<1>1. IInv => DisconnectFinal
  BY ListeningOn, Zenon DEF IInv, Good, Off, DisconnectFinal
<1>2. QED
  BY <1>1, ClientInvariant, PTL

(* A suspend is reported (ws.ts 185-203): once an automatic dial owes the wake
   marker, the client and every auth frame it is building carry it. *)
THEOREM WakeIsCarried == Spec => []WakeCarried
<1>1. IInv => WakeCarried
  BY Zenon DEF IInv, WakeGood, WakeCarried
<1>2. QED
  BY <1>1, ClientInvariant, PTL

(* No unwanted traffic (ws.ts 360-364, 742-745, 815-822): no automatic dial past
   a disconnect or a certificate latch, and no auth frame of an earlier attempt on
   a later attempt's socket. *)
THEOREM TrafficIsWanted == Spec => NoUnwantedTraffic
<1>1. IInv /\ [Next]_vars =>
        /\ [c'.gen > c.gen /\ c'.config /\ events' = events => c.config /\ ~c.certBlock]_vars
        /\ [\A g \in Gens : srv[g] = "idle" /\ srv'[g] = "auth" =>
               \A k \in c.keyWait \ c'.keyWait : k.dial >= g]_vars
  BY StepOK, Zenon DEF Preserved, DialWanted, AuthFresh
<1>2. QED
  BY <1>1, ClientInvariant, PTL DEF Spec, NoUnwantedTraffic, NoDialWhileBlocked, StaleAuthDropped

-----------------------------------------------------------------------------
(* The frame count: attempts, sockets and the gap timer.                   *)

\* An attempt that has not asked the host yet.
Before == {"none", "apis", "listen", "registered"}

\* The client would act on a gap.
Hears(s) == s.state = "connected" /\ s.proxyOpen /\ ~s.certBlock

\* Each attempt asks the host for its socket once.
DialGood ==
  /\ \A g \in Gens : c.att[g] \in Before => sock[g] = "none"
  /\ \A i \in 1..Len(c.cmds) : c.cmds[i].op = "connect" =>
       /\ sock[c.cmds[i].g] = "none" /\ c.att[c.cmds[i].g] \notin Before
       /\ \A j \in 1..Len(c.cmds) : c.cmds[j].op = "connect" /\ c.cmds[j].g = c.cmds[i].g => i = j

\* A socket opens once, with its server's count at zero, and alone.
OpenGood ==
  /\ \A g \in Gens : sock[g] \in {"none", "dialing"} => srv[g] = "idle" /\ sent[g] = 0
  /\ \A g \in Gens : sock[g] = "open" => c.att[g] = "done"
  /\ \A g, h \in Gens : sock[g] = "open" /\ sock[h] = "open" => g = h

\* The client's count is the server's, and a skipped frame has armed the timer.
CountGood ==
  owner \in Gens /\ owner = c.tgen /\ sock[owner] = "open" =>
    /\ c.lastCseq = sent[owner]
    /\ srv[owner] = "lossy" => c.gapTimer = c.socketId \/ ~Hears(c)

\* The gap timer belongs to the current socket; a close on purpose leaves an
\* unused generation.
TimerGood ==
  /\ c.socketId \in Nat /\ c.gapTimer \in {0, c.socketId} /\ sent \in [Gens -> Nat]
  /\ c.intentionalClose => Unused(c)

\* The inductive invariant of the frame count.
LInv == DialGood /\ OpenGood /\ CountGood /\ TimerGood

-----------------------------------------------------------------------------
\* A step that leaves the attempts, the commands and the frame count alone.
Fixed(s, n) ==
  /\ DOMAIN n = Fields
  /\ n.tgen = s.tgen /\ n.att = s.att /\ n.cmds = s.cmds
  /\ n.socketId = s.socketId /\ n.lastCseq = s.lastCseq
  /\ n.intentionalClose = s.intentionalClose

\* ... and the gap timer, unless the client no longer waits for it.
Calm(s, n) ==
  /\ Fixed(s, n)
  /\ n.gapTimer = s.gapTimer \/ (n.gapTimer = 0 /\ (~Hears(n) \/ Unused(n)))
  /\ Hears(n) => Hears(s)

\* A step that gives the transport a new generation.
Bumped(s, n) ==
  /\ n.tgen = s.tgen + 1 /\ n.socketId = s.socketId /\ n.gapTimer \in {0, s.gapTimer}
  /\ \/ n.att = s.att
     \/ n.att = [s.att EXCEPT ![s.tgen + 1] = "apis"] /\ ~n.intentionalClose
  /\ n.cmds = s.cmds \/ \E d \in Nat : n.cmds = Append(s.cmds, [op |-> "disconnect", g |-> d])

\* Quiet steps compose, as the handlers call one another.
LEMMA CalmTrans ==
  ASSUME NEW s, NEW n, NEW m, Calm(s, n), Calm(n, m)
  PROVE  Calm(s, m)
<1>1. Fixed(s, m) /\ (Hears(m) => Hears(s))
  BY Zenon DEF Calm, Fixed
<1>2. Unused(n) <=> Unused(m)
  BY Zenon DEF Calm, Fixed, Unused
<1> QED
  BY <1>1, <1>2, Zenon DEF Calm

\* A quiet step before a new generation.
LEMMA CalmBumped ==
  ASSUME NEW s, NEW n, NEW m, Calm(s, n), Bumped(n, m)
  PROVE  Bumped(s, m)
<1>1. n.tgen = s.tgen /\ n.att = s.att /\ n.cmds = s.cmds /\ n.socketId = s.socketId
  BY Zenon DEF Calm, Fixed
<1>2. n.gapTimer \in {0, s.gapTimer}
  BY Zenon DEF Calm
<1> QED
  BY <1>1, <1>2, Zenon DEF Bumped

\* Doing nothing is quiet.
LEMMA CalmSelf ==
  ASSUME NEW s, DOMAIN s = Fields
  PROVE  Calm(s, s)
BY Zenon DEF Calm, Fixed

\* Noting a suspend and arming the liveness timer leave the count alone.
LEMMA NoteSuspendCalm ==
  ASSUME NEW s, DOMAIN s = Fields
  PROVE  Calm(s, NoteSuspend(s))
<1> DEFINE n == NoteSuspend(s)
<1>1. Fixed(s, n) /\ n.gapTimer = s.gapTimer
  BY Zenon DEF Fields, NoteSuspend, Fixed
<1>2. Hears(n) = Hears(s)
  BY Zenon DEF Fields, NoteSuspend, Hears
<1> QED
  BY <1>1, <1>2, Zenon DEF Calm

\* Arming the liveness timer is quiet.
LEMMA ArmLivenessCalm ==
  ASSUME NEW s, DOMAIN s = Fields
  PROVE  Calm(s, ArmLiveness(s))
<1> DEFINE n == ArmLiveness(s)
<1>1. Fixed(s, n) /\ n.gapTimer = s.gapTimer
  BY Zenon DEF Fields, ArmLiveness, Fixed
<1>2. Hears(n) = Hears(s)
  BY Zenon DEF Fields, ArmLiveness, Hears
<1> QED
  BY <1>1, <1>2, Zenon DEF Calm

\* So is noting a wake.
LEMMA OnWakeCalm ==
  ASSUME NEW s, DOMAIN s = Fields
  PROVE  Calm(s, OnWake(s))
<1> DEFINE n == OnWake(s)
<1>1. Fixed(s, n) /\ n.gapTimer = s.gapTimer
  BY Zenon DEF Fields, OnWake, Fixed
<1>2. Hears(n) = Hears(s)
  BY Zenon DEF Fields, OnWake, Hears
<1> QED
  BY <1>1, <1>2, Zenon DEF Calm

\* The certificate latch stops a gap resume.
LEMMA HandleCertMismatchCalm ==
  ASSUME NEW s, DOMAIN s = Fields
  PROVE  Calm(s, HandleCertMismatch(s))
<1> DEFINE n == HandleCertMismatch(s)
<1>1. Fixed(s, n) /\ n.gapTimer = s.gapTimer
  BY Zenon DEF Fields, HandleCertMismatch, Fixed
<1>2. Hears(n) => Hears(s)
  BY Zenon DEF Fields, HandleCertMismatch, Hears
<1> QED
  BY <1>1, <1>2, Zenon DEF Calm

\* scheduleReconnect() leaves the connected state or changes nothing.
LEMMA ScheduleReconnectCalm ==
  ASSUME NEW s, DOMAIN s = Fields
  PROVE  Calm(s, ScheduleReconnect(s))
<1> DEFINE n == ScheduleReconnect(s)
<1>1. Fixed(s, n) /\ n.gapTimer = s.gapTimer
  BY Zenon DEF Fields, ScheduleReconnect, NoteSuspend, Fixed
<1>2. Hears(n) => Hears(s)
  BY Zenon DEF Fields, ScheduleReconnect, NoteSuspend, Hears
<1> QED
  BY <1>1, <1>2, Zenon DEF Calm

\* A closed socket needs no gap resume.
LEMMA HandleClosedCalm ==
  ASSUME NEW s, DOMAIN s = Fields
  PROVE  Calm(s, HandleClosed(s))
<1> DEFINE d == [s EXCEPT !.proxyOpen = FALSE, !.gapTimer = 0, !.heartbeat = FALSE,
                          !.liveness = FALSE,
                          !.wakeOwner = @ /\ ~s.intentionalClose /\ ~s.certBlock]
           e == [d EXCEPT !.state = "disconnected"]
<1>1. Fixed(s, d) /\ d.gapTimer = 0 /\ ~d.proxyOpen
  BY Zenon DEF Fields, Fixed
<1>2. Fixed(s, e) /\ e.gapTimer = 0 /\ ~e.proxyOpen
  BY Zenon DEF Fields, Fixed
<1>3. HandleClosed(s) = IF s.intentionalClose THEN e ELSE ScheduleReconnect(d)
  BY Zenon DEF HandleClosed
<1> HIDE DEF d, e
<1>4. Calm(s, d) /\ Calm(s, e)
  BY <1>1, <1>2, Zenon DEF Calm, Hears
<1>5. Calm(d, ScheduleReconnect(d))
  BY <1>1, ScheduleReconnectCalm, Zenon DEF Fixed
<1> QED
  BY <1>3, <1>4, <1>5, CalmTrans, Zenon

\* connect() and disconnect() start a new transport generation.
LEMMA ConnectBumped ==
  ASSUME NEW s, DOMAIN s = Fields, NEW t \in BOOLEAN
  PROVE  Bumped(s, Connect(s, t))
<1> DEFINE n == Connect(s, t)
<1>1. n.tgen = s.tgen + 1 /\ n.socketId = s.socketId /\ n.gapTimer = 0
  BY Zenon DEF Fields, Connect
<1>2. n.att = [s.att EXCEPT ![s.tgen + 1] = "apis"] /\ ~n.intentionalClose /\ n.cmds = s.cmds
  BY Zenon DEF Fields, Connect
<1> QED
  BY <1>1, <1>2, Zenon DEF Bumped

\* An automatic redial takes a new generation.
LEMMA RedialBumped ==
  ASSUME NEW s, DOMAIN s = Fields, s.config
  PROVE  Bumped(s, Redial(s))
<1> DEFINE d == [s EXCEPT !.reconnectTimer = FALSE]
           m == NoteSuspend(d)
<1>1. Fixed(s, d) /\ d.gapTimer = s.gapTimer /\ Hears(d) = Hears(s)
  BY Zenon DEF Fields, Fixed, Hears
<1>2. Redial(s) = Connect(m, FALSE)
  BY Zenon DEF Redial
<1> HIDE DEF d
<1>3. Calm(s, d) /\ DOMAIN d = Fields
  BY <1>1, Zenon DEF Calm, Fixed
<1>4. Calm(d, m)
  BY <1>3, NoteSuspendCalm, Zenon
<1> HIDE DEF m
<1>5. DOMAIN m = Fields
  BY <1>4, Zenon DEF Calm, Fixed
<1>6. Bumped(m, Connect(m, FALSE))
  BY <1>5, ConnectBumped, Zenon
<1> QED
  BY <1>2, <1>3, <1>4, <1>6, CalmTrans, CalmBumped, Zenon

\* So does telling the host to disconnect.
LEMMA DisconnectProxyBumped ==
  ASSUME NEW s, DOMAIN s = Fields, s.gen \in Nat
  PROVE  Bumped(s, DisconnectProxy(s)) /\ DOMAIN DisconnectProxy(s) = Fields
<1> DEFINE n == DisconnectProxy(s)
<1>1. n.tgen = s.tgen + 1 /\ n.socketId = s.socketId /\ n.gapTimer = s.gapTimer /\ n.att = s.att
  BY Zenon DEF Fields, DisconnectProxy
<1>2. n.cmds = Append(s.cmds, [op |-> "disconnect", g |-> s.gen]) /\ DOMAIN n = Fields
  BY Zenon DEF Fields, DisconnectProxy
<1> QED
  BY <1>1, <1>2, Zenon DEF Bumped

\* disconnect() takes a new generation and disarms the gap timer.
LEMMA DisconnectBumped ==
  ASSUME NEW s, DOMAIN s = Fields, s.gen \in Nat
  PROVE  Bumped(s, Disconnect(s))
<1> DEFINE n == Disconnect(s)
<1>1. n.tgen = s.tgen + 1 /\ n.socketId = s.socketId /\ n.gapTimer = 0 /\ n.att = s.att
  BY DEF Fields, Disconnect, DisconnectProxy
<1>2. n.cmds = Append(s.cmds, [op |-> "disconnect", g |-> s.gen + 1])
  BY Zenon DEF Fields, Disconnect, DisconnectProxy
<1>3. s.gen + 1 \in Nat
  OBVIOUS
<1> QED
  BY <1>1, <1>2, <1>3, Zenon DEF Bumped

\* What a handled frame does: most leave the count alone, auth_error and a
\* replaced session take a new generation.
LEMMA HandleMessageLoss ==
  ASSUME NEW s, DOMAIN s = Fields, s.gen \in Nat, NEW kind
  PROVE  LET n == HandleMessage(s, kind, 0)
         IN /\ kind \in {"SERVER_BUSY", "server_restart", "pong"} => Calm(s, n)
            /\ kind = "auth_ok" => Fixed(s, n) /\ n.gapTimer = s.gapTimer
            /\ kind \in {"auth_error", "SESSION_REPLACED"} => Bumped(s, n)
<1> DEFINE m == ArmLiveness(s)
           d == NoteSuspend(m)
           u == [d EXCEPT !.intentionalClose = TRUE]
           x == [DisconnectProxy(u) EXCEPT !.state = "disconnected"]
           y == [d EXCEPT !.busyHint = TRUE]
           z == [d EXCEPT !.restart = TRUE]
           o == [ArmLiveness(d)
                   EXCEPT !.state = "connected", !.pendingWake = FALSE,
                          !.heartbeat = TRUE, !.beatGap = FALSE, !.wakeOwner = TRUE]
           n == HandleMessage(s, kind, 0)
<1>1. n = CASE kind = "auth_error" -> x
            [] kind = "SERVER_BUSY" -> y
            [] kind = "server_restart" -> z
            [] kind = "SESSION_REPLACED" -> Disconnect(d)
            [] kind = "auth_ok" -> o
            [] OTHER -> d
  BY Zenon DEF HandleMessage
<1>2. m.gen = s.gen /\ m.gapTimer = s.gapTimer /\ DOMAIN m = Fields
  BY Zenon DEF ArmLiveness, Fields
<1>3. Calm(s, m)
  BY ArmLivenessCalm, Zenon
<1> HIDE DEF m, n
<1>4. d.gen = m.gen /\ d.gapTimer = m.gapTimer /\ DOMAIN d = Fields
  BY <1>2, Zenon DEF NoteSuspend, Fields
<1>5. Calm(s, d) /\ d.gen \in Nat /\ d.gapTimer = s.gapTimer
  BY <1>2, <1>3, <1>4, NoteSuspendCalm, CalmTrans, Zenon
<1> HIDE DEF d
<1>6. Calm(s, y) /\ Calm(s, z)
  <2>1. Fixed(d, y) /\ y.gapTimer = d.gapTimer /\ Hears(y) = Hears(d)
    BY <1>4, Zenon DEF Fixed, Fields, Hears
  <2>2. Fixed(d, z) /\ z.gapTimer = d.gapTimer /\ Hears(z) = Hears(d)
    BY <1>4, Zenon DEF Fixed, Fields, Hears
  <2> HIDE DEF y, z
  <2>3. Calm(d, y) /\ Calm(d, z)
    BY <2>1, <2>2, Zenon DEF Calm
  <2> QED
    BY <1>5, <2>3, CalmTrans, Zenon
<1>7. Fixed(s, o) /\ o.gapTimer = s.gapTimer
  <2> DEFINE e == ArmLiveness(d)
  <2>1. Calm(d, e)
    BY <1>4, ArmLivenessCalm, Zenon
  <2>2. DOMAIN e = Fields /\ e.gapTimer = d.gapTimer
    BY <1>4, Zenon DEF ArmLiveness, Fields
  <2>3. Calm(s, e)
    BY <1>5, <2>1, CalmTrans, Zenon
  <2> HIDE DEF e
  <2>4. Fixed(e, o) /\ o.gapTimer = e.gapTimer
    BY <2>2, Zenon DEF Fixed, Fields, e
  <2> QED
    BY <1>5, <2>2, <2>3, <2>4, Zenon DEF Fixed, Calm
<1>8. Bumped(s, Disconnect(d))
  BY <1>4, <1>5, DisconnectBumped, CalmBumped, Zenon
<1>9. Bumped(s, x)
  <2>1. /\ DOMAIN u = Fields /\ u.tgen = d.tgen /\ u.att = d.att /\ u.cmds = d.cmds
        /\ u.socketId = d.socketId /\ u.gapTimer = d.gapTimer /\ u.gen = d.gen
    BY <1>4, Zenon DEF Fields
  <2> DEFINE v == DisconnectProxy(u)
  <2> HIDE DEF u
  <2>2. v.tgen = u.tgen + 1 /\ v.socketId = u.socketId /\ v.gapTimer = u.gapTimer /\ v.att = u.att
    BY <2>1, Zenon DEF Fields, DisconnectProxy
  <2>3. v.cmds = Append(u.cmds, [op |-> "disconnect", g |-> u.gen]) /\ DOMAIN v = Fields
    BY <2>1, Zenon DEF Fields, DisconnectProxy
  <2>4. x = [v EXCEPT !.state = "disconnected"]
    BY Zenon
  <2> HIDE DEF v, x
  <2>5. x.tgen = v.tgen /\ x.socketId = v.socketId /\ x.gapTimer = v.gapTimer /\ x.att = v.att /\ x.cmds = v.cmds
    BY <2>3, <2>4, Zenon DEF Fields
  <2>6. Bumped(d, x)
    BY <1>5, <2>1, <2>2, <2>3, <2>5, Zenon DEF Bumped
  <2> QED
    BY <1>5, <2>6, CalmBumped, Zenon
<1> HIDE DEF x, y, z, o
<1>10. /\ kind \in {"SERVER_BUSY", "server_restart", "pong"} => Calm(s, n)
       /\ kind = "auth_ok" => Fixed(s, n) /\ n.gapTimer = s.gapTimer
       /\ kind \in {"auth_error", "SESSION_REPLACED"} => Bumped(s, n)
  BY <1>1, <1>5, <1>6, <1>7, <1>8, <1>9, Zenon
<1> QED
  BY <1>10, Zenon DEF n

\* noteCseq() on a numbered frame: the number is kept, a jump arms the timer.
LEMMA FrameCounted ==
  ASSUME NEW s, DOMAIN s = Fields, NEW q, q # 0
  PROVE  LET n == HandleMessage(s, "frame", q)
         IN /\ n.tgen = s.tgen /\ n.att = s.att /\ n.cmds = s.cmds
            /\ n.socketId = s.socketId /\ n.lastCseq = q
            /\ n.intentionalClose = s.intentionalClose
            /\ n.gapTimer = IF q = s.lastCseq + 1 \/ s.gapTimer # 0 THEN s.gapTimer ELSE s.socketId
            /\ Hears(n) => Hears(s)
<1> DEFINE m == ArmLiveness(s)
           d == NoteSuspend(m)
           n == NoteCseq(d, q)
<1>1. HandleMessage(s, "frame", q) = n
  BY Zenon DEF HandleMessage
<1>2. m.gapTimer = s.gapTimer /\ DOMAIN m = Fields
  BY Zenon DEF ArmLiveness, Fields
<1>3. Calm(s, m)
  BY ArmLivenessCalm, Zenon
<1> HIDE DEF m
<1>4. d.gapTimer = m.gapTimer /\ DOMAIN d = Fields
  BY <1>2, Zenon DEF NoteSuspend, Fields
<1>5. Calm(s, d) /\ d.gapTimer = s.gapTimer
  BY <1>2, <1>3, <1>4, NoteSuspendCalm, CalmTrans, Zenon
<1> HIDE DEF d
<1>6. /\ n.tgen = d.tgen /\ n.att = d.att /\ n.cmds = d.cmds /\ n.socketId = d.socketId
      /\ n.lastCseq = q /\ n.intentionalClose = d.intentionalClose
  BY <1>4, Zenon DEF NoteCseq, Fields
<1>7. /\ n.gapTimer = IF q = d.lastCseq + 1 \/ d.gapTimer # 0 THEN d.gapTimer ELSE d.socketId
      /\ Hears(n) = Hears(d)
  BY <1>4, Zenon DEF NoteCseq, Fields, Hears
<1> HIDE DEF n
<1> QED
  BY <1>1, <1>5, <1>6, <1>7, Zenon DEF Calm, Fixed

-----------------------------------------------------------------------------
\* A step that fixes attempts and commands and moves no socket.
LEMMA FixedStep ==
  ASSUME LInv, Fixed(c, c'), c'.gapTimer \in {0, c.gapTimer}, UNCHANGED <<owner, sock, sent>>,
         \A g \in Gens : sock[g] # "open" => srv'[g] = srv[g], CountGood'
  PROVE  LInv'
<1>1. /\ c'.tgen = c.tgen /\ c'.att = c.att /\ c'.cmds = c.cmds /\ c'.socketId = c.socketId
      /\ c'.intentionalClose = c.intentionalClose /\ sock' = sock /\ sent' = sent
  BY Zenon DEF Fixed
<1>2. DialGood'
  BY <1>1 DEF LInv, DialGood
<1>3. OpenGood'
  <2>1. \A g \in Gens : sock'[g] \in {"none", "dialing"} => srv'[g] = "idle" /\ sent'[g] = 0
    BY <1>1, Zenon DEF LInv, OpenGood
  <2> QED
    BY <1>1, <2>1 DEF LInv, OpenGood
<1>4. TimerGood'
  BY <1>1, Zenon DEF LInv, TimerGood, Unused
<1> QED
  BY <1>2, <1>3, <1>4, Zenon DEF LInv

\* Without an attempt the current generation has no socket.
LEMMA UnusedClosed ==
  ASSUME LInv, Unused(c), c.tgen \in Gens
  PROVE  sock[c.tgen] = "none"
BY Zenon DEF LInv, DialGood, Before, Unused

\* A quiet step of the client.
LEMMA CalmStep ==
  ASSUME LInv, Calm(c, c'), UNCHANGED <<owner, sock, sent>>,
         \A g \in Gens : srv'[g] # srv[g] => sock[g] = "open" /\ srv'[g] # "lossy"
  PROVE  LInv'
<1>1. /\ c'.tgen = c.tgen /\ c'.lastCseq = c.lastCseq /\ c'.socketId = c.socketId
      /\ sock' = sock /\ sent' = sent /\ owner' = owner /\ Fixed(c, c')
      /\ Unused(c) <=> Unused(c')
  BY Zenon DEF Calm, Fixed, Unused
<1>2. CountGood'
  <2> SUFFICES ASSUME owner' \in Gens, owner' = c'.tgen, sock'[owner'] = "open"
               PROVE  /\ c'.lastCseq = sent'[owner']
                      /\ srv'[owner'] = "lossy" => c'.gapTimer = c'.socketId \/ ~Hears(c')
    BY Zenon DEF CountGood
  <2>1. ~Unused(c')
    BY <1>1, UnusedClosed, Zenon
  <2>2. /\ c.lastCseq = sent[owner]
        /\ srv[owner] = "lossy" => c.gapTimer = c.socketId \/ ~Hears(c)
    BY <1>1, Zenon DEF LInv, CountGood
  <2> QED
    BY <1>1, <2>1, <2>2, Zenon DEF Calm
<1>3. c'.gapTimer \in {0, c.gapTimer}
  BY Zenon DEF Calm
<1> QED
  BY <1>1, <1>2, <1>3, FixedStep, Zenon

\* A step to a new transport generation, under which no socket is open.
LEMMA BumpStep ==
  ASSUME IInv, LInv, Bumped(c, c'), UNCHANGED <<owner, sock, sent>>,
         \A g \in Gens : sock[g] # "open" => srv'[g] = srv[g]
  PROVE  LInv'
<1>1. /\ c'.tgen = c.tgen + 1 /\ c'.socketId = c.socketId /\ c'.gapTimer \in {0, c.gapTimer}
      /\ sock' = sock /\ sent' = sent /\ owner' = owner
  BY Zenon DEF Bumped
<1>2. c.att \in [Gens -> Phases] /\ c.cmds \in Seq([op : {"connect", "disconnect"}, g : Nat]) /\ c.tgen \in Nat
  BY Zenon DEF IInv, Good, Client
<1>3. c.tgen + 1 \in Gens => c.att[c.tgen + 1] = "none" /\ sock[c.tgen + 1] = "none"
  <2>1. c.tgen + 1 > c.tgen
    BY <1>2
  <2> QED
    BY <2>1, Zenon DEF IInv, Good, LInv, DialGood, Before
<1>4. \A g \in Gens : g = c.tgen + 1 \/ c'.att[g] = c.att[g]
  BY <1>2, Zenon DEF Bumped
<1>5. \A g \in Gens : c.att[g] \notin Before => c'.att[g] = c.att[g]
  BY <1>3, <1>4, Zenon DEF Before
<1>6. \A i \in 1..Len(c'.cmds) : c'.cmds[i].op = "connect" => i \in 1..Len(c.cmds) /\ c'.cmds[i] = c.cmds[i]
  <2>1. CASE c'.cmds = c.cmds
    BY <2>1, Zenon
  <2>2. ASSUME NEW d \in Nat, c'.cmds = Append(c.cmds, [op |-> "disconnect", g |-> d])
        PROVE  \A i \in 1..Len(c'.cmds) : c'.cmds[i].op = "connect" => i \in 1..Len(c.cmds) /\ c'.cmds[i] = c.cmds[i]
    <3> DEFINE e == [op |-> "disconnect", g |-> d]
               w == Append(c.cmds, e)
    <3>1. e.op # "connect"
      BY Zenon
    <3> HIDE DEF e
    <3>2. \A i \in 1..Len(w) : (i \in 1..Len(c.cmds) /\ w[i] = c.cmds[i]) \/ w[i] = e
      BY <1>2
    <3>3. c'.cmds = w
      BY <2>2, Zenon DEF e
    <3> QED
      BY <3>1, <3>2, <3>3, Zenon
  <2> QED
    BY <2>1, <2>2, Zenon DEF Bumped
<1>7. DialGood'
  <2>1. \A g \in Gens : c'.att[g] \in Before => sock'[g] = "none"
    BY <1>1, <1>3, <1>4, Zenon DEF LInv, DialGood
  <2>2. \A i \in 1..Len(c'.cmds) : c'.cmds[i].op = "connect" =>
          /\ sock'[c'.cmds[i].g] = "none" /\ c'.att[c'.cmds[i].g] \notin Before
          /\ \A j \in 1..Len(c'.cmds) : c'.cmds[j].op = "connect" /\ c'.cmds[j].g = c'.cmds[i].g => i = j
    <3> SUFFICES ASSUME NEW i \in 1..Len(c'.cmds), c'.cmds[i].op = "connect"
                 PROVE  /\ sock'[c'.cmds[i].g] = "none" /\ c'.att[c'.cmds[i].g] \notin Before
                        /\ \A j \in 1..Len(c'.cmds) : c'.cmds[j].op = "connect" /\ c'.cmds[j].g = c'.cmds[i].g => i = j
      BY Zenon
    <3>1. i \in 1..Len(c.cmds) /\ c'.cmds[i] = c.cmds[i] /\ c.cmds[i].g \in Gens
      BY <1>6, Zenon DEF IInv, Good
    <3>2. sock[c.cmds[i].g] = "none" /\ c.att[c.cmds[i].g] \notin Before
      BY <3>1, Zenon DEF LInv, DialGood
    <3>3. \A j \in 1..Len(c'.cmds) : c'.cmds[j].op = "connect" /\ c'.cmds[j].g = c'.cmds[i].g => i = j
      BY <1>6, <3>1, Zenon DEF LInv, DialGood
    <3> QED
      BY <1>1, <1>5, <3>1, <3>2, <3>3, Zenon
  <2> QED
    BY <2>1, <2>2, Zenon DEF DialGood
<1>8. OpenGood'
  <2>1. \A g \in Gens : sock'[g] \in {"none", "dialing"} => srv'[g] = "idle" /\ sent'[g] = 0
    BY <1>1, Zenon DEF LInv, OpenGood
  <2>2. \A g \in Gens : sock'[g] = "open" => c'.att[g] = "done"
    <3>1. "done" \notin Before
      BY Zenon DEF Before
    <3> QED
      BY <1>1, <1>5, <3>1, Zenon DEF LInv, OpenGood
  <2> QED
    BY <1>1, <2>1, <2>2 DEF LInv, OpenGood
<1>9. CountGood'
  BY <1>1, <1>3, Zenon DEF CountGood
<1>10. TimerGood'
  BY <1>1, <1>3, Zenon DEF LInv, TimerGood, Bumped, Unused
<1> QED
  BY <1>7, <1>8, <1>9, <1>10, Zenon DEF LInv

-----------------------------------------------------------------------------
(* Every step keeps the count.                                             *)

\* The timers and the wake signal dial a new generation or leave the count alone.
LEMMA TimersCount ==
  ASSUME IInv, LInv, Timers \/ WakeSignal
  PROVE  LInv'
<1>0. DOMAIN c = Fields
  BY Zenon DEF IInv, Good, Client
<1>1. UNCHANGED <<owner, sock, srv, sent>>
  BY Zenon DEF Timers, ReconnectFires, GapFires, LivenessFires, WakeSignal, host
<1>2. Calm(c, c') \/ Bumped(c, c')
  <2>1. CASE ReconnectFires
    <3>1. c' = Redial(c) /\ c.config
      BY <2>1, Zenon DEF ReconnectFires, AutoDial, IInv, Good, Off
    <3> QED
      BY <1>0, <3>1, RedialBumped, Zenon
  <2>2. CASE GapFires
    <3> DEFINE d == [c EXCEPT !.gapTimer = 0]
               e == [d EXCEPT !.proxyOpen = FALSE, !.heartbeat = FALSE, !.liveness = FALSE,
                              !.reconnectTimer = FALSE, !.state = "reconnecting"]
    <3>1. c.gapTimer = c.socketId
      BY <2>2, Zenon DEF GapFires, LInv, TimerGood
    <3>2. c' = ResumeForGap(d)
      BY <2>2, <3>1, Zenon DEF GapFires, AutoDial
    <3>3. /\ Fixed(c, d) /\ d.gapTimer = 0 /\ Hears(d) = Hears(c) /\ d.config = c.config
          /\ d.state = c.state /\ d.proxyOpen = c.proxyOpen /\ d.certBlock = c.certBlock
      BY <1>0, Zenon DEF Fixed, Fields, Hears
    <3>4. /\ c' = IF d.intentionalClose \/ d.certBlock \/ ~d.config \/ d.state # "connected" \/ ~d.proxyOpen
                  THEN d ELSE Redial(e)
      BY <3>2, Zenon DEF ResumeForGap
    <3>5. /\ e.tgen = d.tgen /\ e.att = d.att /\ e.cmds = d.cmds /\ e.socketId = d.socketId
          /\ e.gapTimer = 0 /\ e.config = d.config /\ DOMAIN e = Fields
      BY <1>0, Zenon DEF Fields
    <3> HIDE DEF d, e
    <3>6. Unused(d) <=> Unused(c)
      BY <3>3, Zenon DEF Fixed, Unused
    <3>7. CASE d.intentionalClose \/ d.certBlock \/ ~d.config \/ d.state # "connected" \/ ~d.proxyOpen
      <4>1. ~Hears(d) \/ Unused(d)
        BY <3>3, <3>6, <3>7, Zenon DEF Fixed, LInv, TimerGood, Hears, IInv, Good, Off
      <4>2. c' = d
        BY <3>4, <3>7, Zenon
      <4> QED
        BY <3>3, <4>1, <4>2, Zenon DEF Calm
    <3>8. CASE ~(d.intentionalClose \/ d.certBlock \/ ~d.config \/ d.state # "connected" \/ ~d.proxyOpen)
      <4>1. Bumped(e, Redial(e)) /\ c' = Redial(e)
        BY <3>4, <3>5, <3>8, RedialBumped, Zenon
      <4>2. e.tgen = c.tgen /\ e.att = c.att /\ e.cmds = c.cmds /\ e.socketId = c.socketId
        BY <3>3, <3>5, Zenon DEF Fixed
      <4> QED
        BY <3>5, <4>1, <4>2, Zenon DEF Bumped
    <3> QED
      BY <3>7, <3>8, Zenon
  <2>3. CASE LivenessFires
    <3> DEFINE d == [c EXCEPT !.liveness = FALSE]
               e == [d EXCEPT !.proxyOpen = FALSE, !.heartbeat = FALSE]
    <3>1. c' = d \/ c' = ScheduleReconnect(e)
      BY <2>3, Zenon DEF LivenessFires
    <3>2. Fixed(c, d) /\ d.gapTimer = c.gapTimer /\ Hears(d) = Hears(c)
      BY <1>0, Zenon DEF Fixed, Fields, Hears
    <3>3. Fixed(c, e) /\ e.gapTimer = c.gapTimer /\ ~e.proxyOpen
      BY <1>0, Zenon DEF Fixed, Fields
    <3> HIDE DEF d, e
    <3>4. Calm(c, d) /\ Calm(c, e) /\ DOMAIN e = Fields
      BY <3>2, <3>3, Zenon DEF Calm, Hears, Fixed
    <3> QED
      BY <3>1, <3>4, ScheduleReconnectCalm, CalmTrans, Zenon
  <2>4. CASE WakeSignal
    <3>1. CASE AutoDial(OnWake(c))
      BY <1>0, <3>1, OnWakeCalm, Zenon DEF AutoDial
    <3>2. CASE c.config /\ AutoDial(Redial([c EXCEPT !.reconnectTimer = FALSE]))
      <4> DEFINE d == [c EXCEPT !.reconnectTimer = FALSE]
      <4>1. Fixed(c, d) /\ d.gapTimer = c.gapTimer /\ Hears(d) = Hears(c) /\ d.config = c.config
        BY <1>0, Zenon DEF Fixed, Fields, Hears
      <4>2. c' = Redial(d)
        BY <3>2, Zenon DEF AutoDial
      <4> HIDE DEF d
      <4>3. Calm(c, d) /\ Bumped(d, c')
        BY <3>2, <4>1, <4>2, RedialBumped, Zenon DEF Calm, Fixed
      <4> QED
        BY <4>3, CalmBumped, Zenon
    <3> QED
      BY <2>4, <3>1, <3>2, Zenon DEF WakeSignal
  <2> QED
    BY <2>1, <2>2, <2>3, <2>4, Zenon DEF Timers
<1> QED
  BY <1>1, <1>2, CalmStep, BumpStep, Zenon

\* The other steps of the client alone, the user's and the machine's.
LEMMA ClientCount ==
  ASSUME IInv, LInv,
         \/ HeartbeatTick \/ Silence \/ Sleep \/ UserDisconnect \/ RestCertMismatch
         \/ (\E g \in Gens : ProxyClosed(g)) \/ (\E t \in BOOLEAN : UserConnect(t))
  PROVE  LInv'
<1>0. DOMAIN c = Fields /\ c.gen \in Nat
  BY Zenon DEF IInv, Good, Client
<1>1. UNCHANGED <<owner, sock, srv, sent>>
  BY Zenon DEF HeartbeatTick, Silence, Sleep, UserDisconnect, RestCertMismatch, ProxyClosed, UserConnect, host
<1>2. Calm(c, c') \/ Bumped(c, c')
  <2>1. CASE HeartbeatTick
    <3> DEFINE d == [c EXCEPT !.slept = FALSE, !.beatGap = FALSE]
               e == [d EXCEPT !.pendingWake = TRUE]
               f == [d EXCEPT !.ping = "young"]
    <3>1. c' = OnWake(e) \/ c' = f \/ c' = d
      BY <2>1, Zenon DEF HeartbeatTick
    <3>2. Fixed(c, d) /\ d.gapTimer = c.gapTimer /\ Hears(d) = Hears(c)
      BY <1>0, Zenon DEF Fixed, Fields, Hears
    <3>3. Fixed(c, e) /\ e.gapTimer = c.gapTimer /\ Hears(e) = Hears(c)
      BY <1>0, Zenon DEF Fixed, Fields, Hears
    <3>4. Fixed(c, f) /\ f.gapTimer = c.gapTimer /\ Hears(f) = Hears(c)
      BY <1>0, Zenon DEF Fixed, Fields, Hears
    <3> HIDE DEF d, e, f
    <3>5. Calm(c, d) /\ Calm(c, e) /\ Calm(c, f) /\ DOMAIN e = Fields
      BY <3>2, <3>3, <3>4, Zenon DEF Calm, Fixed
    <3> QED
      BY <3>1, <3>5, OnWakeCalm, CalmTrans, Zenon
  <2>2. CASE Silence
    <3>1. Fixed(c, c') /\ c'.gapTimer = c.gapTimer /\ Hears(c') = Hears(c)
      BY <1>0, <2>2, Zenon DEF Silence, Fixed, Fields, Hears
    <3> QED
      BY <3>1, Zenon DEF Calm
  <2>3. CASE Sleep
    <3>1. Fixed(c, c') /\ c'.gapTimer = c.gapTimer /\ Hears(c') = Hears(c)
      BY <1>0, <2>3, Zenon DEF Sleep, Fixed, Fields, Hears
    <3> QED
      BY <3>1, Zenon DEF Calm
  <2>4. CASE UserDisconnect
    BY <1>0, <2>4, DisconnectBumped, Zenon DEF UserDisconnect
  <2>5. CASE RestCertMismatch
    BY <1>0, <2>5, HandleCertMismatchCalm, Zenon DEF RestCertMismatch
  <2>6. ASSUME NEW g \in Gens, ProxyClosed(g) PROVE Calm(c, c')
    <3>1. Fixed(c, c') /\ c'.gapTimer = c.gapTimer /\ (Hears(c') => Hears(c))
      BY <1>0, <2>6, Zenon DEF ProxyClosed, Fixed, Fields, Hears
    <3> QED
      BY <3>1, Zenon DEF Calm
  <2>7. ASSUME NEW t \in BOOLEAN, UserConnect(t) PROVE Bumped(c, c')
    BY <1>0, <2>7, ConnectBumped, Zenon DEF UserConnect
  <2> QED
    BY <2>1, <2>2, <2>3, <2>4, <2>5, <2>6, <2>7, Zenon
<1> QED
  BY <1>1, <1>2, CalmStep, BumpStep, Zenon

\* The key lookup settles: an auth frame reaches an open socket that had none.
LEMMA KeySettlesCount ==
  ASSUME IInv, LInv, NEW k \in c.keyWait, KeySettles(k)
  PROVE  LInv'
<1>0. DOMAIN c = Fields
  BY Zenon DEF IInv, Good, Client
<1>1. UNCHANGED <<owner, sock, sent>>
  BY Zenon DEF KeySettles
<1>2. Fixed(c, c') /\ c'.gapTimer = c.gapTimer /\ Hears(c') = Hears(c)
  BY <1>0, Zenon DEF KeySettles, Fixed, Fields, Hears
<1>3. \A g \in Gens : srv'[g] # srv[g] => sock[g] = "open" /\ srv'[g] # "lossy"
  BY Zenon DEF KeySettles, IInv, HostGood
<1> QED
  BY <1>1, <1>2, <1>3, CalmStep, Zenon DEF Calm

\* What a new phase of an attempt leaves alone.
LEMMA PhaseOnly ==
  ASSUME NEW s, DOMAIN s = Fields, s.att \in [Gens -> Phases], NEW g \in Gens, NEW p,
         NEW n, n = [s EXCEPT !.att[g] = p]
  PROVE  /\ DOMAIN n = Fields /\ n.tgen = s.tgen /\ n.cmds = s.cmds
         /\ n.socketId = s.socketId /\ n.lastCseq = s.lastCseq
         /\ n.intentionalClose = s.intentionalClose
         /\ n.gapTimer = s.gapTimer /\ Hears(n) = Hears(s)
         /\ n.att[g] = p /\ \A h \in Gens : h # g => n.att[h] = s.att[h]
<1>1. /\ DOMAIN n = Fields /\ n.tgen = s.tgen /\ n.cmds = s.cmds
      /\ n.socketId = s.socketId /\ n.lastCseq = s.lastCseq
      /\ n.intentionalClose = s.intentionalClose /\ n.gapTimer = s.gapTimer
  BY Zenon DEF Fields
<1>2. Hears(n) = Hears(s)
  BY Zenon DEF Fields, Hears
<1>3. n.att = [s.att EXCEPT ![g] = p]
  BY Zenon DEF Fields
<1>4. n.att[g] = p /\ \A h \in Gens : h # g => n.att[h] = s.att[h]
  BY <1>3, Zenon
<1> QED
  BY <1>1, <1>2, <1>4, Zenon

\* A socket goes down, or its dial is rejected; whatever the client makes of it
\* leaves the count alone.
LEMMA SocketDown ==
  ASSUME IInv, LInv, NEW d, Calm(c, d), NEW g \in Gens, sock[g] \in {"dialing", "open", "ended"},
         NEW v \in {"ended", "gone"}, sock' = [sock EXCEPT ![g] = v], UNCHANGED <<owner, srv, sent>>,
         c'.tgen = d.tgen, c'.cmds = d.cmds, c'.socketId = d.socketId, c'.lastCseq = d.lastCseq,
         c'.intentionalClose = d.intentionalClose, c'.gapTimer = d.gapTimer, Hears(c') = Hears(d),
         \A h \in Gens : h # g => c'.att[h] = d.att[h],
         c'.att[g] = d.att[g] \/ c'.att[g] = "rejected"
  PROVE  LInv'
<1>1. /\ c'.tgen = c.tgen /\ c'.cmds = c.cmds /\ c'.socketId = c.socketId /\ c'.lastCseq = c.lastCseq
      /\ c'.intentionalClose = c.intentionalClose
      /\ \A h \in Gens : h # g => c'.att[h] = c.att[h]
      /\ c'.att[g] = c.att[g] \/ c'.att[g] = "rejected"
  BY Zenon DEF Calm, Fixed
<1>2. /\ c'.gapTimer = c.gapTimer \/ (c'.gapTimer = 0 /\ (~Hears(c') \/ Unused(c)))
      /\ Hears(c') => Hears(c)
  BY Zenon DEF Calm, Fixed, Unused
<1>3. /\ sock'[g] = v /\ \A h \in Gens : h # g => sock'[h] = sock[h]
      /\ v # "none" /\ v # "dialing" /\ v # "open" /\ sock[g] # "none"
  BY Zenon DEF IInv, HostGood
<1>4. c.att[g] \notin Before /\ "rejected" \notin Before
  BY <1>3, Zenon DEF LInv, DialGood, Before
<1>5. DialGood'
  <2>1. \A h \in Gens : c'.att[h] \in Before => sock'[h] = "none"
    BY <1>1, <1>3, <1>4 DEF LInv, DialGood
  <2>2. ASSUME NEW i \in 1..Len(c.cmds), c.cmds[i].op = "connect"
        PROVE  sock'[c.cmds[i].g] = "none" /\ c'.att[c.cmds[i].g] \notin Before
    <3>1. c.cmds[i].g \in Gens /\ sock[c.cmds[i].g] = "none" /\ c.att[c.cmds[i].g] \notin Before
      BY <2>2, Zenon DEF LInv, DialGood, IInv, Good
    <3> QED
      BY <1>1, <1>3, <3>1, Zenon
  <2>3. \A i, j \in 1..Len(c.cmds) :
          c.cmds[i].op = "connect" /\ c.cmds[j].op = "connect" /\ c.cmds[j].g = c.cmds[i].g => i = j
    BY Zenon DEF DialGood, LInv
  <2> QED
    BY <1>1, <2>1, <2>2, <2>3 DEF DialGood
<1>6. OpenGood'
  <2>1. \A h \in Gens : sock'[h] \in {"none", "dialing"} => srv'[h] = "idle" /\ sent'[h] = 0
    BY <1>3, Zenon DEF LInv, OpenGood
  <2>2. \A h \in Gens : sock'[h] = "open" => h # g /\ sock[h] = "open"
    BY <1>3, Zenon
  <2>3. \A h \in Gens : sock'[h] = "open" => c'.att[h] = "done"
    BY <1>1, <2>2 DEF LInv, OpenGood
  <2>4. \A h, k \in Gens : sock'[h] = "open" /\ sock'[k] = "open" => h = k
    BY <2>2, Zenon DEF LInv, OpenGood
  <2> QED
    BY <2>1, <2>3, <2>4, Zenon DEF OpenGood
<1>7. TimerGood'
  <2>1. c'.gapTimer \in {0, c.gapTimer}
    BY <1>2, Zenon
  <2>2. Unused(c) => Unused(c')
    <3> SUFFICES ASSUME Unused(c), c.tgen \in Gens PROVE c'.att[c.tgen] = "none"
      BY <1>1, Zenon DEF Unused
    <3>1. c.att[c.tgen] = "none" /\ c.tgen # g
      BY <1>4, Zenon DEF Unused, Before
    <3> QED
      BY <1>1, <3>1, Zenon
  <2> QED
    BY <1>1, <2>1, <2>2, Zenon DEF LInv, TimerGood
<1>8. CountGood'
  <2> SUFFICES ASSUME owner \in Gens, owner = c.tgen, sock'[owner] = "open"
               PROVE  /\ c.lastCseq = sent[owner]
                      /\ srv[owner] = "lossy" => c'.gapTimer = c.socketId \/ ~Hears(c')
    BY <1>1, Zenon DEF CountGood
  <2>1. sock[owner] = "open"
    BY <1>3, Zenon
  <2>2. ~Unused(c)
    BY <2>1, UnusedClosed, Zenon
  <2> QED
    BY <1>2, <2>1, <2>2, Zenon DEF LInv, CountGood
<1> QED
  BY <1>5, <1>6, <1>7, <1>8, Zenon DEF LInv

\* The host refuses a dial, ends a socket or announces its close.
LEMMA HostDownCount ==
  ASSUME IInv, LInv, NEW g \in Gens,
         HostEnd(g) \/ HostClosed(g) \/ \E mismatch \in BOOLEAN : HostRefuse(g, mismatch)
  PROVE  LInv'
<1>0. DOMAIN c = Fields /\ c.att \in [Gens -> Phases]
  BY Zenon DEF IInv, Good, Client
<1>1. UNCHANGED <<owner, srv, sent>>
  BY Zenon DEF HostEnd, HostClosed, HostRefuse
<1>2. CASE HostEnd(g)
  <2>1. c' = c /\ sock' = [sock EXCEPT ![g] = "ended"] /\ sock[g] = "open"
    BY <1>2, Zenon DEF HostEnd
  <2>2. Calm(c, c)
    BY <1>0, CalmSelf, Zenon
  <2> QED
    BY <1>1, <2>1, <2>2, SocketDown, Zenon
<1>3. CASE HostClosed(g)
  <2>1. (c' = c \/ c' = HandleClosed(c)) /\ sock' = [sock EXCEPT ![g] = "gone"] /\ sock[g] = "ended"
    BY <1>3, Zenon DEF HostClosed, Delivered
  <2>2. Calm(c, c')
    BY <1>0, <2>1, CalmSelf, HandleClosedCalm, Zenon
  <2> QED
    BY <1>1, <2>1, <2>2, SocketDown, Zenon
<1>4. ASSUME NEW mismatch \in BOOLEAN, HostRefuse(g, mismatch) PROVE LInv'
  <2> DEFINE d == IF mismatch THEN HandleCertMismatch(c) ELSE c
  <2>1. c' = [d EXCEPT !.att[g] = "rejected"] /\ sock' = [sock EXCEPT ![g] = "gone"] /\ sock[g] = "dialing"
    BY <1>4, Zenon DEF HostRefuse, Reject
  <2>2. Calm(c, d)
    BY <1>0, CalmSelf, HandleCertMismatchCalm, Zenon
  <2> HIDE DEF d
  <2>3. DOMAIN d = Fields /\ d.att \in [Gens -> Phases]
    BY <1>0, <2>2, Zenon DEF Calm, Fixed
  <2>4. /\ c'.tgen = d.tgen /\ c'.cmds = d.cmds /\ c'.socketId = d.socketId /\ c'.lastCseq = d.lastCseq
        /\ c'.intentionalClose = d.intentionalClose /\ c'.gapTimer = d.gapTimer /\ Hears(c') = Hears(d)
        /\ c'.att[g] = "rejected" /\ \A h \in Gens : h # g => c'.att[h] = d.att[h]
    BY <2>1, <2>3, PhaseOnly, SMTT(30)
  <2> QED
    BY <1>1, <2>1, <2>2, <2>4, SocketDown, Zenon
<1> QED
  BY <1>2, <1>3, <1>4, Zenon

\* The host takes the oldest command: the attempt it dials had no socket.
LEMMA HostCommandCount ==
  ASSUME IInv, LInv, HostCommand
  PROVE  LInv'
<1> DEFINE cmd == Head(c.cmds)
<1>0. /\ DOMAIN c = Fields /\ c.cmds \in Seq([op : {"connect", "disconnect"}, g : Nat]) /\ c.cmds # <<>>
      /\ sock \in [Gens -> {"none", "dialing", "open", "ended", "gone"}]
  BY Zenon DEF IInv, Good, Client, HostGood, HostCommand
<1>1. /\ c'.tgen = c.tgen /\ c'.att = c.att /\ c'.socketId = c.socketId /\ c'.cmds = Tail(c.cmds)
      /\ c'.gapTimer = c.gapTimer /\ c'.intentionalClose = c.intentionalClose
  BY <1>0, Zenon DEF HostCommand, Fields
<1>2. UNCHANGED <<srv, sent>>
  BY Zenon DEF HostCommand
<1>3. /\ 1 \in 1..Len(c.cmds) /\ cmd = c.cmds[1]
      /\ \A i \in 1..Len(c'.cmds) : i + 1 \in 1..Len(c.cmds) /\ c'.cmds[i] = c.cmds[i + 1] /\ i + 1 # 1
      /\ \A i, j \in 1..Len(c'.cmds) : i + 1 = j + 1 => i = j
  BY <1>0, <1>1
<1>4. \/ cmd.op = "connect" /\ owner' = cmd.g /\ sock' = [sock EXCEPT ![cmd.g] = "dialing"]
      \/ cmd.op # "connect" /\ owner' = 0 /\ sock' = sock
  BY Zenon DEF HostCommand
<1> HIDE DEF cmd
<1>5. cmd.op = "connect" =>
        /\ cmd.g \in Gens /\ sock[cmd.g] = "none" /\ c.att[cmd.g] \notin Before
        /\ \A i \in 1..Len(c'.cmds) : c'.cmds[i].op = "connect" => c'.cmds[i].g # cmd.g
  BY <1>3, Zenon DEF LInv, DialGood, IInv, Good
<1>6. \A h \in Gens : sock'[h] = sock[h] \/ (cmd.op = "connect" /\ h = cmd.g /\ sock'[h] = "dialing")
  BY <1>0, <1>4, <1>5, Zenon
<1>7. DialGood'
  <2>1. \A g \in Gens : c'.att[g] \in Before => sock'[g] = "none"
    BY <1>1, <1>5, <1>6, Zenon DEF LInv, DialGood
  <2>2. ASSUME NEW i \in 1..Len(c'.cmds), c'.cmds[i].op = "connect"
        PROVE  /\ sock'[c'.cmds[i].g] = "none" /\ c'.att[c'.cmds[i].g] \notin Before
               /\ \A j \in 1..Len(c'.cmds) : c'.cmds[j].op = "connect" /\ c'.cmds[j].g = c'.cmds[i].g => i = j
    <3>0. i + 1 \in 1..Len(c.cmds) /\ c'.cmds[i] = c.cmds[i + 1] /\ c.cmds[i + 1].op = "connect"
      BY <1>3, <2>2, Zenon
    <3>1. /\ c'.cmds[i].g \in Gens /\ sock[c'.cmds[i].g] = "none" /\ c.att[c'.cmds[i].g] \notin Before
      BY <3>0, Zenon DEF LInv, DialGood, IInv, Good
    <3>2. sock'[c'.cmds[i].g] = "none"
      BY <1>5, <1>6, <2>2, <3>1, Zenon
    <3>3. ASSUME NEW j \in 1..Len(c'.cmds), c'.cmds[j].op = "connect", c'.cmds[j].g = c'.cmds[i].g PROVE i = j
      <4>0. j + 1 \in 1..Len(c.cmds) /\ c.cmds[j + 1].op = "connect" /\ c.cmds[j + 1].g = c.cmds[i + 1].g
        BY <1>3, <3>0, <3>3, Zenon
      <4>1. i + 1 = j + 1
        BY <3>0, <4>0, Zenon DEF LInv, DialGood
      <4> QED
        BY <1>3, <4>1, Zenon
    <3> QED
      BY <1>1, <3>1, <3>2, <3>3, Zenon
  <2> QED
    BY <2>1, <2>2, Zenon DEF DialGood
<1>8. \A h \in Gens : sock'[h] = "open" => sock[h] = "open"
  BY <1>6, Zenon
<1>9. OpenGood'
  <2>1. \A h \in Gens : sock'[h] \in {"none", "dialing"} => sock[h] \in {"none", "dialing"}
    BY <1>5, <1>6, Zenon
  <2>2. \A h \in Gens : sock'[h] \in {"none", "dialing"} => srv'[h] = "idle" /\ sent'[h] = 0
    BY <1>2, <2>1, Zenon DEF LInv, OpenGood
  <2> QED
    BY <1>1, <1>8, <2>2, ZenonT(30) DEF LInv, OpenGood
<1>10. CountGood'
  <2>1. ~(owner' \in Gens /\ sock'[owner'] = "open")
    <3>1. 0 \notin Gens
      BY DEF Gens
    <3>2. cmd.op = "connect" => sock'[cmd.g] = "dialing"
      BY <1>0, <1>4, <1>5, Zenon
    <3> QED
      BY <1>4, <3>1, <3>2, Zenon
  <2> QED
    BY <2>1, Zenon DEF CountGood
<1>11. TimerGood'
  BY <1>1, <1>2, Zenon DEF LInv, TimerGood, Unused
<1> QED
  BY <1>7, <1>9, <1>10, <1>11, Zenon DEF LInv

\* install_sender(): the socket that opens is the only one, its server has counted
\* nothing, and when it is the client's own the client starts to count with it.
LEMMA HostOpenCount ==
  ASSUME IInv, LInv, Drained, NEW g \in Gens, HostOpen(g)
  PROVE  LInv'
<1>0. /\ DOMAIN c = Fields /\ c.att \in [Gens -> Phases] /\ c.tgen \in Nat
      /\ sock \in [Gens -> {"none", "dialing", "open", "ended", "gone"}]
  BY Zenon DEF IInv, Good, Client, HostGood
<1>1. UNCHANGED <<owner, srv, sent>> /\ sock[g] = "dialing" /\ \A h \in Gens : sock[h] # "open"
  BY Zenon DEF HostOpen
<1>2. c.att[g] \notin Before /\ srv[g] = "idle" /\ sent[g] = 0
  BY <1>1, Zenon DEF LInv, DialGood, OpenGood
<1>3. CASE owner # g
  <2>0. sock' = [sock EXCEPT ![g] = "gone"]
    BY <1>3, Zenon DEF HostOpen
  <2>1. c' = [c EXCEPT !.att[g] = "rejected"]
    BY <1>3, Zenon DEF HostOpen, Reject
  <2>2. Calm(c, c)
    BY <1>0, CalmSelf, Zenon
  <2>3. /\ c'.tgen = c.tgen /\ c'.cmds = c.cmds /\ c'.socketId = c.socketId /\ c'.lastCseq = c.lastCseq
        /\ c'.intentionalClose = c.intentionalClose /\ c'.gapTimer = c.gapTimer
        /\ c'.att[g] = "rejected" /\ \A h \in Gens : h # g => c'.att[h] = c.att[h]
    BY <1>0, <2>1, PhaseOnly
  <2>4. Hears(c') = Hears(c)
    BY <1>0, <2>1, Zenon DEF Hears, Fields
  <2> QED
    BY <1>1, <2>0, <2>2, <2>3, <2>4, SocketDown, Zenon
<1>4. CASE owner = g
  <2> DEFINE d == [c EXCEPT !.att[g] = "done"]
             n == HandleOpen(d)
  <2>1. c' = (IF Listening(d) THEN n ELSE d) /\ sock' = [sock EXCEPT ![g] = "open"]
    BY <1>4, Zenon DEF HostOpen, Delivered
  <2>2. /\ DOMAIN d = Fields /\ d.tgen = c.tgen /\ d.cmds = c.cmds
        /\ d.socketId = c.socketId /\ d.intentionalClose = c.intentionalClose
        /\ d.gapTimer = c.gapTimer
        /\ d.att[g] = "done" /\ \A h \in Gens : h # g => d.att[h] = c.att[h]
    <3>1. d = [c EXCEPT !.att[g] = "done"]
      BY Zenon
    <3> HIDE DEF d
    <3> QED
      BY <1>0, <3>1, PhaseOnly
  <2> HIDE DEF d
  <2>3. /\ n.tgen = d.tgen /\ n.att = d.att /\ n.cmds = d.cmds /\ n.socketId = d.socketId + 1
        /\ n.lastCseq = 0 /\ n.gapTimer = 0 /\ n.intentionalClose = d.intentionalClose
    BY <2>2, Zenon DEF HandleOpen, Fields
  <2>4. /\ c'.tgen = c.tgen /\ c'.cmds = c.cmds /\ c'.intentionalClose = c.intentionalClose
        /\ c'.att[g] = "done" /\ \A h \in Gens : h # g => c'.att[h] = c.att[h]
    BY <2>1, <2>2, <2>3, Zenon
  <2>5. sock'[g] = "open" /\ \A h \in Gens : h # g => sock'[h] = sock[h]
    BY <1>0, <2>1, Zenon
  <2>6. "done" \notin Before /\ "none" \in Before
    BY Zenon DEF Before
  <2>7. DialGood'
    <3>1. \A h \in Gens : c'.att[h] \in Before => sock'[h] = "none"
      BY <2>4, <2>5, <2>6, Zenon DEF LInv, DialGood
    <3>2. ASSUME NEW i \in 1..Len(c.cmds), c.cmds[i].op = "connect"
          PROVE  sock'[c.cmds[i].g] = "none" /\ c'.att[c.cmds[i].g] \notin Before
      <4>1. c.cmds[i].g \in Gens /\ sock[c.cmds[i].g] = "none" /\ c.att[c.cmds[i].g] \notin Before
        BY <3>2, Zenon DEF LInv, DialGood, IInv, Good
      <4>2. c.cmds[i].g # g
        BY <1>1, <4>1, Zenon
      <4> QED
        BY <2>4, <2>5, <4>1, <4>2, Zenon
    <3>3. \A i, j \in 1..Len(c.cmds) :
            c.cmds[i].op = "connect" /\ c.cmds[j].op = "connect" /\ c.cmds[j].g = c.cmds[i].g => i = j
      BY Zenon DEF DialGood, LInv
    <3> QED
      BY <2>4, <3>1, <3>2, <3>3 DEF DialGood
  <2>8. OpenGood'
    <3>1. \A h \in Gens : sock'[h] = "open" => h = g
      BY <1>1, <2>5, Zenon
    <3>2. \A h \in Gens : sock'[h] \in {"none", "dialing"} => sock[h] \in {"none", "dialing"}
      BY <2>5, Zenon
    <3>3. \A h \in Gens : sock'[h] \in {"none", "dialing"} => srv'[h] = "idle" /\ sent'[h] = 0
      BY <1>1, <3>2, Zenon DEF LInv, OpenGood
    <3> QED
      BY <2>4, <3>1, <3>3, Zenon DEF OpenGood
  <2>9. CountGood'
    <3> SUFFICES ASSUME owner' = c'.tgen
                 PROVE  c'.lastCseq = sent'[g] /\ srv'[g] # "lossy"
      BY <1>1, <1>4, Zenon DEF CountGood
    <3>1. Listening(d)
      BY <1>1, <1>4, <2>2, <2>4, ZenonT(30) DEF Listening
    <3> QED
      BY <1>1, <1>2, <2>1, <2>3, <3>1, Zenon
  <2>10. TimerGood'
    <3>1. Unused(c) => Unused(c')
      BY <1>2, <2>4, <2>6, Zenon DEF Unused
    <3>2. c'.socketId \in Nat /\ c'.gapTimer \in {0, c'.socketId}
      BY <2>1, <2>2, <2>3 DEF LInv, TimerGood
    <3> QED
      BY <1>1, <2>4, <3>1, <3>2, Zenon DEF LInv, TimerGood
  <2> QED
    BY <2>7, <2>8, <2>9, <2>10, Zenon DEF LInv
<1> QED
  BY <1>3, <1>4, Zenon

\* A dial resumes after an await; only the one that goes on asks the host, once.
LEMMA ResumeCount ==
  ASSUME IInv, LInv, NEW g \in Gens, Resume(g)
  PROVE  LInv'
<1>0. DOMAIN c = Fields /\ c.att \in [Gens -> Phases] /\ c.tgen \in Nat
  BY Zenon DEF IInv, Good, Client
<1>1. UNCHANGED <<owner, sock, srv, sent>>
  BY Zenon DEF Resume, host
<1>2. ASSUME NEW p, c.att[g] \in {"apis", "listen", "registered", "rejected"}, p \in {"listen", "registered", "done"},
             c.att[g] = "rejected" => p = "done",
             c' = [c EXCEPT !.att[g] = p] \/ c' = HandleClosed([c EXCEPT !.att[g] = p])
      PROVE  LInv'
  <2> DEFINE n == [c EXCEPT !.att[g] = p]
  <2>0. DOMAIN n = Fields
    BY <1>0, Zenon DEF Fields
  <2>1. /\ n.tgen = c.tgen /\ n.cmds = c.cmds /\ n.socketId = c.socketId /\ n.lastCseq = c.lastCseq
        /\ n.intentionalClose = c.intentionalClose /\ n.gapTimer = c.gapTimer
        /\ n.att[g] = p /\ \A h \in Gens : h # g => n.att[h] = c.att[h]
    BY <1>0, <1>2, PhaseOnly
  <2>2. Hears(n) = Hears(c)
    BY <1>0, <1>2, Zenon DEF Hears, Fields
  <2>12. c' = n \/ c' = HandleClosed(n)
    BY <1>2, Zenon
  <2> HIDE DEF n
  <2>13. Calm(n, c')
    BY <2>0, <2>12, CalmSelf, HandleClosedCalm, Zenon
  <2>3. /\ c'.tgen = c.tgen /\ c'.cmds = c.cmds /\ c'.socketId = c.socketId /\ c'.lastCseq = c.lastCseq
        /\ c'.intentionalClose = c.intentionalClose
        /\ c'.att[g] = p /\ \A h \in Gens : h # g => c'.att[h] = c.att[h]
    BY <2>13, <2>1, Zenon DEF Calm, Fixed
  <2>4. c.att[g] # "none" /\ c.att[g] # "done" /\ p # "none" /\ (p \in Before => c.att[g] \in Before)
    BY <1>2, Zenon DEF Before
  <2>5. Unused(c) => Unused(c')
    BY <2>3, <2>4, Zenon DEF Unused
  <2>6. Unused(c') => Unused(c)
    BY <2>3, <2>4, Zenon DEF Unused
  <2>7. /\ c'.gapTimer = c.gapTimer \/ (c'.gapTimer = 0 /\ (~Hears(c') \/ Unused(c)))
        /\ Hears(c') => Hears(c)
    BY <2>13, <2>1, <2>2, <2>6, Zenon DEF Calm
  <2>8. DialGood'
    <3>1. \A h \in Gens : c'.att[h] \in Before => sock'[h] = "none"
      BY <1>1, <2>3, <2>4, Zenon DEF LInv, DialGood
    <3>2. ASSUME NEW i \in 1..Len(c.cmds), c.cmds[i].op = "connect"
          PROVE  sock'[c.cmds[i].g] = "none" /\ c'.att[c.cmds[i].g] \notin Before
      <4>1. c.cmds[i].g \in Gens /\ sock[c.cmds[i].g] = "none" /\ c.att[c.cmds[i].g] \notin Before
        BY <3>2, Zenon DEF LInv, DialGood, IInv, Good
      <4> QED
        BY <1>1, <2>3, <2>4, <4>1, Zenon
    <3>3. \A i, j \in 1..Len(c.cmds) :
            c.cmds[i].op = "connect" /\ c.cmds[j].op = "connect" /\ c.cmds[j].g = c.cmds[i].g => i = j
      BY Zenon DEF DialGood, LInv
    <3> QED
      BY <2>3, <3>1, <3>2, <3>3, Zenon DEF DialGood
  <2>9. OpenGood'
    <3>1. \A h \in Gens : sock[h] = "open" => c'.att[h] = "done"
      BY <2>3, <2>4, Zenon DEF LInv, OpenGood
    <3> QED
      BY <1>1, <3>1, Zenon DEF LInv, OpenGood
  <2>10. TimerGood'
    BY <1>1, <2>3, <2>5, <2>7, Zenon DEF LInv, TimerGood
  <2>11. CountGood'
    <3> SUFFICES ASSUME owner \in Gens, owner = c.tgen, sock[owner] = "open"
                 PROVE  /\ c.lastCseq = sent[owner]
                        /\ srv[owner] = "lossy" => c'.gapTimer = c.socketId \/ ~Hears(c')
      BY <1>1, <2>3, Zenon DEF CountGood
    <3>1. ~Unused(c)
      BY UnusedClosed, Zenon
    <3> QED
      BY <2>7, <3>1, Zenon DEF LInv, CountGood
  <2> QED
    BY <2>8, <2>9, <2>10, <2>11, Zenon DEF LInv
<1>4. CASE /\ c.att[g] = "registered"
           /\ c' = [c EXCEPT !.att[g] = "invoked", !.cmds = Append(@, [op |-> "connect", g |-> g])]
  <2> DEFINE e == [op |-> "connect", g |-> g]
  <2>0. e.op = "connect" /\ e.g = g
    BY Zenon
  <2>1. /\ c'.tgen = c.tgen /\ c'.socketId = c.socketId /\ c'.lastCseq = c.lastCseq
        /\ c'.intentionalClose = c.intentionalClose /\ c'.gapTimer = c.gapTimer
    BY <1>0, <1>4, Zenon DEF Fields
  <2>2. c'.att = [c.att EXCEPT ![g] = "invoked"] /\ c'.cmds = Append(c.cmds, e)
    BY <1>0, <1>4, Zenon DEF Fields
  <2>3. Hears(c') = Hears(c)
    BY <1>0, <1>4, Zenon DEF Fields, Hears
  <2> HIDE DEF e
  <2>4. c'.att[g] = "invoked" /\ \A h \in Gens : h # g => c'.att[h] = c.att[h]
    BY <1>0, <2>2, Zenon
  <2>5. c.att[g] \in Before /\ "invoked" \notin Before /\ c.att[g] # "done" /\ c.att[g] # "none"
    BY <1>4, Zenon DEF Before
  <2>6. sock[g] = "none"
    BY <2>5, Zenon DEF LInv, DialGood
  <2>7. \A i \in 1..Len(c.cmds) : c.cmds[i].op = "connect" =>
          c.cmds[i].g \in Gens /\ c.cmds[i].g # g /\ sock[c.cmds[i].g] = "none" /\ c.att[c.cmds[i].g] \notin Before
    BY <2>5, Zenon DEF LInv, DialGood, IInv, Good
  <2>8. /\ Len(c.cmds) \in Nat /\ Len(c'.cmds) = Len(c.cmds) + 1
        /\ \A i \in 1..Len(c'.cmds) : (i \in 1..Len(c.cmds) /\ c'.cmds[i] = c.cmds[i])
                                         \/ (i = Len(c.cmds) + 1 /\ c'.cmds[i] = e)
    <3>1. c.cmds \in Seq([op : {"connect", "disconnect"}, g : Nat])
      BY Zenon DEF IInv, Good, Client
    <3> QED
      BY <2>2, <3>1
  <2>9. DialGood'
    <3>1. \A h \in Gens : c'.att[h] \in Before => sock'[h] = "none"
      BY <1>1, <2>4, <2>5, Zenon DEF LInv, DialGood
    <3>2. \A i \in 1..Len(c'.cmds) : c'.cmds[i].op = "connect" =>
            sock'[c'.cmds[i].g] = "none" /\ c'.att[c'.cmds[i].g] \notin Before
      BY <1>1, <2>0, <2>4, <2>5, <2>6, <2>7, <2>8, Zenon
    <3>3. ASSUME NEW i \in 1..Len(c'.cmds), c'.cmds[i].op = "connect",
                 NEW j \in 1..Len(c'.cmds), c'.cmds[j].op = "connect", c'.cmds[j].g = c'.cmds[i].g
          PROVE  i = j
      <4>1. CASE i \in 1..Len(c.cmds) /\ c'.cmds[i] = c.cmds[i]
        <5>1. c'.cmds[j].g # g
          BY <2>7, <3>3, <4>1, Zenon
        <5>2. j \in 1..Len(c.cmds) /\ c'.cmds[j] = c.cmds[j]
          BY <2>0, <2>8, <5>1, Zenon
        <5> QED
          BY <3>3, <4>1, <5>2, Zenon DEF LInv, DialGood
      <4>2. CASE i = Len(c.cmds) + 1 /\ c'.cmds[i] = e
        <5>1. c'.cmds[j].g = g
          BY <2>0, <3>3, <4>2, Zenon
        <5>2. j = Len(c.cmds) + 1
          BY <2>7, <2>8, <3>3, <5>1, Zenon
        <5> QED
          BY <4>2, <5>2, Zenon
      <4> QED
        BY <2>8, <4>1, <4>2, Zenon
    <3> QED
      BY <3>1, <3>2, <3>3, Zenon DEF DialGood
  <2>10. OpenGood'
    <3>1. \A h \in Gens : sock[h] = "open" => c'.att[h] = "done"
      BY <2>4, <2>5, Zenon DEF LInv, OpenGood
    <3> QED
      BY <1>1, <3>1, Zenon DEF LInv, OpenGood
  <2>11. TimerGood'
    <3>1. Unused(c) => Unused(c')
      BY <2>1, <2>4, <2>5, Zenon DEF Unused
    <3> QED
      BY <1>1, <2>1, <3>1, Zenon DEF LInv, TimerGood
  <2>12. CountGood'
    BY <1>1, <2>1, <2>3, Zenon DEF LInv, CountGood
  <2> QED
    BY <2>9, <2>10, <2>11, <2>12, Zenon DEF LInv
<1>5. CASE c.att[g] = "apis" /\ c' = [c EXCEPT !.att[g] = IF g = c.tgen THEN "listen" ELSE "done"]
  BY <1>2, <1>5
<1>6. CASE c.att[g] = "listen" /\ c' = [c EXCEPT !.att[g] = "registered"]
  BY <1>2, <1>6, Zenon
<1>7. CASE c.att[g] = "registered" /\ c' = [c EXCEPT !.att[g] = "done"]
  BY <1>2, <1>7
<1>8. CASE /\ c.att[g] = "rejected"
           /\ c' = [c EXCEPT !.att[g] = "done"] \/ c' = HandleClosed([c EXCEPT !.att[g] = "done"])
  BY <1>2, <1>8
<1> QED
  BY <1>4, <1>5, <1>6, <1>7, <1>8, Zenon DEF Resume

\* The server answers, refuses, ends the session or pongs: the count stands, or
\* the client takes a new generation.
LEMMA ServerCount ==
  ASSUME IInv, LInv, NEW g \in Gens,
         \/ ServerAccepts(g) \/ ServerPong(g)
         \/ \E kind \in {"auth_error", "SERVER_BUSY", "server_restart", "SESSION_REPLACED"} :
              ServerEnds(g, kind)
  PROVE  LInv'
<1>0. /\ DOMAIN c = Fields /\ c.gen \in Nat
      /\ srv \in [Gens -> {"idle", "auth", "ok", "lossy", "closing"}]
  BY Zenon DEF IInv, Good, Client, HostGood
<1>1. UNCHANGED <<owner, sock, sent>> /\ sock[g] = "open"
  BY Zenon DEF ServerAccepts, ServerPong, ServerEnds, Receive, host
<1>2. Calm(c, c)
  BY <1>0, CalmSelf, Zenon
<1>3. CASE ServerAccepts(g)
  <2>1. c' = c \/ c' = HandleMessage(c, "auth_ok", 0)
    BY <1>3, Zenon DEF ServerAccepts, Receive, Delivered
  <2>2. Fixed(c, c') /\ c'.gapTimer = c.gapTimer
    BY <1>0, <1>2, <2>1, HandleMessageLoss, Zenon DEF Calm
  <2>3. srv'[g] = "ok" /\ \A h \in Gens : h # g => srv'[h] = srv[h]
    BY <1>0, <1>3, Zenon DEF ServerAccepts
  <2>4. CountGood'
    <3> SUFFICES ASSUME owner \in Gens, owner = c.tgen, sock[owner] = "open"
                 PROVE  c.lastCseq = sent[owner] /\ srv'[owner] # "lossy"
      BY <1>1, <2>2, Zenon DEF CountGood, Fixed
    <3>1. owner = g
      BY <1>1, Zenon DEF LInv, OpenGood
    <3> QED
      BY <2>3, <3>1, Zenon DEF LInv, CountGood
  <2> QED
    BY <1>1, <2>2, <2>3, <2>4, FixedStep, Zenon
<1>4. CASE ServerPong(g)
  <2>1. c' = c \/ c' = HandleMessage(c, "pong", 0)
    BY <1>4, Zenon DEF ServerPong, Receive, Delivered
  <2>2. Calm(c, c')
    BY <1>0, <1>2, <2>1, HandleMessageLoss, Zenon
  <2>3. srv' = srv
    BY <1>4, Zenon DEF ServerPong, host
  <2> QED
    BY <1>1, <2>2, <2>3, CalmStep, Zenon
<1>5. ASSUME NEW kind \in {"auth_error", "SERVER_BUSY", "server_restart", "SESSION_REPLACED"}, ServerEnds(g, kind)
      PROVE  LInv'
  <2>1. c' = c \/ c' = HandleMessage(c, kind, 0)
    BY <1>5, Zenon DEF ServerEnds, Receive, Delivered
  <2>2. Calm(c, c') \/ Bumped(c, c')
    BY <1>0, <1>2, <2>1, HandleMessageLoss, Zenon
  <2>3. \A h \in Gens : srv'[h] = srv[h] \/ (h = g /\ srv'[h] = "closing")
    BY <1>0, <1>5, Zenon DEF ServerEnds
  <2>4. \A h \in Gens : srv'[h] # srv[h] => sock[h] = "open" /\ srv'[h] # "lossy"
    BY <1>1, <2>3, Zenon
  <2> QED
    BY <1>1, <2>2, <2>4, CalmStep, BumpStep, Zenon
<1> QED
  BY <1>3, <1>4, <1>5, Zenon

\* A numbered frame: it comes from the client's own socket or that socket is not
\* open, and a skipped number is a gap in the client's count.
LEMMA FrameCount ==
  ASSUME IInv, LInv, NEW g \in Gens, NEW lost \in 0..1, ServerFrame(g, lost)
  PROVE  LInv'
<1>0. /\ DOMAIN c = Fields /\ sent \in [Gens -> Nat] /\ c.socketId \in Nat
      /\ srv \in [Gens -> {"idle", "auth", "ok", "lossy", "closing"}]
  BY Zenon DEF IInv, Good, Client, HostGood, LInv, TimerGood
<1>1. UNCHANGED <<owner, sock>> /\ sock[g] = "open"
  BY Zenon DEF ServerFrame, Receive
<1>2. sent' = [sent EXCEPT ![g] = @ + 1 + lost]
  BY Zenon DEF ServerFrame
<1>3. sent'[g] = sent[g] + 1 + lost /\ sent'[g] \in Nat /\ sent'[g] # 0 /\ sent' \in [Gens -> Nat]
  BY <1>0, <1>2
<1>4. \A h \in Gens : h # g => sent'[h] = sent[h] /\ srv'[h] = srv[h]
  BY <1>0, <1>2, Zenon DEF ServerFrame
<1>5. lost = 0 => srv' = srv
  BY Zenon DEF ServerFrame
<1>6. c' = c \/ (Listening(c) /\ c' = HandleMessage(c, "frame", sent'[g]))
  BY Zenon DEF ServerFrame, Receive, Delivered
<1>7. Listening(c) => c' = HandleMessage(c, "frame", sent'[g])
  BY Zenon DEF ServerFrame, Receive, Delivered
<1>8. c' = HandleMessage(c, "frame", sent'[g]) =>
        /\ c'.tgen = c.tgen /\ c'.att = c.att /\ c'.cmds = c.cmds
        /\ c'.socketId = c.socketId /\ c'.lastCseq = sent'[g] /\ c'.intentionalClose = c.intentionalClose
        /\ c'.gapTimer = IF sent'[g] = c.lastCseq + 1 \/ c.gapTimer # 0 THEN c.gapTimer ELSE c.socketId
        /\ Hears(c') => Hears(c)
  <2> DEFINE q == sent'[g]
  <2>1. q \in Nat /\ q # 0
    BY <1>3, Zenon
  <2> HIDE DEF q
  <2>2. c' = HandleMessage(c, "frame", q) =>
          /\ c'.tgen = c.tgen /\ c'.att = c.att /\ c'.cmds = c.cmds
          /\ c'.socketId = c.socketId /\ c'.lastCseq = q /\ c'.intentionalClose = c.intentionalClose
          /\ c'.gapTimer = IF q = c.lastCseq + 1 \/ c.gapTimer # 0 THEN c.gapTimer ELSE c.socketId
          /\ Hears(c') => Hears(c)
    <3>1. LET n == HandleMessage(c, "frame", q)
          IN /\ n.tgen = c.tgen /\ n.att = c.att /\ n.cmds = c.cmds
             /\ n.socketId = c.socketId /\ n.lastCseq = q
             /\ n.intentionalClose = c.intentionalClose
             /\ n.gapTimer = IF q = c.lastCseq + 1 \/ c.gapTimer # 0 THEN c.gapTimer ELSE c.socketId
             /\ Hears(n) => Hears(c)
      BY <1>0, <2>1, FrameCounted, Zenon
    <3> QED
      BY <3>1, Zenon
  <2> QED
    BY <2>2, Zenon DEF q
<1>9. /\ c'.tgen = c.tgen /\ c'.att = c.att /\ c'.cmds = c.cmds
      /\ c'.socketId = c.socketId /\ c'.intentionalClose = c.intentionalClose
      /\ c'.gapTimer \in {c.gapTimer, c.socketId}
  BY <1>6, <1>8, Zenon
<1>10. DialGood'
  BY <1>1, <1>9 DEF LInv, DialGood
<1>11. OpenGood'
  <2>1. \A h \in Gens : sock'[h] \in {"none", "dialing"} => srv'[h] = "idle" /\ sent'[h] = 0
    BY <1>1, <1>4, Zenon DEF LInv, OpenGood
  <2> QED
    BY <1>1, <1>9, <2>1, Zenon DEF LInv, OpenGood
<1>12. TimerGood'
  BY <1>3, <1>9, Zenon DEF LInv, TimerGood, Unused
<1>13. CountGood'
  <2> SUFFICES ASSUME owner \in Gens, owner = c.tgen, sock[owner] = "open"
               PROVE  /\ c'.lastCseq = sent'[owner]
                      /\ srv'[owner] = "lossy" => c'.gapTimer = c.socketId \/ ~Hears(c')
    BY <1>1, <1>9, Zenon DEF CountGood
  <2>1. owner = g
    BY <1>1, Zenon DEF LInv, OpenGood
  <2>2. Listening(c)
    BY Zenon DEF LInv, OpenGood, Listening
  <2>3. c.lastCseq = sent[g] /\ (srv[g] = "lossy" => c.gapTimer = c.socketId \/ ~Hears(c))
    BY <2>1, Zenon DEF LInv, CountGood
  <2>4. CASE lost = 0
    <3>1. sent'[g] = c.lastCseq + 1
      BY <1>0, <1>3, <2>3, <2>4
    <3>2. c'.gapTimer = c.gapTimer
      BY <1>7, <1>8, <2>2, <3>1, Zenon
    <3> QED
      BY <1>5, <1>7, <1>8, <2>1, <2>2, <2>3, <2>4, <3>2, Zenon
  <2>5. CASE lost = 1
    <3>1. sent'[g] # c.lastCseq + 1
      BY <1>0, <1>3, <2>3, <2>5
    <3>2. c'.gapTimer = c.socketId
      BY <1>7, <1>8, <2>2, <3>1, Zenon DEF LInv, TimerGood
    <3> QED
      BY <1>7, <1>8, <2>1, <2>2, <3>2, Zenon
  <2> QED
    BY <2>4, <2>5
<1> QED
  BY <1>10, <1>11, <1>12, <1>13, Zenon DEF LInv

\* The initial state: no attempt, no socket, nothing counted.
LEMMA CountInit == Init => LInv
<1> SUFFICES ASSUME Init PROVE LInv
  BY Zenon
<1>1. /\ c.att = [g \in Gens |-> "none"] /\ c.cmds = <<>> /\ c.socketId = 0 /\ c.gapTimer = 0
      /\ c.intentionalClose = FALSE
  BY Zenon DEF Init, InitClient
<1>2. /\ \A g \in Gens : sock[g] = "none" /\ srv[g] = "idle" /\ sent[g] = 0
      /\ owner = 0 /\ sent \in [Gens -> Nat]
  BY Zenon DEF Init
<1>3. DialGood
  BY <1>1, <1>2 DEF DialGood
<1>4. OpenGood
  BY <1>2, Zenon DEF OpenGood
<1>5. CountGood
  BY <1>2, Zenon DEF CountGood, Gens
<1>6. TimerGood
  BY <1>1, <1>2 DEF TimerGood
<1> QED
  BY <1>3, <1>4, <1>5, <1>6, Zenon DEF LInv

\* Every step keeps the count, when a superseded socket is drained in time.
LEMMA CountStep ==
  ASSUME Drained, IInv, LInv, [Next]_vars
  PROVE  LInv'
<1>1. CASE HostCommand \/ Timers \/ WakeSignal
  BY <1>1, HostCommandCount, TimersCount, Zenon
<1>2. CASE \E k \in c.keyWait : KeySettles(k)
  BY <1>2, KeySettlesCount, Zenon
<1>3. ASSUME NEW g \in Gens, Resume(g) \/ Host(g) \/ \E mismatch \in BOOLEAN : HostRefuse(g, mismatch)
      PROVE  LInv'
  BY <1>3, ResumeCount, HostOpenCount, HostDownCount, Zenon DEF Host
<1>4. ASSUME NEW g \in Gens,
             \/ ServerAccepts(g) \/ ServerPong(g)
             \/ \E lost \in 0..1 : ServerFrame(g, lost)
             \/ \E kind \in {"auth_error", "SERVER_BUSY", "server_restart", "SESSION_REPLACED"} :
                  ServerEnds(g, kind)
      PROVE  LInv'
  BY <1>4, ServerCount, FrameCount, Zenon
<1>5. CASE \/ HeartbeatTick \/ Silence \/ Sleep \/ UserDisconnect \/ RestCertMismatch
           \/ (\E g \in Gens : ProxyClosed(g)) \/ (\E t \in BOOLEAN : UserConnect(t))
  BY <1>5, ClientCount, Zenon
<1>6. CASE UNCHANGED vars
  BY <1>6, CalmSelf, CalmStep, Zenon DEF vars, IInv, Good, Client
<1> QED
  BY <1>1, <1>2, <1>3, <1>4, <1>5, <1>6, Zenon DEF Next

\* The inductive invariant of the frame count, when a superseded socket stops
\* reading before the next handshake ends: each attempt gets one socket, one socket
\* is open at a time, and the client counts what the server numbers on it.
THEOREM CountInvariant == Drained => (Spec => []LInv)
<1> SUFFICES ASSUME Drained PROVE Spec => []LInv
  BY Zenon
<1>1. IInv /\ [Next]_vars => IInv'
  BY StepOK, Zenon DEF Preserved
<1>2. IInv /\ LInv /\ [Next]_vars => LInv'
  BY CountStep, Zenon
<1> QED
  BY <1>1, <1>2, InitOK, CountInit, PTL DEF Spec

\* A loss is noticed (ws.ts 649-671): a numbered frame the server skipped on the
\* client's own socket leaves a gap resume pending or the certificate latch set,
\* for any number of attempts, frames and faults.
THEOREM LossIsNoticed == Drained => (Spec => []LossNoticed)
<1> SUFFICES ASSUME Drained PROVE Spec => []LossNoticed
  BY Zenon
<1>1. LInv => LossNoticed
  BY Zenon DEF LInv, CountGood, LossNoticed, Hears
<1>2. Spec => []LInv
  BY CountInvariant, Zenon
<1> QED
  BY <1>1, <1>2, PTL

=============================================================================
