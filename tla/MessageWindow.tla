---- MODULE MessageWindow ----
(* The message window of one channel in the desktop client: the rows the store
   keeps (features/messaging/liveMessages.ts, historyWindows.ts), the fetches
   that fill it (pages/main-page/MessageController.ts, MessageJump.ts, the
   resync of features/messaging/wsHandlers.ts) and the live frames that race
   them.

   A row is an integer: a message id when it was delivered (status "sent"), -k
   when it is the user's unsent send number k. A page is a set of ids, since
   every page is in id order. The server answers a fetch at one moment and the
   client applies the answer at a later one; WebSocket frames and HTTP answers
   are not ordered with each other. *)
EXTENDS Integers, Sequences, FiniteSets, SequencesExt, FiniteSetsExt

CONSTANTS
  Cap,          \* MAX_MESSAGES_PER_CHANNEL
  PageSize,     \* PAGE_SIZE, also a resync's limit
  MaxPageSize,  \* MAX_PAGE_SIZE, a revisit's page
  MaxPages,     \* MAX_REVISIT_PAGES
  AroundSide,   \* rows on each side of an around-window's centre
  Start, Top,   \* messages at the beginning, and at most
  Sends,        \* the user's sends, numbered from 1
  MaxActs,      \* user actions and faults
  MaxOps,       \* fetches in flight
  FocusFirst    \* the server handles channel_focus before a fetch sent after it

ASSUME WindowBounds ==
  /\ {Cap, PageSize, MaxPageSize, MaxPages, AroundSide, Start, Top} \subseteq Nat \ {0}
  /\ {Sends, MaxActs, MaxOps} \subseteq Nat
  /\ Sends < Cap /\ PageSize <= MaxPageSize /\ Start <= Top
  /\ FocusFirst \in BOOLEAN

VARIABLES
  w,       \* the store's slice: rows, loaded, detached, hasMore, load
           \* (historyLoadState), mark (loadWatermark)
  draft,   \* draft[k]: "no", "pending", "failed", "done"
  on,      \* the channel is mounted
  ops,     \* fetches in flight
  srv,     \* the server: top id, gone (deleted ids), posted[k] (id of send k or 0)
  conn,    \* the socket: up, sub (the channel's topic), fq (channel_focus frames
           \* on their way), out (sends on their way), wire (frames to the client)
  lost,    \* ids whose frames the client missed on a dead socket
  torn,    \* history: races that may have left a gap in the window
  missed,  \* history: ids deleted while the client could not hear it
  acts
vars == <<w, draft, on, ops, srv, conn, lost, torn, missed, acts>>

Ids == 1..Top
Keys == 1..Sends
Sent(rows) == SelectSeq(rows, LAMBDA r : r > 0)
Unsent(rows) == SelectSeq(rows, LAMBDA r : r < 0)
IdsOf(rows) == {r \in ToSet(rows) : r > 0}
MaxOf(S) == Max(S \cup {0})
MinOf(S) == IF S = {} THEN 0 ELSE Min(S)
Asc(S) == SelectSeq([i \in 1..Top |-> i], LAMBDA i : i \in S)
LastN(s, n) == SubSeq(s, Max({1, Len(s) - n + 1}), Len(s))
FirstN(s, n) == SubSeq(s, 1, Min({n, Len(s)}))
Newest(S, n) == ToSet(LastN(Asc(S), n))
Oldest(S, n) == ToSet(FirstN(Asc(S), n))

------------------------------------------------------------------------------
(* liveMessages.ts *)

\* Index after which only unsent rows follow.
TailAt(rows) == MaxOf({i \in DOMAIN rows : rows[i] > 0})

\* Mutant: a live row goes to the very end, behind newer and unsent rows.
ReduceAddMessageAtTail(s, id, k) ==
  IF id \in ToSet(s.rows) \/ s.detached THEN s
  ELSE IF k > 0 /\ -k \in ToSet(s.rows) THEN [s EXCEPT !.rows = ReplaceAll(@, -k, id)]
  ELSE [s EXCEPT !.rows = LastN(Append(@, id), Cap), !.hasMore = @ \/ Len(s.rows) + 1 > Cap]

\* reduceAddMessage: k is the send the frame's client_message_id names, 0 if none.
ReduceAddMessage(s, id, k) ==
  LET at == TailAt(s.rows)
      grown == SubSeq(s.rows, 1, at) \o <<id>> \o SubSeq(s.rows, at + 1, Len(s.rows))
  IN IF id \in ToSet(s.rows)
     THEN [s EXCEPT !.rows = SelectSeq(@, LAMBDA r : k = 0 \/ r # -k)]
     ELSE IF k > 0 /\ -k \in ToSet(s.rows)
     THEN [s EXCEPT !.rows = ReplaceAll(@, -k, id)]
     ELSE IF s.detached THEN s
     ELSE [s EXCEPT !.rows = LastN(grown, Cap),
                    !.hasMore = @ \/ Len(s.rows) + 1 > Cap]

ReduceAddOptimistic(s, k) == [s EXCEPT !.rows = Append(@, -k)]
ReduceRemoveOptimistic(s, k) == [s EXCEPT !.rows = SelectSeq(@, LAMBDA r : r # -k)]

\* reduceConfirmSend: history may hold the message already.
ReduceConfirmSend(s, k, id) ==
  IF id \in ToSet(s.rows) THEN ReduceRemoveOptimistic(s, k)
  ELSE [s EXCEPT !.rows = ReplaceAll(@, -k, id)]

------------------------------------------------------------------------------
(* historyWindows.ts *)

ReduceSetChannelLoading(s) == [s EXCEPT !.load = "loading", !.mark = MaxOf(IdsOf(s.rows))]

ReduceSetChannelLoadError(s) ==
  [s EXCEPT !.load = "error", !.detached = @ \/ IdsOf(s.rows) # {}]

\* Mutant: rows the load must carry are told by their id alone, not by the watermark.
ReduceSetMessagesNoMark(s, page, more, splice, anchor) ==
  LET trimmed == Newest(page, Cap)
      carried == SelectSeq(s.rows, LAMBDA r : r \notin trimmed /\ (r < 0 \/ r > MaxOf(trimmed)))
      merged == Asc(trimmed) \o carried
  IN [s EXCEPT !.rows = LastN(merged, Cap), !.loaded = TRUE,
               !.hasMore = more \/ page # trimmed \/ Len(merged) > Cap,
               !.detached = FALSE, !.load = "idle", !.mark = 0]

\* reduceSetMessages: merge a page of the tail into the window.
ReduceSetMessages(s, page, more, splice, anchor) ==
  LET trimmed == Newest(page, Cap)
      floor == Max({MaxOf(trimmed), s.mark})
      carried == SelectSeq(s.rows, LAMBDA r : r \notin trimmed /\ (r < 0 \/ r > floor))
      older == IF splice /\ more /\ trimmed # {} /\ MinOf(trimmed) <= s.mark
               THEN SelectSeq(s.rows, LAMBDA r : r > 0 /\ r < MinOf(trimmed))
               ELSE <<>>
      merged == older \o Asc(trimmed) \o carried
      overflow == Len(merged) - Cap
      keepHead == /\ overflow > 0 /\ older # <<>>
                  /\ \E i \in 1..overflow : merged[i] = anchor
  IN [s EXCEPT
        !.rows = IF keepHead
                 THEN FirstN(merged, Cap) \o Unsent(SubSeq(merged, Cap + 1, Len(merged)))
                 ELSE LastN(merged, Cap),
        !.loaded = TRUE,
        !.hasMore = \/ IF older # <<>> THEN s.hasMore ELSE more
                    \/ page # trimmed
                    \/ overflow > 0 /\ ~keepHead,
        !.detached = keepHead,
        !.load = "idle",
        !.mark = 0]

\* reduceSetAroundMessages: replace the window by one centred on a message.
ReduceSetAroundMessages(s, page, before, after, splice) ==
  LET trimmed == Oldest(page, Cap)
      attached == ~after /\ trimmed = page
      carried == SelectSeq(s.rows, LAMBDA r : r < 0 \/ (attached /\ r > MaxOf(trimmed)))
      splicing == splice /\ trimmed # {}
      older == IF splicing /\ before
               THEN SelectSeq(s.rows, LAMBDA r : r > 0 /\ r < MinOf(trimmed)) ELSE <<>>
      newer == IF splicing /\ ~attached
               THEN SelectSeq(s.rows, LAMBDA r : r > MaxOf(trimmed)) ELSE <<>>
      merged == older \o Asc(trimmed) \o newer \o carried
      cut == splicing /\ Len(merged) > Cap
  IN [s EXCEPT
        !.rows = IF cut THEN LastN(merged, Cap) ELSE merged,
        !.loaded = TRUE,
        !.hasMore = (IF older # <<>> THEN s.hasMore ELSE before) \/ cut,
        !.detached = ~attached,
        !.load = "idle"]

ReduceInvalidate(s) == [s EXCEPT !.loaded = FALSE]

ReduceClearChannelContent(s) ==
  [s EXCEPT !.rows = Unsent(@), !.loaded = FALSE, !.hasMore = FALSE, !.detached = FALSE]

ReduceReattachToPresent(s) == [s EXCEPT !.loaded = @ /\ ~s.detached]

\* Mutant: rows trimmed at the head leave the window saying it has none before it.
ReduceAppendNewerSilent(s, page, more) ==
  LET kept == Sent(s.rows) \o Asc({i \in page : i > MaxOf(IdsOf(s.rows))})
  IN IF ~s.detached THEN s
     ELSE [s EXCEPT !.rows = LastN(kept, Cap) \o Unsent(s.rows), !.detached = more]

\* reduceAppendNewerMessages: the page below a detached window.
ReduceAppendNewerMessages(s, page, more) ==
  LET kept == Sent(s.rows) \o Asc({i \in page : i > MaxOf(IdsOf(s.rows))})
  IN IF ~s.detached THEN s
     ELSE [s EXCEPT !.rows = LastN(kept, Cap) \o Unsent(s.rows),
                    !.hasMore = @ \/ Len(kept) > Cap,
                    !.detached = more]

\* reduceMergeTailMessages: the page that repairs a re-attach.
ReduceMergeTailMessages(s, page) ==
  IF s.detached \/ page \subseteq IdsOf(s.rows) THEN s
  ELSE [s EXCEPT !.rows = LastN(Asc(IdsOf(s.rows) \cup page), Cap) \o Unsent(s.rows)]

\* Mutant: the cap counts unsent rows, and cuts them first.
ReducePrependTrims(s, page, more) ==
  LET combined == Asc(page) \o s.rows
  IN [s EXCEPT !.rows = FirstN(combined, Cap), !.hasMore = more,
               !.detached = @ \/ Len(combined) > Cap]

\* reducePrependMessages: the page above the window.
ReducePrependMessages(s, page, more) ==
  LET combined == Asc(page) \o s.rows
  IN [s EXCEPT !.rows = FirstN(combined, Cap)
                          \o Unsent(SubSeq(combined, Cap + 1, Len(combined))),
               !.hasMore = more,
               !.detached = @ \/ Len(combined) > Cap]

------------------------------------------------------------------------------
(* The server's answers (external): newest pages, pages before or after an id,
   and the window around one. *)

Alive == (1..srv.top) \ srv.gone
Below(before) == {i \in Alive : before = 0 \/ i < before}
Above(after) == {i \in Alive : i > after}

Frame(kind, id, k) == [kind |-> kind, id |-> id, k |-> k]
KeyOf(s, id) == MaxOf({k \in Keys : s.posted[k] = id})

OnWire == {conn.wire[i].id : i \in DOMAIN conn.wire}
ReadyComing == \E i \in DOMAIN conn.wire : conn.wire[i].kind = "ready"

\* A broadcast reaches a subscribed socket; before the session is ready, and
\* with no socket, it is left for a resume from the client's last position.
Broadcast(id, frames) ==
  LET heard == IF conn.sub THEN frames ELSE SelectSeq(frames, LAMBDA f : f.kind # "msg")
  IN /\ conn' = IF conn.up
                THEN [conn EXCEPT !.wire = @ \o heard, !.out = IF frames[1].k > 0 THEN Tail(@) ELSE @]
                ELSE conn
     /\ lost' = IF ~conn.up \/ (ReadyComing /\ ~conn.sub) THEN lost \cup ({id} \ {0}) ELSE lost

------------------------------------------------------------------------------
(* MessageController.ts, MessageJump.ts and the resync: an op is one fetch.
   cur is the id the fetch continues from (a load's cached head, the oldest or
   newest row, a jump's target, a resync's anchor); stale says the window
   it was begun for is no longer the one on screen: the channel was left, another
   fetch replaced the window, or a resync found it not loaded; refused holds the
   live messages a detached window turned away since. *)
Op(kind, cur) ==
  [kind |-> kind, cur |-> cur, page |-> {}, more |-> FALSE, more2 |-> FALSE,
   pages |-> 0, done |-> FALSE, stale |-> FALSE, limit |-> PageSize, refused |-> {}]

\* The other fetches' basis goes stale when the window is replaced, or when a
\* newer load overwrites the watermark theirs is merged against.
Superseded(S) == {[o EXCEPT !.stale = TRUE] : o \in S}

\* loadMessages up to its first await; the store and the fetches after it.
LoadOp(s) ==
  LET cached == IF s.detached THEN {} ELSE IdsOf(s.rows)
  IN [Op("load", MinOf(cached)) EXCEPT
        !.limit = IF cached # {} THEN MaxPageSize ELSE PageSize]
LoadMessages(s, inflight) ==
  IF s.loaded THEN <<s, inflight>>
  ELSE <<ReduceSetChannelLoading(s), Superseded(inflight) \cup {LoadOp(s)}>>

Apply(pair) == w' = pair[1] /\ ops' = pair[2]

\* The server answers the fetch: what the client will see is fixed here.
Answer(op) ==
  LET S == CASE op.kind = "load" -> Below(IF op.pages = 0 THEN 0 ELSE MinOf(op.page))
             [] op.kind = "older" -> Below(op.cur)
             [] op.kind = "sync" -> Below(0)
             [] OTHER -> Above(op.cur)
      got == IF op.kind \in {"newer", "recover"} THEN Oldest(S, op.limit)
             ELSE Newest(S, IF op.pages > 0 THEN MaxPageSize ELSE op.limit)
      more == IF op.pages > 0 /\ got = {} THEN op.more ELSE Cardinality(S) > op.limit
      fetched == op.page \cup got
  IN [op EXCEPT !.page = fetched, !.more = more, !.pages = @ + 1,
                !.done = ~ /\ op.kind = "load" /\ op.cur > 0 /\ more /\ got # {}
                           /\ MinOf(fetched) > op.cur /\ op.pages + 1 < MaxPages]

AnswerAround(op) ==
  LET before == {i \in Alive : i < op.cur}
      after == Above(op.cur)
  IN [op EXCEPT !.page = Newest(before, AroundSide) \cup {op.cur} \cup Oldest(after, AroundSide),
                !.more = Cardinality(before) > AroundSide,
                !.more2 = Cardinality(after) > AroundSide,
                !.pages = 1, !.done = TRUE]

IsAround(op) == op.kind = "jump" \/ (op.kind = "sync" /\ op.cur > 0)

ServerAnswers(op) ==
  /\ ~op.done
  /\ FocusFirst => conn.fq = <<>>
  /\ IsAround(op) => op.cur \in Alive
  /\ ops' = (ops \ {op}) \cup {IF IsAround(op) THEN AnswerAround(op) ELSE Answer(op)}
  /\ UNCHANGED <<w, draft, on, srv, conn, lost, torn, missed, acts>>

\* loadMessages after its awaits: the rows kept of what was fetched.
LoadRows(op) ==
  LET trimmed == {i \in op.page : i >= op.cur}
      kept == IF op.cur > 0 /\ trimmed # {} /\ Cardinality(trimmed) < PageSize
              THEN Newest(op.page, PageSize) ELSE trimmed
  IN IF kept # {} THEN kept ELSE op.page

LandLoad(op) ==
  LET rows == LoadRows(op)
  IN IF w.loaded THEN w
     ELSE ReduceSetMessages(w, rows, op.more \/ rows # op.page, FALSE, 0)

LandOlder(op) ==
  IF w.rows # <<>> /\ w.rows[1] = op.cur
  THEN ReducePrependMessages(w, op.page, op.more) ELSE w

NewestSentId(s) == LET t == TailAt(s.rows) IN IF t = 0 THEN 0 ELSE s.rows[t]

\* Mutant: reaching the tail does not fetch what was refused meanwhile.
LandNewerNoRecover(op) ==
  IF w.detached /\ NewestSentId(w) = op.cur
  THEN <<ReduceAppendNewerMessages(w, op.page, op.more), ops \ {op}>>
  ELSE <<w, ops \ {op}>>

\* loadNewerMessages: the last page is followed by recoverRefusedTail.
LandNewer(op) ==
  IF w.detached /\ NewestSentId(w) = op.cur
  THEN <<ReduceAppendNewerMessages(w, op.page, op.more),
         (ops \ {op}) \cup (IF op.more THEN {} ELSE {Op("recover", Max({MaxOf(op.page), op.cur}))})>>
  ELSE <<w, ops \ {op}>>

LandRecover(op) ==
  IF op.stale THEN <<ReduceInvalidate(w), ops \ {op}>>
  ELSE IF op.more THEN LoadMessages(ReduceInvalidate(w), ops \ {op})
  ELSE <<ReduceMergeTailMessages(w, op.page), ops \ {op}>>

LandAround(op, splice) ==
  IF on THEN ReduceSetAroundMessages(w, op.page, op.more, op.more2, splice) ELSE w

LandSync(op, anchor) ==
  IF ~on THEN w
  ELSE IF op.cur > 0 THEN LandAround(op, TRUE)
  ELSE ReduceSetMessages(w, op.page, op.more, TRUE, anchor)

\* The races a landing may have lost.
Races(op) ==
  {r \in {"stale", "refused"} :
     IF r = "stale" THEN op.stale ELSE op.refused # {}}
CutHead(op) ==
  ~op.stale /\ ~op.more /\ ~w.hasMore /\ w.rows # LandRecover(op)[1].rows
    /\ MinOf(IdsOf(w.rows)) \notin ToSet(LandRecover(op)[1].rows)

Lands(op) ==
  /\ op.done
  /\ UNCHANGED <<draft, on, srv, conn, lost, acts>>
  /\ \/ /\ op.kind = "load"
        /\ w' = LandLoad(op)
        /\ ops' = IF w.loaded THEN ops \ {op} ELSE Superseded(ops \ {op})
        /\ torn' = IF w.loaded THEN torn ELSE Races(op) \cup (torn \cap {"resent"})
        /\ UNCHANGED missed
     \/ /\ op.kind = "older"
        /\ w' = LandOlder(op)
        /\ ops' = IF IdsOf(w.rows) \subseteq IdsOf(w'.rows) THEN ops \ {op}
                  ELSE Superseded(ops \ {op})
        /\ torn' = torn \cup (IF w' = w THEN {} ELSE Races(op) \cap {"stale"})
        /\ UNCHANGED missed
     \/ /\ op.kind = "newer"
        /\ Apply(LandNewer(op))
        /\ torn' = torn \cup (IF w' = w THEN {} ELSE Races(op) \cap {"stale"})
        /\ UNCHANGED missed
     \/ /\ op.kind = "recover"
        /\ Apply(LandRecover(op))
        /\ torn' = torn \cup (IF CutHead(op) THEN {"cut"} ELSE {})
        /\ UNCHANGED missed
     \/ /\ op.kind = "jump"
        /\ w' = LandAround(op, FALSE)
        /\ ops' = IF on THEN Superseded(ops \ {op}) ELSE ops \ {op}
        /\ torn' = IF on /\ op.more2 THEN Races(op) \cup (torn \cap {"resent"})
                 ELSE IF on THEN torn \cup Races(op) ELSE torn
        /\ missed' = IF on /\ ~w.loaded THEN missed \ IdsOf(w.rows) ELSE missed
     \/ /\ op.kind = "sync"
        /\ \E anchor \in IdsOf(w.rows) \cup {0} : w' = LandSync(op, anchor)
        /\ ops' = IF on THEN Superseded(ops \ {op}) ELSE ops \ {op}
        /\ torn' = IF on THEN torn \cup Races(op) ELSE torn
        /\ missed' = IF on THEN {i \in missed : i >= MinOf(op.page)
                                                    /\ (op.cur > 0 => i <= MaxOf(op.page))}
                   ELSE missed

Act == acts < MaxActs /\ acts' = acts + 1

\* A fetch fails: an error, or a 404 for an around-window whose centre is gone.
Fails(op) ==
  /\ ~op.done
  /\ IF IsAround(op) /\ op.cur \notin Alive THEN UNCHANGED acts ELSE Act
  /\ CASE op.kind = "load" /\ op.pages > 0 ->
            w' = w /\ ops' = (ops \ {op}) \cup {[op EXCEPT !.more = TRUE, !.done = TRUE]}
       [] op.kind = "load" /\ op.pages = 0 ->
            w' = (IF w.loaded THEN w ELSE ReduceSetChannelLoadError(w)) /\ ops' = ops \ {op}
       [] op.kind = "recover" -> w' = ReduceInvalidate(w) /\ ops' = ops \ {op}
       [] op.kind = "sync" ->
            w' = (IF on THEN ReduceSetChannelLoadError(w) ELSE w) /\ ops' = ops \ {op}
       [] OTHER -> w' = w /\ ops' = ops \ {op}
  /\ UNCHANGED <<draft, on, srv, conn, lost, torn, missed>>

------------------------------------------------------------------------------
(* The reader and the composer. *)

Room == Cardinality(ops) < MaxOps
Focus(v) == conn' = IF conn.up THEN [conn EXCEPT !.fq = Append(@, v)] ELSE conn

\* destroyChannel: the mount's fetches are aborted; a jump, a resync and the
\* tail recovery are not tied to it. Behind the consent gate the content goes.
LeaveChannel(gated) ==
  /\ Act /\ on /\ Len(conn.fq) < 2
  /\ on' = FALSE
  /\ w' = IF gated THEN ReduceClearChannelContent(w) ELSE ReduceInvalidate(w)
  /\ ops' = Superseded({o \in ops : o.kind \in {"jump", "sync", "recover"}})
  /\ Focus(FALSE)
  /\ UNCHANGED <<draft, srv, lost, torn, missed>>

MountChannel ==
  /\ Act /\ ~on /\ Room /\ Len(conn.fq) < 2
  /\ on' = TRUE
  /\ Apply(LoadMessages(w, ops))
  /\ Focus(TRUE)
  /\ UNCHANGED <<draft, srv, lost, torn, missed>>

ScrollUp ==
  /\ Act /\ on /\ Room /\ w.hasMore /\ w.rows # <<>> /\ w.rows[1] > 0
  /\ ~\E o \in ops : o.kind = "older"
  /\ ops' = ops \cup {Op("older", w.rows[1])}
  /\ UNCHANGED <<w, draft, on, srv, conn, lost, torn, missed>>

ScrollDown ==
  /\ Act /\ on /\ Room /\ w.detached /\ NewestSentId(w) > 0
  /\ ~\E o \in ops : o.kind = "newer"
  /\ ops' = ops \cup {Op("newer", NewestSentId(w))}
  /\ UNCHANGED <<w, draft, on, srv, conn, lost, torn, missed>>

\* jumpTo: a newer jump supersedes the one in flight.
JumpTo(id) ==
  /\ Act /\ on /\ Room
  /\ w.loaded => id \notin ToSet(w.rows)
  /\ ops' = {o \in ops : o.kind # "jump"} \cup {Op("jump", id)}
  /\ UNCHANGED <<w, draft, on, srv, conn, lost, torn, missed>>

\* onJumpToPresent of a detached window, and onRetryLoad of an empty one.
JumpToPresent ==
  /\ Act /\ on /\ Room
  /\ w.detached \/ (w.load = "error" /\ w.rows = <<>>)
  /\ Apply(LoadMessages(ReduceReattachToPresent(w), ops))
  /\ UNCHANGED <<draft, on, srv, conn, lost, torn, missed>>

\* performSend, and retrySend of a failed row under the same client id.
PerformSend(k) ==
  /\ Act /\ on /\ Room
  /\ draft[k] \in {"no", "failed"}
  /\ LET s == ReduceRemoveOptimistic(w, k)
         shown == IF s.detached THEN LoadMessages(ReduceReattachToPresent(s), ops) ELSE <<s, ops>>
     IN w' = ReduceAddOptimistic(shown[1], k) /\ ops' = shown[2]
  /\ draft' = [draft EXCEPT ![k] = IF conn.up THEN "pending" ELSE "failed"]
  /\ conn' = IF conn.up THEN [conn EXCEPT !.out = Append(@, k)] ELSE conn
  /\ UNCHANGED <<on, srv, lost, torn, missed>>

SendTimesOut(k) ==
  /\ Act /\ draft[k] = "pending"
  /\ draft' = [draft EXCEPT ![k] = "failed"]
  /\ UNCHANGED <<w, on, ops, srv, conn, lost, torn, missed>>

DeleteDraft(k) ==
  /\ Act /\ on /\ draft[k] = "failed"
  /\ draft' = [draft EXCEPT ![k] = "done"]
  /\ w' = ReduceRemoveOptimistic(w, k)
  /\ UNCHANGED <<on, ops, srv, conn, lost, torn, missed>>

------------------------------------------------------------------------------
(* Frames the client handles: features/messaging/wsHandlers.ts. *)

Settled(k) == IF k = 0 THEN draft ELSE [draft EXCEPT ![k] = "done"]

\* The row of a send takes its id inside a detached window, or, when an earlier
\* attempt had been posted, below rows that are newer.
Stamped(f) ==
  {r \in {"stamped", "resent"} :
     /\ -f.k \in ToSet(w.rows) /\ f.id \notin ToSet(w.rows)
     /\ IF r = "stamped" THEN w.detached ELSE f.id < MaxOf(IdsOf(w.rows))}

\* addMessage turned a live message away from a detached window.
Refuses(f) == w.detached /\ f.id \notin ToSet(w.rows) /\ (f.k = 0 \/ -f.k \notin ToSet(w.rows))

HandleChatMessage(f) ==
  /\ w' = ReduceAddMessage(w, f.id, f.k)
  /\ draft' = Settled(f.k)
  /\ ops' = IF Refuses(f) THEN {[o EXCEPT !.refused = @ \cup {f.id}] : o \in ops} ELSE ops
  /\ torn' = torn \cup Stamped(f)
  /\ UNCHANGED <<lost, missed>>

HandleChatSendOk(f) ==
  /\ w' = ReduceConfirmSend(w, f.k, f.id)
  /\ draft' = Settled(f.k)
  /\ torn' = torn \cup Stamped(f)
  /\ missed' = missed \ {f.id}
  /\ UNCHANGED <<ops, lost>>

HandleSendError(f) ==
  /\ draft' = IF draft[f.k] = "pending" THEN [draft EXCEPT ![f.k] = "failed"] ELSE draft
  /\ UNCHANGED <<w, ops, lost, torn, missed>>

\* applyReadyMessageResync: a full ready replays nothing, so the channel on
\* screen is refetched, around the row being read when the window is detached.
ApplyReadyMessageResync ==
  /\ lost' = {}
  /\ missed' = missed \cup {i \in Ids : -i \in lost}
  /\ UNCHANGED <<draft, torn>>
  /\ IF on
     THEN /\ w' = ReduceInvalidate(ReduceSetChannelLoading(w))
          /\ \E anchor \in IF w.detached THEN IdsOf(w.rows) \cup {0} ELSE {0} :
               ops' = Superseded(ops) \cup {[Op("sync", anchor) EXCEPT !.stale = ~w.loaded]}
     ELSE /\ w' = ReduceInvalidate(w)
          /\ ops' = Superseded(ops)

Receive ==
  /\ conn.up /\ conn.wire # <<>>
  /\ LET f == Head(conn.wire)
     IN \/ f.kind = "msg" /\ HandleChatMessage(f)
        \/ f.kind = "ack" /\ HandleChatSendOk(f)
        \/ f.kind = "nack" /\ HandleSendError(f)
        \/ f.kind = "ready" /\ ApplyReadyMessageResync
  /\ conn' = [conn EXCEPT !.wire = Tail(@)]
  /\ UNCHANGED <<on, srv, acts>>

------------------------------------------------------------------------------
(* The server and the socket (external). *)

Post ==
  /\ srv.top < Top
  /\ srv' = [srv EXCEPT !.top = @ + 1]
  /\ Broadcast(srv.top + 1, <<Frame("msg", srv.top + 1, 0)>>)
  /\ UNCHANGED <<w, draft, on, ops, torn, missed, acts>>

\* The server takes one send: it posts it once, acknowledges a retry of a posted
\* one without a second message, or refuses it.
AcceptSend ==
  /\ conn.up /\ conn.out # <<>>
  /\ LET k == Head(conn.out)
         id == srv.top + 1
         ack == Frame("ack", id, k)
         msg == Frame("msg", id, k)
     IN \/ /\ srv.posted[k] = 0 /\ srv.top < Top
           /\ srv' = [srv EXCEPT !.top = id, !.posted[k] = id]
           /\ \E frames \in {<<ack, msg>>, <<msg, ack>>} : Broadcast(id, frames)
        \/ /\ srv.posted[k] > 0
           /\ Broadcast(0, <<Frame("ack", srv.posted[k], k)>>)
           /\ UNCHANGED srv
        \/ /\ srv.posted[k] = 0
           /\ Broadcast(0, <<Frame("nack", 0, k)>>)
           /\ UNCHANGED srv
  /\ UNCHANGED <<w, draft, on, ops, torn, missed, acts>>

\* A live chat_deleted leaves a tombstone where the row was.
Delete(id) ==
  /\ Act /\ id \in Alive
  /\ srv' = [srv EXCEPT !.gone = @ \cup {id}]
  /\ lost' = IF conn.up THEN lost ELSE lost \cup {-id}
  /\ missed' = IF conn.up /\ ~conn.sub /\ ~on /\ id \notin OnWire \cup lost THEN missed \cup {id} ELSE missed
  /\ UNCHANGED <<w, draft, on, ops, conn, torn>>

ServerFocus ==
  /\ conn.up /\ conn.fq # <<>>
  /\ conn' = [conn EXCEPT !.sub = Head(conn.fq), !.fq = Tail(@)]
  /\ UNCHANGED <<w, draft, on, ops, srv, lost, torn, missed, acts>>

\* The socket dies: failPendingOnDisconnect, and frames in either direction go.
Drop ==
  /\ Act /\ conn.up
  /\ conn' = [up |-> FALSE, sub |-> FALSE, fq |-> <<>>, out |-> <<>>, wire |-> <<>>]
  /\ lost' = lost \cup {f.id : f \in {x \in ToSet(conn.wire) : x.kind = "msg"}}
  /\ draft' = [k \in Keys |-> IF draft[k] = "pending" THEN "failed" ELSE draft[k]]
  /\ UNCHANGED <<w, on, ops, srv, torn, missed>>

\* A resume within the server's window replays what was missed and restores the
\* focus; otherwise a full ready follows and the client focuses again.
Reconnect(full) ==
  /\ ~conn.up
  /\ conn' = [up |-> TRUE, sub |-> ~full /\ on, out |-> <<>>,
              fq |-> IF full /\ on THEN <<TRUE>> ELSE <<>>,
              wire |-> IF full THEN <<Frame("ready", 0, 0)>>
                       ELSE LET ids == Asc(lost) IN
                            [i \in DOMAIN ids |-> Frame("msg", ids[i], KeyOf(srv, ids[i]))]]
  /\ lost' = IF full THEN lost ELSE {}
  /\ full => Room
  /\ UNCHANGED <<w, draft, on, ops, srv, torn, missed, acts>>

------------------------------------------------------------------------------
Init ==
  /\ w = [rows |-> <<>>, loaded |-> FALSE, detached |-> FALSE, hasMore |-> FALSE,
          load |-> "idle", mark |-> 0]
  /\ draft = [k \in Keys |-> "no"]
  /\ on = FALSE
  /\ ops = {}
  /\ srv = [top |-> Start, gone |-> {}, posted |-> [k \in Keys |-> 0]]
  /\ conn = [up |-> TRUE, sub |-> FALSE, fq |-> <<>>, out |-> <<>>, wire |-> <<>>]
  /\ lost = {} /\ torn = {} /\ missed = {} /\ acts = 0

Reader ==
  \/ \E gated \in BOOLEAN : LeaveChannel(gated)
  \/ MountChannel \/ ScrollUp \/ ScrollDown \/ JumpToPresent
  \/ \E id \in 1..srv.top : JumpTo(id)
  \/ \E k \in Keys : PerformSend(k) \/ SendTimesOut(k) \/ DeleteDraft(k)

Next ==
  \/ Reader
  \/ \E op \in ops : ServerAnswers(op) \/ Lands(op) \/ Fails(op)
  \/ Receive \/ Post \/ AcceptSend \/ ServerFocus
  \/ \E id \in Ids : Delete(id)
  \/ Drop
  \/ \E full \in BOOLEAN : Reconnect(full)

Spec == Init /\ [][Next]_vars

------------------------------------------------------------------------------
\* The window is well formed: no delivered row is left without an id
\* (reduceConfirmSend stamps the row it flips to "sent"), and the bookkeeping of
\* the store, the server and the history variables stays in range.
TypeOK ==
  /\ w.rows \in Seq((-Sends)..Top \ {0})
  /\ w.mark \in 0..Top /\ w.load \in {"idle", "loading", "error"}
  /\ {w.loaded, w.detached, w.hasMore, on} \subseteq BOOLEAN
  /\ torn \subseteq {"stale", "refused", "stamped", "cut", "resent"}
  /\ draft \in [Keys -> {"no", "pending", "failed", "done"}]
  /\ srv.gone \subseteq 1..srv.top /\ missed \subseteq srv.gone
  /\ acts \in 0..MaxActs

\* Messages the client still has a way to hear of.
OnItsWay ==
  OnWire \cup lost \cup
  {srv.posted[k] : k \in {j \in Keys : -j \in ToSet(w.rows)}}

Settling == ReadyComing \/ \E o \in ops : o.kind \in {"recover", "sync"}
Shown == w.loaded /\ on /\ ~Settling

\* Messages a window should show and does not: from its oldest row down to its
\* newest, or down to the present when it is not detached.
Missing ==
  LET ids == IdsOf(w.rows)
      reach == IF w.detached THEN MaxOf(ids) ELSE srv.top
  IN {i \in Alive \ (ids \cup OnItsWay) : MinOf(ids) < i /\ i <= reach}

\* A loaded window has no hole: whatever order pages (loadMessages,
\* loadOlderMessages, loadNewerMessages with recoverRefusedTail, jumpTo, the
\* resync of applyReadyMessageResync) and live frames arrive in, every message
\* between its oldest row and its end is shown or still on its way. Three races the
\* code does not guard against are set aside by torn: a stale answer applied, a
\* live message refused while a re-attaching page was in flight, a send stamped
\* inside a detached window; each ends when the next page replaces the window.
NoGap == Shown /\ torn \subseteq {"cut", "resent"} => Missing = {}

\* A window that is attached to the present shows every live message, also one
\* that arrived while Jump to Present was fetching: reduceAddMessage refuses it
\* because it "must wait for Jump to Present", which is what is in flight.
TailWhole ==
  Shown /\ ~w.detached /\ torn \subseteq {"cut", "resent", "refused"} => Missing = {}

\* Rows are in the order the messages were posted in: reduceAddMessage puts a live
\* message above the unsent rows, loadOlderMessages and loadNewerMessages apply a
\* page only to the row it was fetched from, and a merge sorts. A stale answer and
\* a retry of a send that had been posted are set aside. A page outruns at most
\* Top - Start = PageSize frames on the socket here; past that, the frames a first
\* page has overtaken are appended below it.
InOrder ==
  torn \cap {"resent", "stale"} = {} => \A i, j \in DOMAIN w.rows :
    i < j /\ {w.rows[i], w.rows[j]} \subseteq Alive => w.rows[i] < w.rows[j]

\* An unsent row is the only copy of the user's text: every writer that replaces,
\* trims or clears the window carries it, and it goes exactly when the send is
\* acknowledged, echoed or deleted by its author.
UnsentKept ==
  \A k \in Keys : draft[k] \in {"pending", "failed"} <=> -k \in ToSet(w.rows)

\* History above the window can be scrolled to: when hasMore is off nothing older
\* exists, although live appends, prepends, resyncs and appended pages all trim
\* the window at MAX_MESSAGES_PER_CHANNEL. reduceMergeTailMessages trims without
\* saying so and is set aside.
HeadReachable ==
  "cut" \notin torn /\ w.loaded /\ ~w.hasMore /\ w.rows # <<>>
    => \A i \in Alive : i >= MinOf(IdsOf(w.rows))

\* A message deleted while the client could not hear of it (another channel was
\* focused, or the socket was down past the replay window) is gone once the
\* revisit's or the resync's page has landed: cached rows at or below the
\* watermark that the page lacks are dropped.
NoGhost ==
  Shown /\ torn \subseteq {"cut", "resent"} => IdsOf(w.rows) \cap missed = {}

====
