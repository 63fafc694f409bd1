---- MODULE Outbox ----
(* The client's encrypted outbox and the send path around it:
   lib/pendingMessages.ts (PendingMessageQueue and the module's single active
   queue) and performSend, retrySend and deleteDraft of
   pages/main-page/channel/channelMountSend.ts.

   A text is written to disk before it is handed to the socket, under a client
   id the server deduplicates, so a crash or a lost acknowledgement leaves a row
   the user can send again. Every read and write of the store goes through one
   promise chain (serializePendingWrites) shared by successive logins; sends go
   through a second one (sendChain). *)
EXTENDS Naturals, Sequences, FiniteSets, SequencesExt

CONSTANTS
  Owners,     \* accounts (host and user id)
  Texts,      \* composed messages, each with its client id
  OwnerOf,    \* the account a text is composed under
  Durable,    \* texts with no reply and no attachment: the ones that are saved
  NoText,     \* the text of an operation on the whole store
  MaxCount,   \* PENDING_MESSAGE_MAX_COUNT
  MaxLogins, MaxActs, MaxFaults

ASSUME OutboxBounds ==
  /\ OwnerOf \in [Texts -> Owners] /\ Durable \subseteq Texts
  /\ MaxCount \in Nat \ {0} /\ {MaxLogins, MaxActs, MaxFaults} \subseteq Nat

VARIABLES
  disk,     \* disk[o]: the texts stored for account o
  q,        \* the active queue: n (its number), owner, on (active), loading,
            \* ok (its loaded promise), drafts, acked
  io,       \* the chain of store operations; the head may be in its await
  puts,     \* calls of put under way
  line,     \* the send chain
  busy, gen,  \* sendChainBusy, sendChainGen
  row,      \* row[m]: the optimistic row on screen
  net,      \* the socket: up, wire (sends on their way), acks (answers)
  expired,  \* texts past PENDING_MESSAGE_MAX_AGE_MS
  kept,     \* history: texts a put reported saved and nothing has settled since
  owed,     \* history: why a text should be gone, or "late": saved by the chain
            \* of a login that is over, or by a put that waited when it was acknowledged,
            \* or "again": sent again since
  bad,      \* history: accounts whose store has failed an operation
  clock,    \* history: performSend calls made, and the last one handed over
  acts, faults
vars == <<disk, q, io, puts, line, busy, gen, row, net, expired, kept, owed, bad, clock, acts, faults>>

Of(o) == {m \in Texts : OwnerOf[m] = o}
\* Mutant: a save or load of a closed login still counts as the active one's.
ActiveAny(n) == q.n = n
Active(n) == q.on /\ q.n = n
Owns(m) == q.on /\ q.owner = OwnerOf[m]
IoOp(kind, m, t) ==
  [kind |-> kind, n |-> q.n, owner |-> q.owner, m |-> m, t |-> t, stage |-> "queued", val |-> {}]
PutOp(m, t, queued) == [m |-> m, t |-> t, n |-> q.n, stage |-> "wait", queued |-> queued]
Act == acts < MaxActs /\ acts' = acts + 1
Fault == faults < MaxFaults /\ faults' = faults + 1

------------------------------------------------------------------------------
(* The chain of store operations. *)

\* The head starts: what it will write is fixed here; an operation of a queue that
\* is no longer active, or that removes nothing, ends at once.
IoStart ==
  /\ io # <<>> /\ io[1].stage = "queued"
  /\ LET op == io[1]
         left == q.drafts \ {op.m}
         idle == \/ op.kind = "write" /\ ~Active(op.n)
                 \/ op.kind = "remove" /\ ~(Active(op.n) /\ op.m \in q.drafts)
     IN /\ io' = IF idle THEN Tail(io)
                 ELSE <<[op EXCEPT !.stage = "io",
                                   !.val = CASE op.kind = "write" -> q.drafts
                                             [] op.kind = "remove" -> left
                                             [] OTHER -> {}]>> \o Tail(io)
        /\ q' = IF op.kind = "remove" /\ ~idle THEN [q EXCEPT !.drafts = left] ELSE q
        /\ puts' = IF op.kind = "write" /\ idle
                   THEN {IF p.stage = "writing" /\ p.t = op.t
                         THEN [p EXCEPT !.stage = "failed"] ELSE p : p \in puts}
                   ELSE puts
  /\ UNCHANGED <<disk, line, busy, gen, row, net, expired, kept, owed, bad, clock, acts, faults>>

\* decode drops what has expired; what was acknowledged meanwhile is skipped.
Decode(value) == {m \in value : m \notin expired}

\* Mutant: the load shows what it finds without asking whether the login is over.
LoadedAnyway(op) ==
  LET value == disk[op.owner]
      found == Decode(value) \ q.acked
  IN /\ q' = [q EXCEPT !.drafts = found, !.loading = FALSE, !.acked = {},
                       !.ok = IF value = {} THEN "yes" ELSE @]
     /\ row' = [m \in Texts |-> IF m \in found THEN "failed" ELSE row[m]]
     /\ io' = IF value = {} THEN Tail(io)
              ELSE <<[op EXCEPT !.kind = "prune", !.val = found]>> \o Tail(io)

\* The constructor's load after its await.
Loaded(op) ==
  LET value == disk[op.owner]
      found == Decode(value) \ q.acked
  IN IF ~Active(op.n)
     THEN io' = Tail(io) /\ UNCHANGED <<q, row>>
     ELSE /\ q' = [q EXCEPT !.drafts = found, !.loading = FALSE, !.acked = {},
                            !.ok = IF value = {} THEN "yes" ELSE @]
          /\ row' = [m \in Texts |-> IF m \in found THEN "failed" ELSE row[m]]
          /\ io' = IF value = {} THEN Tail(io)
                   ELSE <<[op EXCEPT !.kind = "prune", !.val = found]>> \o Tail(io)

LoadDone ==
  /\ io # <<>> /\ io[1].stage = "io" /\ io[1].kind = "load"
  /\ Loaded(io[1])
  /\ UNCHANGED <<disk, puts, line, busy, gen, net, expired, kept, owed, bad, clock, acts, faults>>

\* The queue's loaded promise settles with the load and its pruning write.
Settles(op, ok) ==
  IF op.kind \in {"load", "prune"} /\ Active(op.n)
  THEN [q EXCEPT !.ok = IF ok THEN "yes" ELSE "no", !.loading = FALSE, !.acked = {}]
  ELSE q

Answered(op, ok) ==
  {IF op.kind = "write" /\ p.stage = "writing" /\ p.t = op.t
   THEN [p EXCEPT !.stage = IF ok /\ Active(p.n) THEN "saved" ELSE "failed"] ELSE p : p \in puts}

SaveDone ==
  /\ io # <<>> /\ io[1].stage = "io" /\ io[1].kind # "load"
  /\ disk' = [disk EXCEPT ![io[1].owner] = io[1].val]
  /\ q' = Settles(io[1], TRUE)
  /\ puts' = Answered(io[1], TRUE)
  /\ kept' = kept \cup {p.m : p \in {r \in puts' : r.t = io[1].t /\ r.stage = "saved" /\ owed[r.m] = "no"}}
  /\ io' = Tail(io)
  /\ UNCHANGED <<bad, line, busy, gen, row, net, expired, owed, clock, acts, faults>>

\* Mutant: the chain is left rejected, so nothing queued behind it runs.
AfterFailureStuck == <<[io[1] EXCEPT !.stage = "rejected"]>> \o Tail(io)
\* A failed operation does not stop the chain; its write may have landed.
AfterFailure == Tail(io)
IoFails ==
  /\ Fault
  /\ io # <<>> /\ io[1].stage = "io"
  /\ \E landed \in BOOLEAN :
       disk' = IF landed /\ io[1].kind # "load"
               THEN [disk EXCEPT ![io[1].owner] = io[1].val] ELSE disk
  /\ q' = Settles(io[1], FALSE)
  /\ puts' = Answered(io[1], FALSE)
  /\ io' = AfterFailure
  /\ bad' = bad \cup {io[1].owner}
  /\ UNCHANGED <<line, busy, gen, row, net, expired, kept, owed, clock, acts>>

------------------------------------------------------------------------------
(* put, called by savePendingText. *)

\* put once the load has settled.
Put(p) ==
  LET next == {m \in q.drafts : m \notin expired} \cup {p.m}
      refused == p.m \in expired \/ Cardinality(next) > MaxCount
  IN IF ~Active(p.n) \/ q.ok = "no" \/ refused
     THEN puts' = (puts \ {p}) \cup {[p EXCEPT !.stage = "failed"]} /\ UNCHANGED <<q, io>>
     ELSE /\ puts' = (puts \ {p}) \cup {[p EXCEPT !.stage = "writing"]}
          /\ q' = [q EXCEPT !.drafts = next]
          /\ io' = Append(io, IoOp("write", p.m, p.t))

PutResumes(p) ==
  /\ p.stage = "wait" /\ (Active(p.n) => q.ok # "wait")
  /\ Put(p)
  /\ UNCHANGED <<disk, line, busy, gen, row, net, expired, kept, owed, bad, clock, acts, faults>>

\* The offline branch of performSend only waits for the outcome.
OfflinePutEnds(p) ==
  /\ ~p.queued /\ p.stage \in {"saved", "failed"}
  /\ puts' = puts \ {p}
  /\ UNCHANGED <<disk, q, io, line, busy, gen, row, net, expired, kept, owed, bad, clock, acts, faults>>

------------------------------------------------------------------------------
(* The send chain of performSend. *)

Resent(m) == IF owed[m] = "no" THEN "no" ELSE "again"

\* sendNow: nothing is sent for a login that is over.
SendNow(e) ==
  IF Active(e.n)
  THEN /\ net' = IF net.up THEN [net EXCEPT !.wire = @ \cup {e.m}] ELSE net
       /\ row' = [row EXCEPT ![e.m] = IF net.up THEN "pending" ELSE "failed"]
       /\ owed' = [owed EXCEPT ![e.m] = Resent(e.m)]
       /\ clock' = [clock EXCEPT !.sent = e.ticket]
  ELSE UNCHANGED <<net, row, owed, clock>>

\* Each login has its own chain; the one of a closed login runs to its end.
Heads == {i \in DOMAIN line : \A j \in 1..(i - 1) : line[j].n # line[i].n}

\* The head of a chain saves its text, if the active queue is its account's.
LinePersists(i) ==
  /\ ~line[i].saving /\ line[i].m \in Durable /\ Owns(line[i].m)
  /\ line' = [line EXCEPT ![i].saving = TRUE]
  /\ puts' = puts \cup {PutOp(line[i].m, line[i].ticket, TRUE)}
  /\ owed' = [owed EXCEPT ![line[i].m] = IF Active(line[i].n) THEN @ ELSE "late"]
  /\ UNCHANGED <<disk, q, io, busy, gen, row, net, expired, kept, bad, clock, acts, faults>>

\* Mutant: every entry clears the flag, not only the last one queued.
StillBusyNot(e) == IF Active(e.n) THEN FALSE ELSE busy
StillBusy(e) == IF Active(e.n) THEN busy /\ gen # e.gen ELSE busy
LineSends(i) ==
  /\ LET e == line[i]
         mine == {p \in puts : p.t = e.ticket}
     IN /\ IF e.saving THEN \E p \in mine : p.stage \in {"saved", "failed"}
           ELSE e.m \notin Durable \/ ~Owns(e.m)
        /\ puts' = puts \ mine
        /\ SendNow(e)
        /\ busy' = StillBusy(e)
  /\ line' = RemoveAt(line, i)
  /\ UNCHANGED <<disk, q, io, gen, expired, kept, bad, acts, faults>>

\* performSend of a text whose row, if any, the caller has taken down.
PerformSend(m) ==
  LET ticket == clock.made + 1
      now == m \notin Durable /\ ~busy
  IN IF ~net.up
     THEN /\ row' = [row EXCEPT ![m] = "failed"]
          /\ puts' = IF m \in Durable
                     THEN puts \cup {PutOp(m, ticket, FALSE)}
                     ELSE puts
          /\ clock' = [clock EXCEPT !.made = ticket]
          /\ owed' = [owed EXCEPT ![m] = Resent(m)]
          /\ UNCHANGED <<line, busy, gen, net>>
     ELSE IF now
     THEN /\ row' = [row EXCEPT ![m] = "pending"]
          /\ net' = [net EXCEPT !.wire = @ \cup {m}]
          /\ clock' = [made |-> ticket, sent |-> ticket]
          /\ owed' = [owed EXCEPT ![m] = Resent(m)]
          /\ UNCHANGED <<puts, line, busy, gen>>
     ELSE /\ row' = [row EXCEPT ![m] = "none"]
          /\ line' = Append(line, [m |-> m, n |-> q.n, gen |-> gen + 1, ticket |-> ticket, saving |-> FALSE])
          /\ busy' = TRUE /\ gen' = gen + 1
          /\ clock' = [clock EXCEPT !.made = ticket]
          /\ UNCHANGED <<puts, net, owed>>

InLine(m) == \E i \in DOMAIN line : line[i].m = m
Fresh(m) == /\ row[m] = "none" /\ ~InLine(m) /\ m \notin net.wire \cup net.posted
            /\ owed[m] = "no" /\ m \notin kept \cup disk[OwnerOf[m]] \cup expired
            /\ ~\E p \in puts : p.m = m

Compose(m) ==
  /\ Act /\ Owns(m) /\ Fresh(m)
  /\ PerformSend(m)
  /\ UNCHANGED <<bad, disk, q, io, expired, kept, faults>>

RetrySend(m) ==
  /\ Act /\ Owns(m) /\ row[m] = "failed" /\ m \notin expired
  /\ PerformSend(m)
  /\ UNCHANGED <<bad, disk, q, io, expired, kept, faults>>

------------------------------------------------------------------------------
(* Acknowledgements, deletes and logins. *)

\* Mutant: the text is taken out at once, with no word to a load under way.
AcknowledgeNow(m, why) ==
  /\ q' = [q EXCEPT !.drafts = @ \ {m}]
  /\ io' = IF m \in q.drafts THEN Append(io, IoOp("write", m, 0)) ELSE io
  /\ kept' = kept \ {m}
  /\ owed' = [owed EXCEPT ![m] = why]
  /\ row' = [row EXCEPT ![m] = "none"]

\* acknowledgePendingMessage: the removal joins the chain.
Acknowledge(m, why) ==
  /\ q' = IF q.loading THEN [q EXCEPT !.acked = @ \cup {m}] ELSE q
  /\ io' = Append(io, IoOp("remove", m, 0))
  /\ kept' = kept \ {m}
  /\ owed' = [owed EXCEPT ![m] = why]
  /\ row' = [row EXCEPT ![m] = "none"]

\* handleChatSendOk, or the echo of handleChatMessage.
HandleAck(m) ==
  /\ m \in net.acks /\ Owns(m)
  /\ Acknowledge(m, IF \E p \in puts : p.m = m /\ p.stage = "wait" THEN "late" ELSE "ack")
  /\ net' = [net EXCEPT !.acks = @ \ {m}]
  /\ UNCHANGED <<bad, disk, puts, line, busy, gen, expired, clock, acts, faults>>

DeleteDraft(m) ==
  /\ Act /\ Owns(m) /\ row[m] = "failed"
  /\ Acknowledge(m, "delete")
  /\ UNCHANGED <<bad, disk, puts, line, busy, gen, net, expired, clock, faults>>

\* activatePendingMessages on ready: the same account keeps its queue.
Login(o) ==
  /\ ~(q.on /\ net.up) /\ (q.on => q.owner = o)
  /\ \E replayed \in BOOLEAN :
       net' = [net EXCEPT !.up = TRUE, !.acks = IF q.on /\ replayed THEN net.posted \cap Of(o) ELSE {}]
  /\ IF q.on
     THEN Act /\ UNCHANGED <<q, io, busy, gen>>
     ELSE /\ busy' = FALSE /\ gen' = 0
          /\ q.n < MaxLogins /\ UNCHANGED acts
          /\ q' = [n |-> q.n + 1, owner |-> o, on |-> TRUE, loading |-> TRUE, ok |-> "wait",
                   drafts |-> {}, acked |-> {}]
          /\ io' = Append(io, [IoOp("load", NoText, 0) EXCEPT !.n = q.n + 1, !.owner = o])
  /\ UNCHANGED <<disk, puts, line, row, expired, kept, owed, bad, clock, faults>>

\* deactivatePendingMessages: a logout discards, a server switch does not.
\* Mutant: the discard does not queue behind the saves under way.
DiscardsNow(o) == disk' = [disk EXCEPT ![o] = {}] /\ UNCHANGED io
Discards(o) == io' = Append(io, IoOp("delete", NoText, 0)) /\ UNCHANGED disk
Logout(discard) ==
  /\ Act /\ q.on
  /\ q' = [q EXCEPT !.on = FALSE, !.drafts = {}]
  /\ IF discard THEN Discards(q.owner) ELSE UNCHANGED <<io, disk>>
  /\ row' = [m \in Texts |-> "none"]
  /\ net' = [net EXCEPT !.up = FALSE, !.acks = {}]
  /\ kept' = IF discard THEN kept \ Of(q.owner) ELSE kept
  /\ owed' = [m \in Texts |-> CASE OwnerOf[m] # q.owner -> owed[m]
                              [] discard -> "discard"
                              [] OTHER -> "no"]
  /\ UNCHANGED <<bad, puts, line, busy, gen, expired, clock, faults>>

------------------------------------------------------------------------------
(* The server, the socket, the clock and the process (external). *)

Accept(m) ==
  /\ m \in net.wire
  /\ net' = [net EXCEPT !.wire = @ \ {m}, !.posted = @ \cup {m},
                        !.acks = IF net.up /\ Owns(m) THEN @ \cup {m} ELSE @]
  /\ UNCHANGED <<disk, q, io, puts, line, busy, gen, row, expired, kept, owed, bad, clock, acts, faults>>

\* failPendingOnDisconnect: the rows offer Retry.
Drop ==
  /\ Fault /\ net.up
  /\ \E reached \in SUBSET net.wire : net' = [net EXCEPT !.up = FALSE, !.wire = reached, !.acks = {}]
  /\ row' = [m \in Texts |-> IF row[m] = "pending" THEN "failed" ELSE row[m]]
  /\ UNCHANGED <<disk, q, io, puts, line, busy, gen, expired, kept, owed, bad, clock, acts>>

TimesOut(m) ==
  /\ Fault /\ row[m] = "pending"
  /\ row' = [row EXCEPT ![m] = "failed"]
  /\ UNCHANGED <<disk, q, io, puts, line, busy, gen, net, expired, kept, owed, bad, clock, acts>>

Expire(m) ==
  /\ Fault /\ m \notin expired
  /\ expired' = expired \cup {m}
  /\ UNCHANGED <<disk, q, io, puts, line, busy, gen, row, net, kept, owed, bad, clock, acts>>

\* The process dies: only the disk, and what is on the wire, is left.
Crash ==
  /\ Fault
  /\ q' = [q EXCEPT !.on = FALSE, !.drafts = {}]
  /\ io' = <<>> /\ puts' = {} /\ line' = <<>> /\ busy' = FALSE
  /\ row' = [m \in Texts |-> "none"]
  /\ net' = [net EXCEPT !.up = FALSE, !.acks = {}]
  /\ owed' = [m \in Texts |-> "no"]
  /\ UNCHANGED <<bad, disk, gen, expired, kept, clock, acts>>

------------------------------------------------------------------------------
Init ==
  /\ disk = [o \in Owners |-> {}]
  /\ q = [n |-> 0, owner |-> CHOOSE o \in Owners : TRUE, on |-> FALSE, loading |-> FALSE,
          ok |-> "no", drafts |-> {}, acked |-> {}]
  /\ io = <<>> /\ puts = {} /\ line = <<>> /\ busy = FALSE /\ gen = 0
  /\ row = [m \in Texts |-> "none"]
  /\ net = [up |-> FALSE, wire |-> {}, posted |-> {}, acks |-> {}]
  /\ expired = {} /\ kept = {} /\ bad = {}
  /\ owed = [m \in Texts |-> "no"]
  /\ clock = [made |-> 0, sent |-> 0]
  /\ acts = 0 /\ faults = 0

\* Promise continuations run before the next event is handled, in any order here.
Continuing ==
  \/ io # <<>> /\ io[1].stage = "queued"
  \/ \E i \in Heads : ~line[i].saving
  \/ \E p \in puts : \/ p.stage \in {"saved", "failed"}
                     \/ p.stage = "wait" /\ (Active(p.n) => q.ok # "wait")

Continue ==
  \/ IoStart
  \/ \E i \in Heads : LinePersists(i) \/ LineSends(i)
  \/ \E p \in puts : PutResumes(p) \/ OfflinePutEnds(p)

StoreAnswers == ~Continuing /\ (LoadDone \/ SaveDone)

Event ==
  \/ IoFails
  \/ \E m \in Texts : Compose(m) \/ RetrySend(m) \/ DeleteDraft(m) \/ HandleAck(m)
  \/ \E o \in Owners : Login(o)
  \/ \E discard \in BOOLEAN : Logout(discard)
  \/ \E m \in Texts : Accept(m) \/ Expire(m) \/ TimesOut(m)
  \/ Drop \/ Crash

Next == Continue \/ StoreAnswers \/ (~Continuing /\ Event)

Spec == Init /\ [][Next]_vars
FairSpec == Spec /\ WF_vars(Continue \/ StoreAnswers)

------------------------------------------------------------------------------
\* The queue and the store hold at most PENDING_MESSAGE_MAX_COUNT texts: put
\* refuses before it takes a text in, and decode drops what is past the limit.
TypeOK ==
  /\ disk \in [Owners -> SUBSET Texts] /\ q.drafts \subseteq Texts
  /\ \A o \in Owners : Cardinality(disk[o]) <= MaxCount
  /\ Cardinality(q.drafts) <= MaxCount
  /\ q.ok \in {"wait", "yes", "no"} /\ {q.on, q.loading, busy} \subseteq BOOLEAN
  /\ row \in [Texts -> {"none", "pending", "failed"}]
  /\ owed \in [Texts -> {"no", "ack", "delete", "discard", "late", "again"}]

\* "Persist before handing text to the socket, so a process crash after commit but
\* before ACK can recover the same logical identity": from the moment put reports a
\* text saved until it is acknowledged, deleted, discarded or expired it is on disk,
\* through crashes, logins, failed writes and removals of other texts; and once
\* the account's queue is loaded again the text is in it, on screen or on its way.
Recoverable ==
  \A m \in kept \ expired :
    /\ m \in disk[OwnerOf[m]]
    /\ Owns(m) /\ q.ok = "yes" => m \in q.drafts /\ (row[m] # "none" \/ InLine(m))

Idle == io = <<>> /\ puts = {}
Sound == {m \in Texts : OwnerOf[m] \notin bad}

\* An acknowledged text is forgotten: remove, and the acknowledged set while the
\* store is still loading, keep a delivered message from coming back as a failed
\* row, unless the queue is closed or the store fails before the removal runs, or a
\* put of the same text is still waiting for the load (DeletedForgotten's race).
AckedForgotten ==
  Idle => \A m \in Sound : owed[m] = "ack" => m \notin disk[OwnerOf[m]] /\ row[m] = "none"

\* A deleted draft is forgotten: "a delayed save cannot resurrect rows after
\* logout/delete or a new load".
DeletedForgotten ==
  Idle => \A m \in Sound : owed[m] = "delete" => m \notin disk[OwnerOf[m]]

\* After a logout that discards, no save of the closed queue, started before or
\* queued behind it, puts a text back: the delete goes through the same chain and
\* the queue is inactive from then on. (A text still waiting in the send chain of the
\* closed login is not covered: its save goes to whatever queue the account has next.)
DiscardFinal ==
  Idle => \A m \in Sound : owed[m] = "discard" => m \notin disk[OwnerOf[m]]

\* Accounts do not mix: a text is stored only for the account that wrote it, and
\* a load that ends after another login shows nothing.
OwnersApart ==
  /\ \A o \in Owners : disk[o] \subseteq Of(o)
  /\ \A m \in Texts : row[m] # "none" => Owns(m)

\* A login's texts stay with it: none appears under another account, and none
\* comes back after the logout that discards them.
AccountsApart == OwnersApart /\ DiscardFinal

\* Sends reach the socket in the order they were made, a send that needs no saving
\* and one whose save is under way included (sendChain, sendChainBusy, sendChainGen).
SentInOrder == [][clock'.sent >= clock.sent]_vars

\* No send waits for ever: whatever the store answers, the chain goes on and the
\* text is handed over or its login is over.
EverySendLeaves == \A m \in Texts : InLine(m) ~> ~InLine(m)

====
