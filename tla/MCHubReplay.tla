----------------------------- MODULE MCHubReplay -----------------------------
(* Scenes of the hub: a base case and what each scene changes in it.          *)
EXTENDS HubReplay

CONSTANTS s1, s2

Base ==
    [sessions |-> {s1}, kinds |-> {"global"}, events |-> 4, qCap |-> 2, coldCap |-> 0,
     gateMayFail |-> FALSE, mayShed |-> FALSE, dropRaces |-> FALSE, lossyHandshake |-> FALSE,
     disc |-> 1, prune |-> 0, restart |-> 0]

\* A queue of one overflows between direct sequenced sends.
Queue == [Base EXCEPT !.kinds = {"global", "direct"}, !.qCap = 1]

\* Channel content, with gate reads that fail and a limiter that sheds.
Gate == [Base EXCEPT !.kinds = {"global", "chat"}, !.events = 3, !.gateMayFail = TRUE, !.mayShed = TRUE]

\* Targeted fan-outs race resumes, and a handshake may vanish; no queue drops.
Fan == [Base EXCEPT !.kinds = {"global", "vis"}, !.events = 3, !.qCap = 4, !.disc = 2, !.lossyHandshake = TRUE]

\* The events table behind the ring, with a row lost or pruned.
Cold == [Base EXCEPT !.events = 5, !.coldCap = 4, !.prune = 1]

\* A restart at any step.
Restart == [Base EXCEPT !.kinds = {"global", "vis"}, !.qCap = 4, !.coldCap = 4, !.disc = 0, !.restart = 1]

\* Two sessions, with a queue and a route table of one.
Two == [Base EXCEPT !.sessions = {s1, s2}, !.kinds = {"global", "chat"}, !.events = 3, !.qCap = 1,
                    !.gateMayFail = TRUE]

\* The frames of a voice room, which a resume adds after it registered.
Voice == [Base EXCEPT !.kinds = {"global", "voice"}, !.coldCap = 4]

SafetyScenes == {Queue, Gate, Fan, Cold, Restart, Two, Voice}
ConvergeScenes == {[Gate EXCEPT !.events = 3, !.qCap = 1]}
RaceScenes == {[Queue EXCEPT !.kinds = {"global"}, !.dropRaces = TRUE]}
ShedScenes == {[Base EXCEPT !.kinds = {"chat"}, !.events = 2, !.mayShed = TRUE, !.disc = 0]}
=============================================================================
