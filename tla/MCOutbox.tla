---- MODULE MCOutbox ----
(* Two accounts; alice has two texts that are saved and one that is not. *)
EXTENDS Outbox

CONSTANTS alice, bob, t1, t2, reply, u1

MCOwners == {alice, bob}
MCTexts == {t1, t2, reply, u1}
MCOwnerOf == [m \in MCTexts |-> IF m = u1 THEN bob ELSE alice]
MCDurable == {t1, t2, u1}

====
