----------------------------- MODULE RingWindow ------------------------------
(***************************************************************************)
(* What EventRingBuffer promises: a bounded window on the frames the hub   *)
(* sequenced, oldest first, from which data can be taken but never a slot. *)
(***************************************************************************)
EXTENDS RingOps

CONSTANTS Seeds

VARIABLES window, seq

Init == window = <<>> /\ seq \in Seeds

Push(ch, content, d) ==
    /\ seq' = seq + 1
    /\ window' = PushEntry(window, [seq |-> seq + 1, channelID |-> ch,
                                    contentBearing |-> content, data |-> d])

Remove(drop) == window' = RemoveWhere(window, drop) /\ UNCHANGED seq

Next ==
    \/ \E ch \in Channels \cup {0}, content \in BOOLEAN, d \in Payloads : Push(ch, content, d)
    \/ \E drop \in SUBSET Payloads : Remove(drop)

Spec == Init /\ [][Next]_<<window, seq>>
=============================================================================
