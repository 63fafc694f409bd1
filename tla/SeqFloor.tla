------------------------------- MODULE SeqFloor ------------------------------
(***************************************************************************)
(* The sequence floor every boot reserves (Server/internal/app/            *)
(* persistence.go, Server/db/ws_seq_floor.go): one copy in the settings    *)
(* table, one in a sidecar file beside the database, the backup restore    *)
(* that rewinds the first and carries it into the second, and the hub      *)
(* counter they seed.  A boot may crash after any step.                    *)
(***************************************************************************)
EXTENDS Integers

CONSTANTS
    Reserve,      \* WSSeqFloorReserve
    MaxFloor,     \* MaxWSSeqFloor
    MaxEmit,      \* bound: frames one boot sequences
    MaxBoot,      \* bound: boots
    FaultSets     \* the combinations of failing operations to consider

AllFaults == {"settingsRead", "settingsWrite", "sidecarRead", "sidecarWrite"}

\* The reserve only has to exceed what one boot can emit.
ASSUME ReserveAssumption == Reserve \in Nat /\ MaxEmit \in Nat /\ MaxEmit < Reserve
ASSUME FloorAssumption == MaxFloor \in Nat /\ Reserve <= MaxFloor /\ MaxBoot \in Nat
ASSUME FaultsAssumption == FaultSets \subseteq SUBSET AllFaults

VARIABLES
    settings,     \* settings.ws_seq_floor; 0 when no boot has stored one
    sidecar,      \* the sidecar's floor; 0 when the file is missing
    rows,         \* MAX(events.seq); 0 when the table is empty
    backup,       \* settings and rows as the latest backup captured them
    pc,           \* the process: down, carried, sidecar, settings, rows, up
    floor,        \* seedHubSeqFloor: newFloor once it is known
    stored,       \* seedHubSeqFloor: the sidecar write landed
    seeded,       \* seedHubSeqFloor reached hub.SeedSeq
    seq,          \* h.seq
    visW,         \* h.visibilityChangeSeq
    base,         \* auxiliary: h.seq when this boot began to serve
    prior,        \* auxiliary: the highest seq handed out before this boot
    handed,       \* auxiliary: the highest seq ever handed out
    boots,        \* auxiliary: boots so far
    faults        \* the operations that may fail, any number of times

disk == <<settings, sidecar, rows, backup>>
process == <<floor, stored, seeded, seq, visW, base, prior>>
vars == <<disk, pc, process, handed, boots, faults>>

Larger(a, b) == IF a > b THEN a ELSE b
Smaller(a, b) == IF a < b THEN a ELSE b

\* A new installation, or the server after a first boot that sequenced nothing;
\* the settings table is readable until that first boot is done.
Init ==
    /\ faults \in FaultSets
    /\ sidecar \in {0, Reserve} /\ settings = sidecar
    /\ "settingsRead" \in faults => sidecar = Reserve
    /\ rows = 0 /\ backup = [settings |-> 0, rows |-> 0]
    /\ pc = "down" /\ floor = 0 /\ stored = FALSE /\ seeded = FALSE
    /\ seq = 0 /\ visW = 0 /\ base = 0 /\ prior = 0 /\ handed = 0 /\ boots = 0

\* An operation works, or fails where the behaviour lets it.
Outcome(op, ok) == ok \/ op \in faults

\* The block above the stored floor, saturating at the limit.
NewFloor(f) == Smaller(f + Reserve, MaxFloor)

\* seedHubSeqFloor up to its writes: the larger copy that can be read.  A
\* damaged settings value counts as 0, an unreadable or missing sidecar not at all.
readFloor(settingsOK, damaged, sidecarOK) ==
    LET s == IF settingsOK /\ ~damaged THEN Smaller(settings, MaxFloor) ELSE 0
        c == IF sidecarOK THEN sidecar ELSE 0
        known == settingsOK \/ (sidecarOK /\ sidecar > 0)
    IN  /\ pc = "down" /\ boots < MaxBoot
        /\ Outcome("settingsRead", settingsOK /\ ~damaged) /\ Outcome("sidecarRead", sidecarOK)
        /\ boots' = boots + 1
        /\ floor' = NewFloor(Larger(s, c))
        /\ pc' = IF known THEN "sidecar" ELSE "rows"
        /\ seq' = 0 /\ visW' = 0 /\ stored' = FALSE /\ seeded' = FALSE /\ base' = 0 /\ prior' = handed
        /\ UNCHANGED <<disk, handed, faults>>

\* StoreWSSeqFloorSidecar: write, sync and rename, so the old value or the new.
storeSidecar(ok) ==
    /\ pc = "sidecar" /\ Outcome("sidecarWrite", ok)
    /\ sidecar' = IF ok THEN floor ELSE sidecar
    /\ stored' = ok
    /\ pc' = "settings"
    /\ UNCHANGED <<settings, rows, backup, floor, seeded, seq, visW, base, prior, handed, boots, faults>>

\* SetSetting, then SeedSeq if either write landed.
storeSettings(ok) ==
    /\ pc = "settings" /\ Outcome("settingsWrite", ok)
    /\ settings' = IF ok THEN floor ELSE settings
    /\ seeded' = (stored \/ ok)
    /\ seq' = IF stored \/ ok THEN Larger(seq, floor) ELSE seq
    /\ pc' = "rows"
    /\ UNCHANGED <<sidecar, rows, backup, floor, stored, visW, base, prior, handed, boots, faults>>

\* seedHubReplayState's second source: MAX(events.seq), when it can be read.
seedRows(ok) ==
    /\ pc = "rows" /\ Outcome("settingsRead", ok)
    /\ seq' = IF ok THEN Larger(seq, rows) ELSE seq
    /\ visW' = IF ok /\ rows > 0 THEN seq' ELSE visW
    /\ base' = seq'
    /\ pc' = "up"
    /\ UNCHANGED <<disk, floor, stored, seeded, prior, handed, boots, faults>>

\* nextSeq.
nextSeq ==
    /\ pc = "up" /\ seq < base + MaxEmit
    /\ seq' = seq + 1
    /\ handed' = Larger(handed, seq + 1)
    /\ UNCHANGED <<disk, pc, floor, stored, seeded, visW, base, prior, boots, faults>>

\* The persister's newest row so far; retention may have emptied the table.
eventRows(r) ==
    /\ pc = "up" /\ (r = 0 \/ (r > base /\ r <= seq))
    /\ rows' = r
    /\ UNCHANGED <<settings, sidecar, backup, pc, process, handed, boots, faults>>

takeBackup ==
    /\ pc = "up"
    /\ backup' = [settings |-> settings, rows |-> rows]
    /\ UNCHANGED <<settings, sidecar, rows, pc, process, handed, boots, faults>>

\* Shutdown, or a crash at any step of a boot or of a restore.
stop ==
    /\ pc # "down"
    /\ pc' = "down"
    /\ UNCHANGED <<disk, process, handed, boots, faults>>

\* Mutant: the restore keeps the sidecar it finds.
CarriedFloorOld(live, existing) == existing

\* The floor a restore leaves in the sidecar.
CarriedFloor(live, existing) == Larger(live, existing)

\* CarryWSSeqFloorForRestore: fold the live settings value into the sidecar; a
\* failed write refuses the restore, an unreadable source counts as 0.
carryFloor(liveOK, sidecarOK, writeOK) ==
    LET live == IF liveOK /\ settings <= MaxFloor THEN settings ELSE 0
        f    == CarriedFloor(live, IF sidecarOK THEN sidecar ELSE 0)
    IN  /\ pc = "down"
        /\ Outcome("settingsRead", liveOK) /\ Outcome("sidecarRead", sidecarOK)
        /\ Outcome("sidecarWrite", writeOK)
        /\ sidecar' = IF f > 0 /\ writeOK THEN f ELSE sidecar
        /\ pc' = IF f = 0 \/ writeOK THEN "carried" ELSE "down"
        /\ UNCHANGED <<settings, rows, backup, process, handed, boots, faults>>

\* The backup replaces the database.
swapDatabase ==
    /\ pc = "carried"
    /\ settings' = backup.settings /\ rows' = backup.rows
    /\ pc' = "down"
    /\ UNCHANGED <<sidecar, backup, process, handed, boots, faults>>

Next ==
    \/ \E a, b, c \in BOOLEAN : readFloor(a, b, c) \/ carryFloor(a, b, c)
    \/ \E ok \in BOOLEAN : storeSidecar(ok) \/ storeSettings(ok) \/ seedRows(ok)
    \/ nextSeq \/ (\E r \in 0..seq : eventRows(r)) \/ takeBackup
    \/ stop \/ swapDatabase

Spec == Init /\ [][Next]_vars

-----------------------------------------------------------------------------
TypeOK ==
    /\ settings \in 0..MaxFloor /\ sidecar \in 0..MaxFloor /\ floor \in 0..MaxFloor
    /\ rows \in Nat /\ backup \in [settings : 0..MaxFloor, rows : Nat]
    /\ seq \in Nat /\ visW \in Nat /\ base \in Nat
    /\ prior \in Nat /\ handed \in Nat /\ boots \in Nat
    /\ pc \in {"down", "carried", "sidecar", "settings", "rows", "up"}
    /\ stored \in BOOLEAN /\ seeded \in BOOLEAN
    /\ faults \subseteq AllFaults

\* A boot that seeded its counter from the floor serves above every seq handed
\* out before it, so a last_seq of an earlier boot is below its whole ring
\* window and cannot be mistaken for one of this boot (seedHubReplayState).  The
\* saturated floor is the exception the code names.
Fresh == pc = "up" /\ seeded /\ floor < MaxFloor => prior < base

\* The failures the two copies make up for, however often they happen: any of
\* the settings table's with a sound sidecar; or failed writes of one copy.
Tolerated ==
    \/ faults \cap {"sidecarRead", "sidecarWrite"} = {}
    \/ faults \in {{"settingsWrite"}, {"sidecarWrite"}}

\* Under those failures, with crashes between any two steps and restores of any
\* earlier backup, a seeded boot never reuses sequence numbers.
FreshEpoch == Tolerated => Fresh
=============================================================================
