--------------------------- MODULE SeqFloorProofs ----------------------------
(***************************************************************************)
(* SeqFloor for every reserve, limit and number of boots: a seeded boot    *)
(* never hands out a sequence number an earlier boot handed out, under the *)
(* failures Tolerated names.                                               *)
(***************************************************************************)
EXTENDS SeqFloor, TLAPS

USE ReserveAssumption, FloorAssumption

\* With a sound sidecar the settings table may fail in any way.
SidecarSound == faults \cap {"sidecarRead", "sidecarWrite"} = {}

\* The copy the next boot is sure to read: the sidecar when only it can be
\* relied on, else the larger one.
Known == IF SidecarSound THEN sidecar ELSE Larger(settings, sidecar)

\* Everything handed out lies inside the block the known copy stands for.
Covered == Known = MaxFloor \/ handed < Known + Reserve

\* While a boot is under way its new floor is above everything handed out.
Booting ==
    pc \in {"sidecar", "settings", "rows"} =>
        /\ prior = handed
        /\ Known <= floor
        /\ floor = MaxFloor \/ handed < floor

\* What the steps of the boot have established by the time they are over.
Progress ==
    /\ pc = "sidecar" => seq = 0
    /\ pc = "settings" => seq = 0 /\ (stored => sidecar = floor)
                          /\ (~stored => "sidecarWrite" \in faults)
    /\ pc \in {"rows", "up"} => seeded /\ Known = floor
    /\ pc = "rows" => seq = floor

\* A serving boot started at its floor and stays inside its block.
Serving ==
    pc = "up" => /\ floor = MaxFloor \/ (base = floor /\ prior < floor)
                 /\ base <= seq /\ seq <= base + MaxEmit /\ floor <= base
                 /\ seq = base \/ seq <= handed

\* A restore that is about to swap has the live floor in the sidecar.
Carried == pc = "carried" /\ ~SidecarSound => settings <= sidecar

\* Before the first boot the settings table can be read.
FirstBoot == "settingsRead" \in faults => sidecar > 0

IInv ==
    /\ TypeOK /\ Tolerated /\ rows <= handed /\ backup.rows <= handed
    /\ Covered /\ Booting /\ Progress /\ Serving /\ Carried /\ FirstBoot

USE DEF Larger, Smaller

\* A new installation satisfies the invariant.
LEMMA InitIInv == Init /\ Tolerated => IInv
<1> SUFFICES ASSUME Init, Tolerated PROVE IInv
  BY Zenon
<1>1. TypeOK
  <2>1. faults \subseteq AllFaults
    BY FaultsAssumption, Zenon DEF Init
  <2>2. backup \in [settings : 0..MaxFloor, rows : Nat] /\ backup.rows = 0
    BY DEF Init
  <2>3. settings \in 0..MaxFloor /\ sidecar \in 0..MaxFloor /\ floor \in 0..MaxFloor
    BY DEF Init
  <2> QED
    BY <2>1, <2>2, <2>3, Zenon DEF Init, TypeOK
<1>2. rows <= handed /\ backup.rows <= handed /\ Covered /\ FirstBoot
  BY DEF Init, Covered, Known, FirstBoot
<1>3. Booting /\ Progress /\ Serving /\ Carried
  BY Zenon DEF Init, Booting, Progress, Serving, Carried
<1> QED
  BY <1>1, <1>2, <1>3, Zenon DEF IInv

\* Reading the two copies starts a boot above everything handed out.
LEMMA ReadFloorIInv ==
    ASSUME NEW a \in BOOLEAN, NEW b \in BOOLEAN, NEW c \in BOOLEAN, IInv, readFloor(a, b, c)
    PROVE  IInv'
<1> DEFINE s0 == IF a /\ ~b THEN Smaller(settings, MaxFloor) ELSE 0
           c0 == IF c THEN sidecar ELSE 0
           m0 == Larger(s0, c0)
<1> USE DEF IInv, TypeOK
<1>1. SidecarSound \/ faults = {"sidecarWrite"}
  BY Zenon DEF Tolerated, SidecarSound
<1>2. SidecarSound => c
  BY Zenon DEF readFloor, Outcome, SidecarSound
<1>3. faults = {"sidecarWrite"} => a /\ ~b /\ c
  BY Zenon DEF readFloor, Outcome
<1>4. a \/ (c /\ sidecar > 0)
  <2>1. CASE "settingsRead" \in faults
    BY <2>1, <1>1, <1>2 DEF FirstBoot
  <2>2. CASE "settingsRead" \notin faults
    BY <2>2, Zenon DEF readFloor, Outcome
  <2> QED
    BY <2>1, <2>2, Zenon
<1>5. m0 \in 0..MaxFloor /\ Known \in 0..MaxFloor /\ Known <= m0
  BY <1>1, <1>2, <1>3 DEF Known
<1>6. floor' = Smaller(m0 + Reserve, MaxFloor)
  BY Zenon DEF readFloor, NewFloor
<1>7. floor' \in 0..MaxFloor /\ Known <= floor' /\ (floor' = MaxFloor \/ handed < floor')
  BY <1>5, <1>6 DEF Covered
<1>8. pc' = "sidecar" /\ seq' = 0 /\ prior' = handed
  BY <1>4, Zenon DEF readFloor
<1>9. UNCHANGED <<settings, sidecar, rows, backup, handed, faults>> /\ Known' = Known
  BY Zenon DEF readFloor, disk, Known, SidecarSound
<1>10. TypeOK'
  <2>1. settings' \in 0..MaxFloor /\ sidecar' \in 0..MaxFloor /\ floor' \in 0..MaxFloor
    BY <1>7, <1>9, Zenon
  <2>2. rows' \in Nat /\ backup' \in [settings : 0..MaxFloor, rows : Nat] /\ faults' \subseteq AllFaults
    BY <1>9, Zenon
  <2>3. seq' \in Nat /\ visW' \in Nat /\ base' \in Nat /\ prior' \in Nat /\ handed' \in Nat /\ boots' \in Nat
    BY <1>9 DEF readFloor
  <2>4. stored' \in BOOLEAN /\ seeded' \in BOOLEAN
    BY Zenon DEF readFloor
  <2>5. pc' \in {"down", "carried", "sidecar", "settings", "rows", "up"}
    BY <1>8, Zenon
  <2> QED
    BY <2>1, <2>2, <2>3, <2>4, <2>5, Zenon
<1>11. Tolerated' /\ Covered' /\ FirstBoot'
  BY <1>9, Zenon DEF Tolerated, Covered, FirstBoot
<1>12. Booting' /\ Progress' /\ Serving' /\ Carried'
  BY <1>7, <1>8, <1>9, Zenon DEF Booting, Progress, Serving, Carried
<1> QED
  BY <1>9, <1>10, <1>11, <1>12, Zenon

\* The carry of a restore never lowers the known copy.
LEMMA CarryFloorIInv ==
    ASSUME NEW a \in BOOLEAN, NEW b \in BOOLEAN, NEW c \in BOOLEAN, IInv, carryFloor(a, b, c)
    PROVE  IInv'
BY DEF IInv, TypeOK, Tolerated, Covered, Known, SidecarSound, Booting, Progress, Serving, Carried,
       FirstBoot, AllFaults, Outcome, disk, process, carryFloor, CarriedFloor

\* The sidecar write raises the known copy or leaves it.
LEMMA StoreSidecarIInv ==
    ASSUME NEW ok \in BOOLEAN, IInv, storeSidecar(ok)
    PROVE  IInv'
BY DEF IInv, TypeOK, Tolerated, Covered, Known, SidecarSound, Booting, Progress, Serving, Carried,
       FirstBoot, AllFaults, Outcome, disk, process, storeSidecar

\* After the settings write one copy holds the floor, so the boot is seeded.
LEMMA StoreSettingsIInv ==
    ASSUME NEW ok \in BOOLEAN, IInv, storeSettings(ok)
    PROVE  IInv'
BY DEF IInv, TypeOK, Tolerated, Covered, Known, SidecarSound, Booting, Progress, Serving, Carried,
       FirstBoot, AllFaults, Outcome, disk, process, storeSettings

\* MAX(events.seq) cannot exceed an unsaturated floor.
LEMMA SeedRowsIInv ==
    ASSUME NEW ok \in BOOLEAN, IInv, seedRows(ok)
    PROVE  IInv'
BY DEF IInv, TypeOK, Tolerated, Covered, Known, SidecarSound, Booting, Progress, Serving, Carried,
       FirstBoot, AllFaults, Outcome, disk, process, seedRows

\* A frame stays inside the boot's block.
LEMMA NextSeqIInv ==
    ASSUME IInv, nextSeq
    PROVE  IInv'
BY DEF IInv, TypeOK, Tolerated, Covered, Known, SidecarSound, Booting, Progress, Serving, Carried,
       FirstBoot, AllFaults, Outcome, disk, process, nextSeq

\* The table only holds seqs that were handed out.
LEMMA EventRowsIInv ==
    ASSUME NEW r \in 0..seq, IInv, eventRows(r)
    PROVE  IInv'
BY DEF IInv, TypeOK, Tolerated, Covered, Known, SidecarSound, Booting, Progress, Serving, Carried,
       FirstBoot, AllFaults, Outcome, disk, process, eventRows

\* A backup captures a floor within the limit.
LEMMA TakeBackupIInv ==
    ASSUME IInv, takeBackup
    PROVE  IInv'
BY Zenon DEF IInv, TypeOK, Tolerated, Covered, Known, SidecarSound, Booting, Progress, Serving, Carried,
       FirstBoot, AllFaults, Outcome, disk, process, takeBackup

\* A crash at any step leaves the disk as it is.
LEMMA StopIInv ==
    ASSUME IInv, stop
    PROVE  IInv'
BY Zenon DEF IInv, TypeOK, Tolerated, Covered, Known, SidecarSound, Booting, Progress, Serving, Carried,
       FirstBoot, AllFaults, Outcome, disk, process, stop

\* The swap rewinds the settings copy only.
LEMMA SwapDatabaseIInv ==
    ASSUME IInv, swapDatabase
    PROVE  IInv'
BY DEF IInv, TypeOK, Tolerated, Covered, Known, SidecarSound, Booting, Progress, Serving, Carried,
       FirstBoot, AllFaults, Outcome, disk, process, swapDatabase

\* Every step keeps the invariant.
LEMMA StepIInv == IInv /\ [Next]_vars => IInv'
<1> SUFFICES ASSUME IInv, [Next]_vars PROVE IInv'
  BY Zenon
<1>1. CASE UNCHANGED vars
  BY <1>1 DEF vars, disk, process, IInv, TypeOK, Tolerated, Covered, Known, SidecarSound, Booting,
     Progress, Serving, Carried, FirstBoot
<1>2. CASE \E a, b, c \in BOOLEAN : readFloor(a, b, c) \/ carryFloor(a, b, c)
  BY <1>2, ReadFloorIInv, CarryFloorIInv, Zenon
<1>3. CASE \E ok \in BOOLEAN : storeSidecar(ok) \/ storeSettings(ok) \/ seedRows(ok)
  BY <1>3, StoreSidecarIInv, StoreSettingsIInv, SeedRowsIInv, Zenon
<1>4. CASE nextSeq \/ (\E r \in 0..seq : eventRows(r)) \/ takeBackup
  BY <1>4, NextSeqIInv, EventRowsIInv, TakeBackupIInv, Zenon
<1>5. CASE stop \/ swapDatabase
  BY <1>5, StopIInv, SwapDatabaseIInv, Zenon
<1> QED
  BY <1>1, <1>2, <1>3, <1>4, <1>5, Zenon DEF Next

\* No step changes which operations may fail.
LEMMA FaultsFixed == [Next]_vars => faults' = faults
BY Zenon DEF Next, vars, readFloor, carryFloor, storeSidecar, storeSettings, seedRows, nextSeq, eventRows,
   takeBackup, stop, swapDatabase

\* The invariant holds in every behaviour whose failures are tolerated.
THEOREM FloorInvariant == Spec => [](Tolerated => IInv)
<1>1. Init => (Tolerated => IInv)
  BY InitIInv, Zenon
<1>2. (Tolerated => IInv) /\ [Next]_vars => (Tolerated => IInv)'
  <2>1. [Next]_vars /\ Tolerated' => Tolerated
    BY FaultsFixed, Zenon DEF Tolerated
  <2> QED
    BY <2>1, StepIInv, Zenon
<1> QED
  BY <1>1, <1>2, PTL DEF Spec

\* A boot seeded from the floor serves above every sequence number handed out
\* before it, for every reserve that exceeds what one boot emits.
THEOREM SeededBootIsFresh == Spec => []FreshEpoch
<1>1. (Tolerated => IInv) => FreshEpoch
  BY DEF IInv, FreshEpoch, Fresh, Serving, TypeOK
<1> QED
  BY <1>1, FloorInvariant, PTL
=============================================================================
