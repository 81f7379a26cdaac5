--------------------------- MODULE RollbackProofs ---------------------------
(***************************************************************************)
(* Theorems about the rollback of a bad install in Bootloader: while the   *)
(* power is steady, one write that fails unnoticed, whichever it is, is    *)
(* found and undone or does no harm.                                       *)
(***************************************************************************)
EXTENDS BootloaderProofs

OneSilentFault ==
  /\ ~PowerMayFail /\ FaultKinds \subseteq {"silent"} /\ MaxFaults <= 1
  /\ ImageBlocks <= CopyBlocks

\* The copy at dst agrees with its source up to block n, and is erased from
\* block n on.
Copied(dst, src, n) ==
  \A i \in 0 .. CopyBlocks - 1 : i < n => flash[dst + i] = flash[src + i]
Blank(base, n) ==
  \A i \in 0 .. CopyBlocks - 1 : ~(i < n) => flash[base + i] = Erased

(***************************************************************************)
(* The inductive invariant.  The one fault there can be has spoilt either  *)
(* the backup, and then the install is sound and nothing falls back on the *)
(* backup, or the install, and then the backup and the reload are sound.   *)
(***************************************************************************)
FailSteps == {"fail_flag", "fail_erase_app", "reload"}
BackedUp == Holds(Backdata_Program_Address, current)

Flagged ==
  /\ pc \in Updating \cup {"fail_flag"} => flag = "set"
  /\ flag = "set" => /\ pc \in Updating \cup {"fail_flag", "check_flag"}
                     /\ \E v \in Images : Holds(Updata_Program_Address, v)

Runnable ==
  /\ pc # "halt"
  /\ pc \in {"check_flag", "erase_back", "backup", "ok_erase_updata", "go_to_app", "app"} =>
       Holds(App_Address, current)

HalfErased == idx # 0 =>
  /\ pc \notin {"check_flag", "verify", "fail_flag", "ok_flag"}
  /\ pc = "erase_back" => \A a \in Backdata_Program_SECTOR_1 : flash[a] = Erased
  /\ pc \in {"erase_app", "fail_erase_app"} => \A a \in App_SECTOR_1 : flash[a] = Erased
  /\ pc = "ok_erase_updata" => \A a \in Updata_Program_SECTOR_1 : flash[a] = Erased

BackupSound ==
  /\ pc = "backup" => /\ Blank(Backdata_Program_Address, idx)
                      /\ faults = 1 \/ Copied(Backdata_Program_Address, App_Address, idx)
  /\ pc \in {"erase_app", "install", "verify"} => faults = 1 \/ BackedUp

InstallSound ==
  /\ pc = "install" => /\ Blank(App_Address, idx)
                       /\ \/ Copied(App_Address, Updata_Program_Address, idx)
                          \/ faults = 1 /\ BackedUp
  /\ pc = "verify" => Check_Program \/ (faults = 1 /\ BackedUp)
  /\ pc = "ok_flag" => Check_Program

ReloadSound ==
  /\ pc \in FailSteps => faults = 1 /\ BackedUp
  /\ pc = "reload" => /\ Blank(App_Address, idx)
                      /\ Copied(App_Address, Backdata_Program_Address, idx)

RollInv ==
  /\ TypeOK /\ sr = "ok" /\ current \in Images
  /\ Flagged /\ Runnable /\ HalfErased /\ BackupSound /\ InstallSound /\ ReloadSound
-----------------------------------------------------------------------------
(* The flash operations when one write may fail unnoticed.                 *)

LEMMA OneFault ==
  ASSUME OneSilentFault, TypeOK
  PROVE  /\ faults \in {0, 1} /\ faults' \in 0 .. MaxFaults => faults' \in {0, 1}
         /\ \A kind : Fault(kind) => faults = 0 /\ faults' = 1 /\ sr' = "ok"
         /\ "reported" \notin FaultKinds
BY FlashAssumption DEF OneSilentFault, TypeOK, FlashTypeOK, Fault

LEMMA FaultyProgram ==
  ASSUME OneSilentFault, TypeOK, sr = "ok", NEW a \in Address, NEW d, FLASH_ProgramByte(a, d)
  PROVE  /\ \A b \in Address \ {a} : flash'[b] = flash[b]
         /\ UNCHANGED <<flag, sr>>
         /\ \/ faults' = faults /\ (flash[a] = Erased => flash'[a] = d)
            \/ faults = 0 /\ faults' = 1
<1>1. \A b \in Address \ {a} : flash'[b] = flash[b]
  BY ProgramSpares DEF TypeOK
<1>2. CASE /\ \E c \in Overlay(flash[a], d) : flash' = [flash EXCEPT ![a] = c]
           /\ UNCHANGED <<flag, sr, faults>>
  <2>1. flash[a] = Erased => Overlay(flash[a], d) = {d}
    BY DEF Overlay
  <2> QED BY <1>1, <1>2, <2>1 DEF TypeOK, FlashTypeOK
<1>3. CASE (\E kind \in FaultKinds : Fault(kind)) /\ UNCHANGED flag
  BY <1>1, <1>3, OneFault
<1> QED BY <1>2, <1>3 DEF FLASH_ProgramByte, Refused

LEMMA UnfailingErase ==
  ASSUME OneSilentFault, TypeOK, sr = "ok", NEW sector, FLASH_EraseSector(sector)
  PROVE  /\ \A b \in Address : flash'[b] = IF b \in sector THEN Erased ELSE flash[b]
         /\ UNCHANGED <<flag, sr, faults>>
BY OneFault DEF FLASH_EraseSector, Refused, Fault

LEMMA UnfailingReset ==
  ASSUME OneSilentFault, TypeOK, sr = "ok", Reset_Updata_Flag
  PROVE  flag' = "clear" /\ UNCHANGED <<flash, sr, faults>>
BY OneFault DEF Reset_Updata_Flag, Refused, Fault

-----------------------------------------------------------------------------
(* One step of a loop.                                                     *)

\* A step of an erase: the first sector, or the second and with it the area.
LEMMA EraseStep ==
  ASSUME OneSilentFault, TypeOK, sr = "ok", NEW here, NEW next,
         NEW base \in {App_Address, Updata_Program_Address, Backdata_Program_Address},
         EraseArea(here, base, next),
         idx # 0 => \A a \in Sector(base) : flash[a] = Erased
  PROVE  /\ UNCHANGED <<flag, sr, faults, current>>
         /\ \A b \in Address : b \notin Sector(base) \cup Sector(base + SectorBlocks) =>
              flash'[b] = flash[b]
         /\ \/ pc' = here /\ \A a \in Sector(base) : flash'[a] = Erased
            \/ /\ pc' = next /\ idx' = 0
               /\ \A i \in 0 .. CopyBlocks - 1 : flash'[base + i] = Erased
<1>1. /\ \A b \in Address : flash'[b] = IF b \in SectorUnderErase(base) THEN Erased ELSE flash[b]
      /\ UNCHANGED <<flag, sr, faults, current>>
  BY UnfailingErase DEF EraseArea
<1>2. Sector(base) \subseteq Address /\ Sector(base + SectorBlocks) \subseteq Address
  BY Geometry DEF Sector, Address, App_Address, Updata_Program_Address, Backdata_Program_Address
<1>3. \A i \in 0 .. CopyBlocks - 1 : base + i \in Sector(base) \cup Sector(base + SectorBlocks)
  BY Geometry DEF Sector, App_Address, Updata_Program_Address, Backdata_Program_Address
<1>4. CASE idx = 0
  <2>1. pc' = here /\ SectorUnderErase(base) = Sector(base)
    BY <1>4 DEF EraseArea, SectorUnderErase
  <2> QED BY <1>1, <1>2, <2>1
<1>5. CASE idx # 0
  <2>1. pc' = next /\ idx' = 0 /\ SectorUnderErase(base) = Sector(base + SectorBlocks)
    BY <1>5 DEF EraseArea, SectorUnderErase
  <2>2. \A b \in Sector(base) \cup Sector(base + SectorBlocks) : flash'[b] = Erased
    BY <1>1, <1>2, <1>5, <2>1
  <2> QED BY <1>1, <1>3, <2>1, <2>2
<1> QED BY <1>4, <1>5

\* A step of a copy into an erased area: the next block is copied, or is the
\* one that fails.
LEMMA CopyStep ==
  ASSUME OneSilentFault, TypeOK, sr = "ok", NEW here, NEW next,
         NEW dst \in {App_Address, Backdata_Program_Address},
         NEW src \in {App_Address, Updata_Program_Address, Backdata_Program_Address}, src # dst,
         Program_Updata(here, dst, src, next), Blank(dst, idx)
  PROVE  /\ UNCHANGED <<flag, sr, current>>
         /\ \A b \in Address : b \notin dst .. dst + CopyBlocks - 1 => flash'[b] = flash[b]
         /\ \/ pc' = here /\ idx' = idx + 1
            \/ pc' = next /\ idx' = 0 /\ idx + 1 = CopyBlocks
         /\ \A i \in 0 .. CopyBlocks - 1 : ~(i < idx + 1) => flash'[dst + i] = Erased
         /\ \/ faults = 0 /\ faults' = 1
            \/ /\ faults' = faults
               /\ Copied(dst, src, idx) => \A i \in 0 .. CopyBlocks - 1 :
                    i < idx + 1 => flash'[dst + i] = flash'[src + i]
<1>1. idx \in 0 .. CopyBlocks - 1 /\ dst + idx \in Address
  BY CopyAddress DEF TypeOK
<1>2. /\ \A b \in Address \ {dst + idx} : flash'[b] = flash[b]
      /\ UNCHANGED <<flag, sr, current>>
      /\ \/ faults' = faults
            /\ (flash[dst + idx] = Erased => flash'[dst + idx] = flash[src + idx])
         \/ faults = 0 /\ faults' = 1
  BY <1>1, FaultyProgram DEF Program_Updata, Copy
<1>3. /\ dst \in Nat /\ src \in Nat
      /\ \A i \in 0 .. CopyBlocks - 1 : dst + i \in Address /\ src + i \in Address
  BY Geometry DEF Address, App_Address, Updata_Program_Address, Backdata_Program_Address
<1>4. \A i, j \in 0 .. CopyBlocks - 1 : src + i # dst + j
  BY Geometry DEF App_Address, Updata_Program_Address, Backdata_Program_Address
<1>5. \A i \in 0 .. CopyBlocks - 1 : i # idx => flash'[dst + i] = flash[dst + i]
  BY <1>1, <1>2, <1>3
<1>6. \A i \in 0 .. CopyBlocks - 1 : flash'[src + i] = flash[src + i]
  BY <1>1, <1>2, <1>3, <1>4
<1>7. flash[dst + idx] = Erased
  BY <1>1 DEF Blank
<1>8. \A b \in Address : b \notin dst .. dst + CopyBlocks - 1 => flash'[b] = flash[b]
  BY <1>1, <1>2, <1>3, Geometry
<1>9. \/ pc' = here /\ idx' = idx + 1
      \/ pc' = next /\ idx' = 0 /\ idx + 1 = CopyBlocks
  BY <1>1, Geometry DEF Program_Updata, Copy
<1>10. ASSUME NEW i \in 0 .. CopyBlocks - 1, ~(i < idx + 1) PROVE flash'[dst + i] = Erased
  <2>1. i # idx /\ ~(i < idx)
    BY <1>1, <1>10
  <2> QED BY <1>5, <2>1 DEF Blank
<1>11. ASSUME faults' = faults, ~(faults = 0 /\ faults' = 1), Copied(dst, src, idx),
              NEW i \in 0 .. CopyBlocks - 1, i < idx + 1
       PROVE  flash'[dst + i] = flash'[src + i]
  <2>1. CASE i = idx
    BY <1>1, <1>2, <1>6, <1>7, <1>11, <2>1
  <2>2. CASE i # idx
    <3>1. i < idx
      BY <1>1, <1>11, <2>2
    <3> QED BY <1>5, <1>6, <1>11, <2>2, <3>1 DEF Copied
  <2> QED BY <2>1, <2>2
<1> QED BY <1>2, <1>8, <1>9, <1>10, <1>11

\* A copy, all of whose blocks agree with its source, holds the same image.
LEMMA CopyHolds ==
  ASSUME ImageBlocks <= CopyBlocks, NEW dst, NEW src, NEW v, Holds(src, v),
         \A i \in 0 .. CopyBlocks - 1 : flash[dst + i] = flash[src + i]
  PROVE  Holds(dst, v)
<1>1. \A i \in 0 .. ImageBlocks - 1 : i \in 0 .. CopyBlocks - 1
  BY Geometry
<1> QED BY <1>1 DEF Holds

\* An area none of whose blocks a step changes holds what it held.
LEMMA AreaKept ==
  ASSUME OneSilentFault,
         NEW base \in {App_Address, Updata_Program_Address, Backdata_Program_Address},
         NEW dst \in {App_Address, Updata_Program_Address, Backdata_Program_Address},
         dst # base,
         \A b \in Address : b \notin Sector(dst) \cup Sector(dst + SectorBlocks) =>
           flash'[b] = flash[b]
  PROVE  /\ \A i \in 0 .. CopyBlocks - 1 : flash'[base + i] = flash[base + i]
         /\ \A i \in 0 .. ImageBlocks - 1 : flash'[base + i] = flash[base + i]
<1>1. \A i \in 0 .. CopyBlocks - 1 :
        base + i \in Address /\ base + i \notin Sector(dst) \cup Sector(dst + SectorBlocks)
  BY Geometry DEF Sector, Address, App_Address, Updata_Program_Address, Backdata_Program_Address
<1>2. \A i \in 0 .. ImageBlocks - 1 : i \in 0 .. CopyBlocks - 1
  BY Geometry DEF OneSilentFault
<1> QED BY <1>1, <1>2

LEMMA WithinArea ==
  ASSUME NEW dst \in {App_Address, Backdata_Program_Address}
  PROVE  dst .. dst + CopyBlocks - 1 \subseteq Sector(dst) \cup Sector(dst + SectorBlocks)
BY Geometry DEF Sector, App_Address, Backdata_Program_Address
-----------------------------------------------------------------------------
(* The steps of main().  Each leaves the areas it does not write alone.    *)

\* The staged image outlives the steps of an update.
LEMMA FlaggedKept ==
  ASSUME OneSilentFault, RollInv, flag = "set", flag' = "set",
         pc' \in Updating \cup {"fail_flag"},
         \A i \in 0 .. ImageBlocks - 1 :
           flash'[Updata_Program_Address + i] = flash[Updata_Program_Address + i]
  PROVE  Flagged'
<1>1. PICK v \in Images : Holds(Updata_Program_Address, v)
  BY DEF RollInv, Flagged
<1>2. Holds(Updata_Program_Address, v)'
  BY <1>1, Untouched
<1> QED BY <1>2 DEF Flagged

LEMMA EraseBackRoll ==
  ASSUME OneSilentFault, RollInv, TypeOK', EraseBackApp
  PROVE  RollInv'
<1>1. /\ pc = "erase_back" /\ flag = "set" /\ TypeOK /\ sr = "ok" /\ Holds(App_Address, current)
  BY DEF EraseBackApp, EraseArea, RollInv, Flagged, Runnable, Updating
<1>2. Backdata_Program_SECTOR_1 = Sector(Backdata_Program_Address)
  BY DEF Backdata_Program_SECTOR_1
<1>3. idx # 0 => \A a \in Sector(Backdata_Program_Address) : flash[a] = Erased
  BY <1>1, <1>2 DEF RollInv, HalfErased
<1>4. /\ UNCHANGED <<flag, sr, faults, current>>
      /\ \A b \in Address : b \notin Sector(Backdata_Program_Address)
                                     \cup Sector(Backdata_Program_Address + SectorBlocks) =>
           flash'[b] = flash[b]
      /\ \/ pc' = "erase_back" /\ \A a \in Sector(Backdata_Program_Address) : flash'[a] = Erased
         \/ /\ pc' = "backup" /\ idx' = 0
            /\ \A i \in 0 .. CopyBlocks - 1 : flash'[Backdata_Program_Address + i] = Erased
  BY <1>1, <1>3, EraseStep DEF EraseBackApp
<1>5. App_Address # Backdata_Program_Address /\ Updata_Program_Address # Backdata_Program_Address
  BY Geometry DEF App_Address, Backdata_Program_Address, Updata_Program_Address
<1>6. /\ \A i \in 0 .. ImageBlocks - 1 : flash'[App_Address + i] = flash[App_Address + i]
      /\ \A i \in 0 .. ImageBlocks - 1 :
           flash'[Updata_Program_Address + i] = flash[Updata_Program_Address + i]
  BY <1>4, <1>5, AreaKept
<1>7. Flagged'
  BY <1>1, <1>4, <1>6, FlaggedKept DEF Updating
<1>8. Runnable'
  <2>1. Holds(App_Address, current)'
    BY <1>1, <1>4, <1>6 DEF Holds, App_Address, Block
  <2> QED BY <1>4, <2>1 DEF Runnable
<1>9. HalfErased'
  BY <1>2, <1>4 DEF HalfErased, Backdata_Program_SECTOR_1, Sector, Backdata_Program_Address
<1>10. BackupSound'
  <2>1. pc' = "backup" => \A i \in 0 .. CopyBlocks - 1 : ~(i < idx')
    BY <1>4
  <2> QED BY <1>4, <2>1 DEF BackupSound, Blank, Copied, Backdata_Program_Address
<1>11. InstallSound' /\ ReloadSound'
  BY <1>4 DEF InstallSound, ReloadSound, FailSteps
<1> QED BY <1>1, <1>4, <1>7, <1>8, <1>9, <1>10, <1>11 DEF RollInv

LEMMA BackupRoll ==
  ASSUME OneSilentFault, RollInv, TypeOK', Backup
  PROVE  RollInv'
<1>1. /\ pc = "backup" /\ flag = "set" /\ TypeOK /\ sr = "ok" /\ Holds(App_Address, current)
      /\ Blank(Backdata_Program_Address, idx) /\ idx \in Nat
      /\ faults = 1 \/ Copied(Backdata_Program_Address, App_Address, idx)
  BY DEF Backup, Program_Updata, Copy, RollInv, Flagged, Runnable, Updating, BackupSound, TypeOK
<1>2. App_Address # Backdata_Program_Address /\ Updata_Program_Address # Backdata_Program_Address
  BY Geometry DEF App_Address, Backdata_Program_Address, Updata_Program_Address
<1>3. /\ UNCHANGED <<flag, sr, current>>
      /\ \A b \in Address :
           b \notin Backdata_Program_Address .. Backdata_Program_Address + CopyBlocks - 1 =>
             flash'[b] = flash[b]
      /\ \/ pc' = "backup" /\ idx' = idx + 1
         \/ pc' = "erase_app" /\ idx' = 0 /\ idx + 1 = CopyBlocks
      /\ \A i \in 0 .. CopyBlocks - 1 :
           ~(i < idx + 1) => flash'[Backdata_Program_Address + i] = Erased
      /\ \/ faults = 0 /\ faults' = 1
         \/ /\ faults' = faults
            /\ Copied(Backdata_Program_Address, App_Address, idx) =>
                 \A i \in 0 .. CopyBlocks - 1 : i < idx + 1 =>
                   flash'[Backdata_Program_Address + i] = flash'[App_Address + i]
  BY <1>1, <1>2, CopyStep DEF Backup
<1>4. \A b \in Address : b \notin Sector(Backdata_Program_Address)
                                  \cup Sector(Backdata_Program_Address + SectorBlocks) =>
        flash'[b] = flash[b]
  BY <1>3, WithinArea
<1>5. /\ \A i \in 0 .. ImageBlocks - 1 : flash'[App_Address + i] = flash[App_Address + i]
      /\ \A i \in 0 .. ImageBlocks - 1 :
           flash'[Updata_Program_Address + i] = flash[Updata_Program_Address + i]
  BY <1>2, <1>4, AreaKept
<1>6. Flagged'
  BY <1>1, <1>3, <1>5, FlaggedKept DEF Updating
<1>7. Holds(App_Address, current)'
  BY <1>1, <1>3, <1>5 DEF Holds, App_Address, Block
<1>8. BackupSound'
  <2>1. CASE pc' = "backup" /\ idx' = idx + 1
    <3>1. Blank(Backdata_Program_Address, idx)'
      BY <1>3, <2>1 DEF Blank, Backdata_Program_Address
    <3>2. faults' = 1 \/ Copied(Backdata_Program_Address, App_Address, idx)'
      BY <1>1, <1>3, <2>1 DEF Copied, Backdata_Program_Address, App_Address
    <3> QED BY <2>1, <3>1, <3>2 DEF BackupSound
  <2>2. CASE pc' = "erase_app" /\ idx + 1 = CopyBlocks
    <3>1. faults' = 1 \/ BackedUp'
      <4>1. ASSUME faults' # 1
            PROVE  \A i \in 0 .. CopyBlocks - 1 :
                     flash'[Backdata_Program_Address + i] = flash'[App_Address + i]
        BY <1>1, <1>3, <2>2, <4>1
      <4>2. \A i \in 0 .. ImageBlocks - 1 : i \in 0 .. CopyBlocks - 1
        BY Geometry DEF OneSilentFault
      <4> QED BY <1>7, <4>1, <4>2 DEF BackedUp, Holds, Backdata_Program_Address, App_Address, Block
    <3> QED BY <2>2, <3>1 DEF BackupSound
  <2> QED BY <1>3, <2>1, <2>2
<1>9. Runnable' /\ HalfErased' /\ InstallSound' /\ ReloadSound'
  BY <1>3, <1>7 DEF Runnable, HalfErased, InstallSound, ReloadSound, FailSteps
<1> QED BY <1>1, <1>3, <1>6, <1>8, <1>9 DEF RollInv

\* The application area is erased before the install and before the reload.
LEMMA EraseAppRoll ==
  ASSUME OneSilentFault, RollInv, TypeOK', EraseApp \/ FailEraseApp
  PROVE  RollInv'
<1>1. /\ pc \in {"erase_app", "fail_erase_app"} /\ TypeOK /\ sr = "ok"
      /\ pc = "erase_app" => flag = "set" /\ (faults = 1 \/ BackedUp)
      /\ pc = "fail_erase_app" => faults = 1 /\ BackedUp /\ flag # "set"
  BY DEF EraseApp, FailEraseApp, EraseArea, RollInv, Flagged, Updating, BackupSound, ReloadSound,
         FailSteps
<1>2. idx # 0 => \A a \in Sector(App_Address) : flash[a] = Erased
  BY <1>1 DEF RollInv, HalfErased, App_SECTOR_1
<1>3. PICK next \in {"install", "reload"} :
        /\ EraseArea(pc, App_Address, next)
        /\ next = IF pc = "erase_app" THEN "install" ELSE "reload"
  BY DEF EraseApp, FailEraseApp, EraseArea
<1>4. /\ UNCHANGED <<flag, sr, faults, current>>
      /\ \A b \in Address : b \notin Sector(App_Address) \cup Sector(App_Address + SectorBlocks) =>
           flash'[b] = flash[b]
      /\ \/ pc' = pc /\ \A a \in Sector(App_Address) : flash'[a] = Erased
         \/ /\ pc' = next /\ idx' = 0
            /\ \A i \in 0 .. CopyBlocks - 1 : flash'[App_Address + i] = Erased
  BY <1>1, <1>2, <1>3, EraseStep
<1>5. App_Address # Backdata_Program_Address /\ Updata_Program_Address # App_Address
  BY Geometry DEF App_Address, Backdata_Program_Address, Updata_Program_Address
<1>6. /\ \A i \in 0 .. ImageBlocks - 1 :
           flash'[Updata_Program_Address + i] = flash[Updata_Program_Address + i]
      /\ \A i \in 0 .. ImageBlocks - 1 :
           flash'[Backdata_Program_Address + i] = flash[Backdata_Program_Address + i]
  BY <1>4, <1>5, AreaKept
<1>7. BackedUp => BackedUp'
  BY <1>4, <1>6 DEF BackedUp, Holds, Backdata_Program_Address, Block
<1>8. Flagged'
  <2>1. CASE pc = "erase_app"
    BY <1>1, <1>3, <1>4, <1>6, <2>1, FlaggedKept DEF Updating
  <2>2. CASE pc = "fail_erase_app"
    BY <1>1, <1>3, <1>4, <2>2 DEF Flagged, Updating
  <2> QED BY <1>1, <2>1, <2>2
<1>9. HalfErased'
  BY <1>1, <1>3, <1>4 DEF HalfErased, App_SECTOR_1, Sector, App_Address
<1>10. pc' = next => /\ \A i \in 0 .. CopyBlocks - 1 : ~(i < idx')
                     /\ Blank(App_Address, idx)'
                     /\ Copied(App_Address, Updata_Program_Address, idx)'
                     /\ Copied(App_Address, Backdata_Program_Address, idx)'
  BY <1>1, <1>3, <1>4 DEF Blank, Copied, App_Address
<1>11. BackupSound' /\ InstallSound' /\ ReloadSound'
  BY <1>1, <1>3, <1>4, <1>7, <1>10 DEF BackupSound, InstallSound, ReloadSound, FailSteps
<1>12. Runnable'
  BY <1>1, <1>3, <1>4 DEF Runnable
<1> QED BY <1>1, <1>4, <1>8, <1>9, <1>11, <1>12 DEF RollInv

LEMMA InstallRoll ==
  ASSUME OneSilentFault, RollInv, TypeOK', Install
  PROVE  RollInv'
<1>1. /\ pc = "install" /\ flag = "set" /\ TypeOK /\ sr = "ok"
      /\ Blank(App_Address, idx) /\ idx \in Nat
      /\ faults = 1 \/ BackedUp
      /\ Copied(App_Address, Updata_Program_Address, idx) \/ (faults = 1 /\ BackedUp)
  BY DEF Install, Program_Updata, Copy, RollInv, Flagged, Updating, BackupSound, InstallSound, TypeOK
<1>2. App_Address # Backdata_Program_Address /\ Updata_Program_Address # App_Address
  BY Geometry DEF App_Address, Backdata_Program_Address, Updata_Program_Address
<1>3. /\ UNCHANGED <<flag, sr, current>>
      /\ \A b \in Address : b \notin App_Address .. App_Address + CopyBlocks - 1 =>
             flash'[b] = flash[b]
      /\ \/ pc' = "install" /\ idx' = idx + 1
         \/ pc' = "verify" /\ idx' = 0 /\ idx + 1 = CopyBlocks
      /\ \A i \in 0 .. CopyBlocks - 1 : ~(i < idx + 1) => flash'[App_Address + i] = Erased
      /\ \/ faults = 0 /\ faults' = 1
         \/ /\ faults' = faults
            /\ Copied(App_Address, Updata_Program_Address, idx) =>
                 \A i \in 0 .. CopyBlocks - 1 : i < idx + 1 =>
                   flash'[App_Address + i] = flash'[Updata_Program_Address + i]
  BY <1>1, <1>2, CopyStep DEF Install
<1>4. \A b \in Address : b \notin Sector(App_Address) \cup Sector(App_Address + SectorBlocks) =>
        flash'[b] = flash[b]
  BY <1>3, WithinArea
<1>5. /\ \A i \in 0 .. ImageBlocks - 1 :
           flash'[Updata_Program_Address + i] = flash[Updata_Program_Address + i]
      /\ \A i \in 0 .. ImageBlocks - 1 :
           flash'[Backdata_Program_Address + i] = flash[Backdata_Program_Address + i]
  BY <1>2, <1>4, AreaKept
<1>6. Flagged'
  BY <1>1, <1>3, <1>5, FlaggedKept DEF Updating
<1>7. BackedUp => BackedUp'
  BY <1>3, <1>5 DEF BackedUp, Holds, Backdata_Program_Address, Block
<1>8. /\ faults' = 1 \/ BackedUp'
      /\ \/ faults' = 1 /\ BackedUp'
         \/ \A i \in 0 .. CopyBlocks - 1 : i < idx + 1 =>
              flash'[App_Address + i] = flash'[Updata_Program_Address + i]
  BY <1>1, <1>3, <1>7
<1>9. InstallSound'
  <2>1. CASE pc' = "install" /\ idx' = idx + 1
    <3>1. Blank(App_Address, idx)'
      BY <1>3, <2>1 DEF Blank, App_Address
    <3>2. Copied(App_Address, Updata_Program_Address, idx)' \/ (faults' = 1 /\ BackedUp')
      BY <1>8, <2>1 DEF Copied, App_Address, Updata_Program_Address
    <3> QED BY <2>1, <3>1, <3>2 DEF InstallSound
  <2>2. CASE pc' = "verify" /\ idx + 1 = CopyBlocks
    <3>1. \A i \in 0 .. CopyBlocks - 1 : i < idx + 1
      BY <2>2, Geometry
    <3>2. Check_Program' \/ (faults' = 1 /\ BackedUp')
      BY <1>8, <3>1 DEF Check_Program, App_Address, Updata_Program_Address
    <3> QED BY <2>2, <3>2 DEF InstallSound
  <2> QED BY <1>3, <2>1, <2>2
<1>10. BackupSound' /\ Runnable' /\ HalfErased' /\ ReloadSound'
  BY <1>3, <1>8 DEF BackupSound, Runnable, HalfErased, ReloadSound, FailSteps
<1> QED BY <1>1, <1>3, <1>6, <1>9, <1>10 DEF RollInv

\* The check decides between the two sides; both have what they need.
LEMMA DecisionRoll ==
  ASSUME OneSilentFault, RollInv, TypeOK', Check_Flag \/ Verify
  PROVE  RollInv'
<1>1. UNCHANGED <<flash, flag, sr, faults, idx, current>>
  BY DEF Check_Flag, Verify
<1>2. BackedUp' <=> BackedUp
  BY <1>1 DEF BackedUp, Holds
<1>3. Holds(App_Address, current)' <=> Holds(App_Address, current)
  BY <1>1 DEF Holds
<1>4. \A v : Holds(Updata_Program_Address, v)' <=> Holds(Updata_Program_Address, v)
  BY <1>1 DEF Holds
<1>5. Check_Program' <=> Check_Program
  BY <1>1 DEF Check_Program
<1>6. CASE Check_Flag
  <2>1. /\ pc = "check_flag" /\ pc' \in {"erase_back", "go_to_app"}
        /\ pc' = "erase_back" <=> flag = "set"
    BY <1>6 DEF Check_Flag
  <2>2. idx = 0
    BY <2>1 DEF RollInv, HalfErased
  <2>3. Flagged' /\ Runnable'
    BY <1>1, <1>3, <1>4, <2>1 DEF RollInv, Flagged, Runnable, Updating
  <2>4. HalfErased' /\ BackupSound' /\ InstallSound' /\ ReloadSound'
    BY <1>1, <2>1, <2>2 DEF HalfErased, BackupSound, InstallSound, ReloadSound, FailSteps
  <2> QED BY <1>1, <2>3, <2>4 DEF RollInv
<1>7. CASE Verify
  <2>1. pc = "verify" /\ pc' = IF Check_Program THEN "ok_flag" ELSE "fail_flag"
    BY <1>7 DEF Verify
  <2>2. flag = "set" /\ (Check_Program \/ (faults = 1 /\ BackedUp))
    BY <2>1 DEF RollInv, Flagged, InstallSound, Updating
  <2>3. Flagged' /\ Runnable' /\ HalfErased'
    BY <1>1, <1>4, <2>1, <2>2 DEF RollInv, Flagged, Runnable, HalfErased, Updating
  <2>4. BackupSound' /\ InstallSound' /\ ReloadSound'
    BY <1>1, <1>2, <1>5, <2>1, <2>2 DEF BackupSound, InstallSound, ReloadSound, FailSteps
  <2> QED BY <1>1, <2>3, <2>4 DEF RollInv
<1> QED BY <1>6, <1>7

LEMMA FailFlagRoll ==
  ASSUME OneSilentFault, RollInv, TypeOK', FailClearFlag
  PROVE  RollInv'
<1>1. pc = "fail_flag" /\ TypeOK /\ sr = "ok" /\ faults = 1 /\ BackedUp
  BY DEF FailClearFlag, RollInv, ReloadSound, FailSteps
<1>2. flag' = "clear" /\ pc' = "fail_erase_app" /\ UNCHANGED <<flash, sr, faults, idx, current>>
  BY <1>1, UnfailingReset DEF FailClearFlag
<1>3. BackedUp'
  BY <1>1, <1>2 DEF BackedUp, Holds
<1>4. idx = 0
  BY <1>1 DEF RollInv, HalfErased
<1> QED BY <1>1, <1>2, <1>3, <1>4
        DEF RollInv, Flagged, Runnable, HalfErased, BackupSound, InstallSound, ReloadSound,
            FailSteps, Updating

\* The reload restores what ran before: the fault is behind it.
LEMMA ReloadRoll ==
  ASSUME OneSilentFault, RollInv, TypeOK', Reload
  PROVE  RollInv'
<1>1. /\ pc = "reload" /\ flag # "set" /\ TypeOK /\ sr = "ok" /\ faults = 1 /\ BackedUp
      /\ Blank(App_Address, idx) /\ Copied(App_Address, Backdata_Program_Address, idx)
      /\ idx \in Nat
  BY DEF Reload, Program_Updata, Copy, RollInv, Flagged, Updating, ReloadSound, FailSteps, TypeOK
<1>2. App_Address # Backdata_Program_Address
  BY Geometry DEF App_Address, Backdata_Program_Address
<1>3. /\ UNCHANGED <<flag, sr, current>>
      /\ \A b \in Address : b \notin App_Address .. App_Address + CopyBlocks - 1 =>
             flash'[b] = flash[b]
      /\ \/ pc' = "reload" /\ idx' = idx + 1
         \/ pc' = "go_to_app" /\ idx' = 0 /\ idx + 1 = CopyBlocks
      /\ \A i \in 0 .. CopyBlocks - 1 : ~(i < idx + 1) => flash'[App_Address + i] = Erased
      /\ faults' = 1
      /\ \A i \in 0 .. CopyBlocks - 1 : i < idx + 1 =>
           flash'[App_Address + i] = flash'[Backdata_Program_Address + i]
  BY <1>1, <1>2, CopyStep DEF Reload
<1>4. \A b \in Address : b \notin Sector(App_Address) \cup Sector(App_Address + SectorBlocks) =>
        flash'[b] = flash[b]
  BY <1>3, WithinArea
<1>5. \A i \in 0 .. ImageBlocks - 1 :
        flash'[Backdata_Program_Address + i] = flash[Backdata_Program_Address + i]
  BY <1>2, <1>4, AreaKept
<1>6. BackedUp'
  BY <1>1, <1>3, <1>5 DEF BackedUp, Holds, Backdata_Program_Address, Block
<1>7. Runnable'
  <2>1. CASE pc' = "reload"
    BY <2>1 DEF Runnable
  <2>2. CASE pc' = "go_to_app" /\ idx + 1 = CopyBlocks
    <3>1. \A i \in 0 .. CopyBlocks - 1 : i < idx + 1
      BY <2>2, Geometry
    <3>2. \A i \in 0 .. CopyBlocks - 1 :
            flash'[App_Address + i] = flash'[Backdata_Program_Address + i]
      BY <1>3, <3>1
    <3>3. \A i \in 0 .. ImageBlocks - 1 : i \in 0 .. CopyBlocks - 1
      BY Geometry DEF OneSilentFault
    <3>4. Holds(App_Address, current)'
      BY <1>6, <3>2, <3>3 DEF BackedUp, Holds, App_Address, Backdata_Program_Address, Block
    <3> QED BY <2>2, <3>4 DEF Runnable
  <2> QED BY <1>3, <2>1, <2>2
<1>8. ReloadSound'
  <2>1. CASE pc' = "reload" /\ idx' = idx + 1
    BY <1>3, <1>6, <2>1 DEF ReloadSound, Blank, Copied, App_Address, Backdata_Program_Address
  <2>2. CASE pc' = "go_to_app"
    BY <2>2 DEF ReloadSound, FailSteps
  <2> QED BY <1>3, <2>1, <2>2
<1>9. Flagged' /\ HalfErased' /\ BackupSound' /\ InstallSound'
  BY <1>1, <1>3 DEF Flagged, HalfErased, BackupSound, InstallSound, Updating
<1> QED BY <1>1, <1>3, <1>7, <1>8, <1>9 DEF RollInv

\* Clearing the flag commits an image that passed the check.
LEMMA CommitRoll ==
  ASSUME OneSilentFault, RollInv, TypeOK', OkClearFlag
  PROVE  RollInv'
<1>1. /\ pc = "ok_flag" /\ TypeOK /\ sr = "ok" /\ Check_Program /\ RecordInstall
      /\ \E v \in Images : Holds(Updata_Program_Address, v)
  BY DEF OkClearFlag, RollInv, InstallSound, Flagged, Updating
<1>2. flag' = "clear" /\ pc' = "ok_erase_updata" /\ UNCHANGED <<flash, sr, faults, idx>>
  BY <1>1, UnfailingReset DEF OkClearFlag
<1>3. /\ current' = ImageAt(Updata_Program_Address) /\ current' \in Images
      /\ Holds(Updata_Program_Address, ImageAt(Updata_Program_Address))
  BY <1>1, <1>2, ImageAtHolds DEF RecordInstall
<1>4. Holds(App_Address, ImageAt(Updata_Program_Address))
  BY <1>1, <1>3, CopyHolds DEF Check_Program, OneSilentFault
<1>5. \A i \in 0 .. ImageBlocks - 1 : flash'[App_Address + i] = Block(current', i)
  BY <1>2, <1>3, <1>4 DEF Holds
<1>6. Holds(App_Address, current)'
  BY <1>5 DEF Holds, App_Address, Block
<1>7. idx = 0
  BY <1>1 DEF RollInv, HalfErased
<1> QED BY <1>1, <1>2, <1>3, <1>6, <1>7
        DEF RollInv, Flagged, Runnable, HalfErased, BackupSound, InstallSound, ReloadSound,
            FailSteps, Updating

LEMMA EraseUpdataRoll ==
  ASSUME OneSilentFault, RollInv, TypeOK', EraseUpdata
  PROVE  RollInv'
<1>1. /\ pc = "ok_erase_updata" /\ flag # "set" /\ TypeOK /\ sr = "ok"
      /\ Holds(App_Address, current)
  BY DEF EraseUpdata, EraseArea, RollInv, Flagged, Runnable, Updating
<1>2. idx # 0 => \A a \in Sector(Updata_Program_Address) : flash[a] = Erased
  BY <1>1 DEF RollInv, HalfErased, Updata_Program_SECTOR_1
<1>3. /\ UNCHANGED <<flag, sr, faults, current>>
      /\ \A b \in Address : b \notin Sector(Updata_Program_Address)
                                     \cup Sector(Updata_Program_Address + SectorBlocks) =>
           flash'[b] = flash[b]
      /\ \/ pc' = "ok_erase_updata" /\ \A a \in Sector(Updata_Program_Address) : flash'[a] = Erased
         \/ pc' = "go_to_app" /\ idx' = 0
  BY <1>1, <1>2, EraseStep DEF EraseUpdata
<1>4. App_Address # Updata_Program_Address
  BY Geometry DEF App_Address, Updata_Program_Address
<1>5. \A i \in 0 .. ImageBlocks - 1 : flash'[App_Address + i] = flash[App_Address + i]
  BY <1>3, <1>4, AreaKept
<1>6. Holds(App_Address, current)'
  BY <1>1, <1>3, <1>5 DEF Holds, App_Address, Block
<1>7. HalfErased'
  BY <1>3 DEF HalfErased, Updata_Program_SECTOR_1, Sector, Updata_Program_Address
<1> QED BY <1>1, <1>3, <1>6, <1>7
        DEF RollInv, Flagged, Runnable, BackupSound, InstallSound, ReloadSound, FailSteps, Updating

LEMMA GoRoll ==
  ASSUME OneSilentFault, RollInv, TypeOK', Go_to_App
  PROVE  RollInv'
<1>1. /\ pc = "go_to_app" /\ Holds(App_Address, current) /\ current \in Images /\ flag # "set"
      /\ UNCHANGED <<flash, flag, sr, faults, idx, current>>
  BY DEF Go_to_App, RollInv, Runnable, Flagged, Updating
<1>2. flash[App_Address] = Block(current, 0)
  BY <1>1, Geometry DEF Holds, App_Address
<1>3. pc' = "app"
  BY <1>1, <1>2, FlashAssumption DEF Go_to_App
<1>4. Holds(App_Address, current)'
  BY <1>1 DEF Holds
<1> QED BY <1>1, <1>3, <1>4
        DEF RollInv, Flagged, Runnable, HalfErased, BackupSound, InstallSound, ReloadSound,
            FailSteps, Updating

LEMMA AppStagesRoll ==
  ASSUME OneSilentFault, RollInv, TypeOK', NEW v \in Images, NEW n \in 0 .. ImageBlocks,
         AppStages(v, n)
  PROVE  RollInv'
<1>1. /\ pc = "app" /\ Holds(App_Address, current) /\ current \in Images /\ current' = current
      /\ sr' = "ok" /\ flag # "set"
  BY DEF AppStages, Restart, RollInv, Runnable, Flagged, Updating
<1>2. \A a \in Address : a \notin Updata_Program_SECTOR_1 \cup Updata_Program_SECTOR_2 =>
        flash'[a] = flash[a]
  BY DEF AppStages
<1>3. \A i \in 0 .. ImageBlocks - 1 : flash'[App_Address + i] = flash[App_Address + i]
  BY <1>2, Geometry DEF Updata_Program_SECTOR_1, Updata_Program_SECTOR_2, Sector,
                        Updata_Program_Address, App_Address, Address
<1>4. Holds(App_Address, current)'
  BY <1>1, <1>3 DEF Holds, App_Address, Block
<1>5. CASE n = ImageBlocks
  <2>1. flag' = "set" /\ pc' = "check_flag" /\ idx' = 0
    BY <1>5 DEF AppStages, Restart
  <2>2. \A i \in 0 .. ImageBlocks - 1 : flash'[Updata_Program_Address + i] = Block(v, i)
    BY <1>5, StagedWhole
  <2>3. Holds(Updata_Program_Address, v)'
    BY <2>2 DEF Holds, Updata_Program_Address, Block
  <2> QED BY <1>1, <1>4, <2>1, <2>3
          DEF RollInv, Flagged, Runnable, HalfErased, BackupSound, InstallSound, ReloadSound,
              FailSteps, Updating
<1>6. CASE n # ImageBlocks
  <2>1. flag' = "clear" /\ pc' = "app"
    BY <1>1, <1>6 DEF AppStages
  <2> QED BY <1>1, <1>4, <2>1
          DEF RollInv, Flagged, Runnable, HalfErased, BackupSound, InstallSound, ReloadSound,
              FailSteps, Updating
<1> QED BY <1>5, <1>6

LEMMA InitRoll == Init => RollInv
<1> SUFFICES ASSUME Init PROVE RollInv
  OBVIOUS
<1>1. TypeOK /\ current \in Images /\ sr = "ok" /\ flag = "clear" /\ pc = "check_flag" /\ idx = 0
  BY InitType DEF Init
<1>2. Holds(App_Address, current)
  <2>1. \A i \in 0 .. ImageBlocks - 1 :
          App_Address + i \in Address /\ App_Address + i = i /\ i < ImageBlocks
    BY Geometry DEF App_Address, Address
  <2> QED BY <2>1 DEF Init, Holds
<1> QED BY <1>1, <1>2
        DEF RollInv, Flagged, Runnable, HalfErased, BackupSound, InstallSound, ReloadSound,
            FailSteps, Updating

LEMMA NextRoll ==
  ASSUME OneSilentFault, RollInv, [Next]_vars
  PROVE  RollInv'
<1>1. TypeOK'
  BY TypeStep DEF RollInv
<1>2. CASE Main
  BY <1>1, <1>2, DecisionRoll, EraseBackRoll, BackupRoll, EraseAppRoll, InstallRoll, FailFlagRoll,
     ReloadRoll, CommitRoll, EraseUpdataRoll, GoRoll DEF Main
<1>3. CASE PowerLoss \/ AppResets
  BY <1>3 DEF PowerLoss, AppResets, RollInv, OneSilentFault
<1>4. CASE \E v \in Images, n \in 0 .. ImageBlocks : AppStages(v, n)
  BY <1>1, <1>4, AppStagesRoll
<1>5. CASE UNCHANGED vars
  BY <1>1, <1>5 DEF vars, RollInv, Flagged, Runnable, HalfErased, BackupSound, InstallSound,
     ReloadSound, FailSteps, Updating, BackedUp, Holds, Blank, Copied, Check_Program
<1> QED BY <1>2, <1>3, <1>4, <1>5 DEF Next, Environment

LEMMA RollSafe == RollInv => RollbackHasBackup /\ RunsInstalledImage
BY DEF RollInv, ReloadSound, FailSteps, BackedUp, RollbackHasBackup, Runnable, RunsInstalledImage

(***************************************************************************)
(* When the check of an install fails there is something to fall back on:  *)
(* one write that went wrong unnoticed has not spoilt the backup too.      *)
(***************************************************************************)
THEOREM RollbackIsPossible ==
  ASSUME OneSilentFault
  PROVE  Spec => []RollbackHasBackup
<1>1. Init => RollInv
  BY InitRoll
<1>2. RollInv /\ [Next]_vars => RollInv'
  BY NextRoll
<1>3. RollInv => RollbackHasBackup
  BY RollSafe
<1> QED BY <1>1, <1>2, <1>3, PTL DEF Spec

(***************************************************************************)
(* What runs is the image of the last committed update or, after a bad     *)
(* install, the one before: whichever write it is that goes wrong.         *)
(***************************************************************************)
THEOREM RollbackRuns ==
  ASSUME OneSilentFault
  PROVE  Spec => []RunsInstalledImage
<1>1. Init => RollInv
  BY InitRoll
<1>2. RollInv /\ [Next]_vars => RollInv'
  BY NextRoll
<1>3. RollInv => RunsInstalledImage
  BY RollSafe
<1> QED BY <1>1, <1>2, <1>3, PTL DEF Spec
-----------------------------------------------------------------------------
(***************************************************************************)
(* The check stands between any failure and the commit: however many       *)
(* writes fail, noticed or not, and wherever the power fails, the flag of  *)
(* a whole staged image is cleared for a whole copy of it.                 *)
(***************************************************************************)
THEOREM CommitsAreWhole ==
  ASSUME ImageBlocks <= CopyBlocks
  PROVE  Spec => []CommitsWholeImage
<1> DEFINE Checked == pc = "ok_flag" => Check_Program
<1>1. Init => Checked
  BY DEF Init
<1>2. Checked /\ [Next]_vars => Checked'
  <2> SUFFICES ASSUME Checked, [Next]_vars, pc' = "ok_flag"
               PROVE  Check_Program'
    OBVIOUS
  <2>1. CASE Verify
    BY <2>1 DEF Verify, Check_Program
  <2>2. CASE UNCHANGED vars
    BY <2>2 DEF vars, Check_Program
  <2>3. CASE Main /\ ~Verify
    BY <2>3 DEF Main, Check_Flag, EraseBackApp, Backup, EraseApp, Install, FailClearFlag, FailEraseApp,
                Reload, OkClearFlag, EraseUpdata, Go_to_App, EraseArea, Program_Updata, Copy
  <2>4. CASE Environment
    BY <2>4 DEF Environment, PowerLoss, AppResets, AppStages, Restart
  <2> QED BY <2>1, <2>2, <2>3, <2>4 DEF Next
<1>3. Checked => CommitsWholeImage
  <2> SUFFICES ASSUME Check_Program, ImageAt(Updata_Program_Address) # NoImage
               PROVE  Holds(App_Address, ImageAt(Updata_Program_Address))
    BY DEF CommitsWholeImage
  <2>1. Holds(Updata_Program_Address, ImageAt(Updata_Program_Address))
    BY ImageAtHolds DEF ImageAt
  <2> QED BY <2>1, CopyHolds DEF Check_Program
<1> QED BY <1>1, <1>2, <1>3, PTL DEF Spec
=============================================================================
