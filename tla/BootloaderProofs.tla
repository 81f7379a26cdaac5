-------------------------- MODULE BootloaderProofs --------------------------
(***************************************************************************)
(* Theorems about Bootloader, for every geometry of the flash and every    *)
(* set of images.                                                          *)
(***************************************************************************)
EXTENDS Bootloader, FlashProofs

-----------------------------------------------------------------------------
(***************************************************************************)
(* Type correctness, with faults of every kind.                            *)
(***************************************************************************)

\* What an area is said to hold is an image or nothing.
LEMMA ImageAtType == \A base : ImageAt(base) \in Images \cup {NoImage}
BY DEF ImageAt

\* A block of a copy is read and written inside the flash.
LEMMA CopyAddress ==
  ASSUME TypeOK, NEW base \in {App_Address, Updata_Program_Address, Backdata_Program_Address}
  PROVE  base + idx \in Address /\ flash[base + idx] \in Content
<1>1. idx \in 0 .. CopyBlocks - 1
  BY DEF TypeOK
<1>2. base + idx \in Address
  BY <1>1, Geometry DEF App_Address, Updata_Program_Address, Backdata_Program_Address, Address
<1> QED BY <1>2 DEF TypeOK, FlashTypeOK

LEMMA EraseAreaType ==
  ASSUME TypeOK, NEW here \in PC, NEW base, NEW next \in PC, EraseArea(here, base, next)
  PROVE  TypeOK'
<1>1. FlashTypeOK'
  BY EraseType DEF TypeOK, EraseArea
<1>2. idx' \in 0 .. CopyBlocks - 1 /\ pc' \in PC
  BY Geometry DEF EraseArea
<1> QED BY <1>1, <1>2 DEF TypeOK, EraseArea

LEMMA CopyType ==
  ASSUME TypeOK, NEW here \in PC, NEW next \in PC,
         NEW dst \in {App_Address, Backdata_Program_Address},
         NEW src \in {App_Address, Updata_Program_Address, Backdata_Program_Address},
         Program_Updata(here, dst, src, next)
  PROVE  TypeOK'
<1>1. dst + idx \in Address /\ flash[src + idx] \in Content
  BY CopyAddress
<1>2. FLASH_ProgramByte(dst + idx, flash[src + idx])
  BY DEF Program_Updata, Copy
<1>3. FlashTypeOK'
  BY <1>1, <1>2, ProgramType DEF TypeOK
<1>4. idx' \in 0 .. CopyBlocks - 1 /\ pc' \in PC
  BY Geometry DEF Program_Updata, Copy, TypeOK
<1> QED BY <1>3, <1>4 DEF TypeOK, Program_Updata, Copy

\* A power loss leaves the flash, torn or not, in its type.
LEMMA PowerLossType ==
  ASSUME TypeOK, PowerLoss
  PROVE  TypeOK'
<1>1. flash' \in [Address -> Content] /\ flag' \in {"clear", "set"}
  <2>1. CASE UNCHANGED <<flash, flag>>
    BY <2>1 DEF TypeOK, FlashTypeOK
  <2>2. CASE TornStep
    <3>1. /\ App_Address + idx \in Address
          /\ Backdata_Program_Address + idx \in Address
      BY CopyAddress
    <3> QED BY <2>2, <3>1, TornType DEF TypeOK, TornStep, TornCopy
  <2> QED BY <2>1, <2>2 DEF PowerLoss
<1>2. current' \in Images \cup {NoImage}
  BY ImageAtType DEF PowerLoss, RecordInstall, TypeOK
<1>3. /\ sr' = "ok" /\ idx' = 0 /\ pc' = "check_flag" /\ faults' \in 0 .. MaxFaults
  BY DEF PowerLoss, Restart, TypeOK, FlashTypeOK
<1> QED BY <1>1, <1>2, <1>3, Geometry DEF TypeOK, FlashTypeOK, PC

\* The application stages blocks of an image and erases the rest.
LEMMA AppStagesType ==
  ASSUME TypeOK, NEW v \in Images, NEW n \in 0 .. ImageBlocks, AppStages(v, n)
  PROVE  TypeOK'
<1>1. ASSUME NEW a \in Address, a - Updata_Program_Address < n,
             a \in Updata_Program_SECTOR_1 \cup Updata_Program_SECTOR_2
      PROVE  Block(v, a - Updata_Program_Address) \in Content
  <2>1. a - Updata_Program_Address \in 0 .. ImageBlocks - 1
    BY <1>1, Geometry DEF Updata_Program_SECTOR_1, Updata_Program_SECTOR_2, Sector,
                          Updata_Program_Address, Address
  <2> QED BY <2>1 DEF Content, ImageData
<1>2. flash' \in [Address -> Content]
  BY <1>1 DEF AppStages, TypeOK, FlashTypeOK, Content
<1>3. FlashTypeOK'
  BY <1>2 DEF AppStages, Restart, TypeOK, FlashTypeOK
<1>4. idx' \in 0 .. CopyBlocks - 1 /\ pc' \in PC /\ current' = current
  BY Geometry DEF AppStages, Restart, TypeOK, PC
<1> QED BY <1>3, <1>4 DEF TypeOK

LEMMA MainType ==
  ASSUME TypeOK, Main
  PROVE  TypeOK'
<1>1. CASE Check_Flag \/ Verify \/ Go_to_App
  BY <1>1 DEF Check_Flag, Verify, Go_to_App, TypeOK, FlashTypeOK, PC
<1>2. CASE EraseBackApp \/ EraseApp \/ FailEraseApp \/ EraseUpdata
  BY <1>2, EraseAreaType DEF EraseBackApp, EraseApp, FailEraseApp, EraseUpdata, PC
<1>3. CASE Backup \/ Install \/ Reload
  BY <1>3, CopyType DEF Backup, Install, Reload, PC
<1>4. CASE FailClearFlag \/ OkClearFlag
  <2>1. FlashTypeOK'
    BY <1>4, ResetFlagType DEF FailClearFlag, OkClearFlag, TypeOK
  <2> QED BY <1>4, <2>1, ImageAtType DEF FailClearFlag, OkClearFlag, RecordInstall, TypeOK, PC
<1> QED BY <1>1, <1>2, <1>3, <1>4 DEF Main

LEMMA TypeStep ==
  ASSUME TypeOK, [Next]_vars
  PROVE  TypeOK'
<1>1. CASE Main
  BY <1>1, MainType
<1>2. CASE PowerLoss
  BY <1>2, PowerLossType
<1>3. CASE AppResets
  BY <1>3, Geometry DEF AppResets, Restart, TypeOK, FlashTypeOK, PC
<1>4. ASSUME NEW v \in Images, NEW n \in 0 .. ImageBlocks, AppStages(v, n)
      PROVE  TypeOK'
  BY <1>4, AppStagesType
<1>5. CASE UNCHANGED vars
  BY <1>5 DEF vars, TypeOK, FlashTypeOK
<1> QED BY <1>1, <1>2, <1>3, <1>4, <1>5 DEF Next, Environment

LEMMA InitType == Init => TypeOK
<1> SUFFICES ASSUME Init PROVE TypeOK
  OBVIOUS
<1>1. \A a \in Address : a < ImageBlocks => Block(current, a) \in Content
  BY Geometry DEF Init, Address, Content, ImageData
<1>2. flash \in [Address -> Content]
  BY <1>1 DEF Init, Content
<1> QED BY <1>2, Geometry, FlashAssumption DEF Init, TypeOK, FlashTypeOK, PC

(***************************************************************************)
(* Whatever fails, flash, flag, program counter and loop index keep their  *)
(* types: in particular main() never reads or writes beside the areas.     *)
(***************************************************************************)
THEOREM TypeCorrect == Spec => []TypeOK
<1>1. Init => TypeOK
  BY InitType
<1>2. TypeOK /\ [Next]_vars => TypeOK'
  BY TypeStep
<1> QED BY <1>1, <1>2, PTL DEF Spec

-----------------------------------------------------------------------------
(***************************************************************************)
(* Safety under power loss alone: no write fails, and an image fits the    *)
(* blocks that are copied.                                                 *)
(***************************************************************************)
PowerOnly == FaultKinds = {} /\ ImageBlocks <= CopyBlocks

\* The lemmas about a step ask no more than that nothing fails in it.
SoundStep == NoFault /\ ImageBlocks <= CopyBlocks

\* What the flash operations do when no write fails.
LEMMA ProgramEffect ==
  ASSUME SoundStep, TypeOK, sr = "ok", NEW a \in Address, NEW d, FLASH_ProgramByte(a, d)
  PROVE  /\ \A b \in Address \ {a} : flash'[b] = flash[b]
         /\ flash[a] = Erased => flash'[a] = d
         /\ UNCHANGED <<flag, sr>>
BY SoundProgram DEF SoundStep, TypeOK

LEMMA EraseEffect ==
  ASSUME SoundStep, sr = "ok", NEW sector, FLASH_EraseSector(sector)
  PROVE  /\ \A b \in Address : flash'[b] = IF b \in sector THEN Erased ELSE flash[b]
         /\ UNCHANGED <<flag, sr>>
BY SoundErase DEF SoundStep

LEMMA ResetFlagEffect ==
  ASSUME SoundStep, sr = "ok", Reset_Updata_Flag
  PROVE  flag' = "clear" /\ UNCHANGED <<flash, sr>>
BY SoundReset DEF SoundStep

\* ImageAt names the image of an area that holds one.
LEMMA ImageAtHolds ==
  ASSUME NEW base, \E v \in Images : Holds(base, v)
  PROVE  ImageAt(base) \in Images /\ Holds(base, ImageAt(base))
BY DEF ImageAt

\* An area that holds an image holds no other.
LEMMA HoldsOne ==
  ASSUME NEW base, NEW v \in Images, NEW w \in Images, Holds(base, v), Holds(base, w)
  PROVE  v = w
BY Geometry DEF Holds, Block

\* A step that leaves the blocks of an area alone leaves its image there.
LEMMA Untouched ==
  ASSUME NEW base, NEW v, Holds(base, v),
         \A i \in 0 .. ImageBlocks - 1 : flash'[base + i] = flash[base + i]
  PROVE  Holds(base, v)'
BY DEF Holds, App_Address, Updata_Program_Address, Backdata_Program_Address

\* An application area that passed the check holds the staged image.
LEMMA CheckedWhole ==
  ASSUME ImageBlocks <= CopyBlocks, Check_Program, NEW v, Holds(Updata_Program_Address, v)
  PROVE  Holds(App_Address, v)
<1>1. \A i \in 0 .. ImageBlocks - 1 : i \in 0 .. CopyBlocks - 1
  BY Geometry
<1> QED BY <1>1 DEF Check_Program, Holds

\* A step that stays in an update, or before one, and keeps the staged image
\* and the flag keeps the part of the invariant about them.
LEMMA StillStaged ==
  ASSUME BootInv, TypeOK', flag = "set", flag' = "set", sr' = "ok", current' = current,
         \A i \in 0 .. ImageBlocks - 1 :
           flash'[Updata_Program_Address + i] = flash[Updata_Program_Address + i],
         pc' \in Updating \cup {"check_flag"}, Rewritten'
  PROVE  BootInv'
<1>1. PICK v \in Images : Holds(Updata_Program_Address, v)
  BY DEF BootInv, FlaggedWhole
<1>2. Holds(Updata_Program_Address, v)'
  BY <1>1, Untouched
<1>3. Phase' /\ FlaggedWhole'
  BY <1>2 DEF Phase, FlaggedWhole, Updating, Committed
<1> QED BY <1>3 DEF BootInv

\* The same after the commit, for the installed image.
LEMMA StillInstalled ==
  ASSUME BootInv, TypeOK', flag = "clear", flag' = "clear", sr' = "ok", current' = current,
         \A i \in 0 .. ImageBlocks - 1 :
           flash'[App_Address + i] = flash[App_Address + i],
         pc' \in Committed \cup {"check_flag"}
  PROVE  BootInv'
<1>1. Holds(App_Address, current)
  BY DEF BootInv, FlaggedWhole
<1>2. Holds(App_Address, current)'
  BY <1>1, Untouched DEF Holds
<1>3. Phase' /\ FlaggedWhole' /\ Rewritten'
  BY <1>2 DEF Phase, FlaggedWhole, Rewritten, Updating, Committed
<1> QED BY <1>3 DEF BootInv

\* The steps that prepare the install leave the staged image alone.
LEMMA StagedKept ==
  ASSUME SoundStep, BootInv, EraseBackApp \/ Backup \/ EraseApp \/ Install
  PROVE  /\ flag = "set" /\ UNCHANGED <<flag, sr, current>>
         /\ \A i \in 0 .. ImageBlocks - 1 :
              flash'[Updata_Program_Address + i] = flash[Updata_Program_Address + i]
<1>1. flag = "set" /\ sr = "ok" /\ TypeOK /\ current' = current
  BY DEF EraseBackApp, Backup, EraseApp, Install, EraseArea, Program_Updata, Copy,
         BootInv, Phase, Updating
<1>2. ASSUME NEW base \in {App_Address, Backdata_Program_Address},
             FLASH_EraseSector(SectorUnderErase(base))
      PROVE  /\ UNCHANGED <<flag, sr>>
             /\ \A i \in 0 .. ImageBlocks - 1 :
                  flash'[Updata_Program_Address + i] = flash[Updata_Program_Address + i]
  <2>1. /\ \A b \in Address : flash'[b] = IF b \in SectorUnderErase(base) THEN Erased ELSE flash[b]
        /\ UNCHANGED <<flag, sr>>
    BY <1>1, <1>2, EraseEffect
  <2> QED BY <2>1, Geometry DEF SectorUnderErase, Sector, App_Address, Updata_Program_Address,
                                Backdata_Program_Address, Address
<1>3. ASSUME NEW base \in {App_Address, Backdata_Program_Address}, NEW d,
             FLASH_ProgramByte(base + idx, d)
      PROVE  /\ UNCHANGED <<flag, sr>>
             /\ \A i \in 0 .. ImageBlocks - 1 :
                  flash'[Updata_Program_Address + i] = flash[Updata_Program_Address + i]
  <2>1. base + idx \in Address /\ idx \in 0 .. CopyBlocks - 1
    BY <1>1, CopyAddress DEF TypeOK
  <2>2. /\ \A b \in Address \ {base + idx} : flash'[b] = flash[b]
        /\ UNCHANGED <<flag, sr>>
    BY <1>1, <1>3, <2>1, ProgramEffect
  <2> QED BY <2>1, <2>2, Geometry DEF App_Address, Updata_Program_Address,
                                      Backdata_Program_Address, Address
<1>4. CASE EraseBackApp
  BY <1>1, <1>2, <1>4 DEF EraseBackApp, EraseArea
<1>5. CASE EraseApp
  BY <1>1, <1>2, <1>5 DEF EraseApp, EraseArea
<1>6. CASE Backup
  BY <1>1, <1>3, <1>6 DEF Backup, Program_Updata, Copy
<1>7. CASE Install
  BY <1>1, <1>3, <1>7 DEF Install, Program_Updata, Copy
<1> QED BY <1>4, <1>5, <1>6, <1>7

LEMMA EraseBackAppInv ==
  ASSUME SoundStep, BootInv, TypeOK', EraseBackApp
  PROVE  BootInv'
<1>1. pc' \in {"erase_back", "backup"}
  BY DEF EraseBackApp, EraseArea
<1>2. Rewritten'
  BY <1>1 DEF Rewritten
<1> QED BY <1>1, <1>2, StagedKept, StillStaged DEF BootInv, Updating

LEMMA BackupInv ==
  ASSUME SoundStep, BootInv, TypeOK', Backup
  PROVE  BootInv'
<1>1. pc' \in {"backup", "erase_app"} /\ (pc' = "erase_app" => idx' = 0)
  BY DEF Backup, Program_Updata, Copy
<1>2. Rewritten'
  BY <1>1 DEF Rewritten
<1> QED BY <1>1, <1>2, StagedKept, StillStaged DEF BootInv, Updating

LEMMA EraseAppInv ==
  ASSUME SoundStep, BootInv, TypeOK', EraseApp
  PROVE  BootInv'
<1>1. pc = "erase_app" /\ flag = "set" /\ sr = "ok" /\ TypeOK
  BY DEF EraseApp, EraseArea, BootInv, Phase, Updating
<1>2. /\ \A b \in Address : flash'[b] = IF b \in SectorUnderErase(App_Address)
                                       THEN Erased ELSE flash[b]
      /\ UNCHANGED <<flag, sr>>
  BY <1>1, EraseEffect DEF EraseApp, EraseArea
<1>3. \A i \in 0 .. ImageBlocks - 1 :
        flash'[Updata_Program_Address + i] = flash[Updata_Program_Address + i]
  BY <1>2, Geometry DEF SectorUnderErase, Sector, Updata_Program_Address, App_Address, Address
<1>4. pc' \in {"erase_app", "install"} /\ current' = current
  BY DEF EraseApp, EraseArea
<1>5. Rewritten'
  <2>1. CASE idx = 0
    <3>1. pc' = "erase_app" /\ idx' = 1
      BY <2>1 DEF EraseApp, EraseArea
    <3>2. \A a \in App_SECTOR_1 : a \in Address /\ a \in SectorUnderErase(App_Address)
      BY <2>1, Geometry DEF App_SECTOR_1, SectorUnderErase, Sector, App_Address, Address
    <3> QED BY <1>2, <3>1, <3>2 DEF Rewritten
  <2>2. CASE idx # 0
    <3>1. pc' = "install" /\ idx' = 0
      BY <2>2 DEF EraseApp, EraseArea
    <3>2. \A a \in App_SECTOR_1 : flash[a] = Erased
      BY <1>1, <2>2 DEF BootInv, Rewritten
    <3>3. ASSUME NEW i \in 0 .. CopyBlocks - 1
          PROVE  flash'[App_Address + i] = Erased
      <4>1. /\ App_Address + i \in Address
            /\ App_Address + i \in App_SECTOR_1 \cup SectorUnderErase(App_Address)
        BY <2>2, Geometry DEF App_SECTOR_1, SectorUnderErase, Sector, App_Address, Address
      <4> QED BY <1>2, <3>2, <4>1
    <3>4. \A i \in 0 .. CopyBlocks - 1 : ~(i < 0)
      BY Geometry
    <3> QED BY <3>1, <3>3, <3>4 DEF Rewritten, App_Address
  <2> QED BY <2>1, <2>2
<1> QED BY <1>1, <1>2, <1>3, <1>4, <1>5, StillStaged DEF Updating

LEMMA InstallInv ==
  ASSUME SoundStep, BootInv, TypeOK', Install
  PROVE  BootInv'
<1>1. pc = "install" /\ flag = "set" /\ sr = "ok" /\ TypeOK
  BY DEF Install, Program_Updata, Copy, BootInv, Phase, Updating
<1>2. App_Address + idx \in Address /\ idx \in 0 .. CopyBlocks - 1
  BY <1>1, CopyAddress DEF TypeOK
<1>3. \A i \in 0 .. CopyBlocks - 1 :
        flash[App_Address + i] = IF i < idx THEN flash[Updata_Program_Address + i] ELSE Erased
  BY <1>1 DEF BootInv, Rewritten
<1>4. flash[App_Address + idx] = Erased
  BY <1>2, <1>3, Geometry
<1>5. FLASH_ProgramByte(App_Address + idx, flash[Updata_Program_Address + idx])
  BY DEF Install, Program_Updata, Copy
<1>6. /\ \A b \in Address \ {App_Address + idx} : flash'[b] = flash[b]
      /\ flash'[App_Address + idx] = flash[Updata_Program_Address + idx]
      /\ UNCHANGED <<flag, sr>>
  BY <1>1, <1>2, <1>4, <1>5, ProgramEffect
<1>7. \A i \in 0 .. 2 * SectorBlocks - 1 :
        flash'[Updata_Program_Address + i] = flash[Updata_Program_Address + i]
  BY <1>2, <1>6, Geometry DEF Updata_Program_Address, App_Address, Address
<1>8. /\ current' = current
      /\ \/ idx + 1 < CopyBlocks /\ idx' = idx + 1 /\ pc' = "install"
         \/ idx + 1 = CopyBlocks /\ idx' = 0 /\ pc' = "verify"
  BY <1>2, Geometry DEF Install, Program_Updata, Copy
<1>9. \A i \in 0 .. CopyBlocks - 1 :
        flash'[App_Address + i] =
          IF i < idx + 1 THEN flash'[Updata_Program_Address + i] ELSE Erased
  <2> SUFFICES ASSUME NEW i \in 0 .. CopyBlocks - 1
               PROVE  flash'[App_Address + i] =
                        IF i < idx + 1 THEN flash'[Updata_Program_Address + i] ELSE Erased
    OBVIOUS
  <2>1. flash'[Updata_Program_Address + i] = flash[Updata_Program_Address + i]
    BY <1>7, Geometry
  <2>2. CASE i = idx
    BY <1>2, <1>6, <2>1, <2>2
  <2>3. CASE i # idx
    <3>1. flash'[App_Address + i] = flash[App_Address + i]
      BY <1>2, <1>6, <2>3, Geometry DEF App_Address, Address
    <3>2. i < idx + 1 <=> i < idx
      BY <1>2, <2>3
    <3> QED BY <1>3, <2>1, <3>1, <3>2
  <2> QED BY <2>2, <2>3
<1>10. Rewritten'
  <2>1. CASE idx' = idx + 1 /\ pc' = "install"
    BY <1>9, <2>1 DEF Rewritten, App_Address, Updata_Program_Address
  <2>2. CASE idx + 1 = CopyBlocks /\ pc' = "verify"
    <3>1. \A i \in 0 .. CopyBlocks - 1 : i < idx + 1
      BY <2>2, Geometry
    <3> QED BY <1>9, <2>2, <3>1 DEF Rewritten, Check_Program, App_Address, Updata_Program_Address
  <2> QED BY <1>8, <2>1, <2>2
<1>11. \A i \in 0 .. ImageBlocks - 1 :
         flash'[Updata_Program_Address + i] = flash[Updata_Program_Address + i]
  BY <1>7, Geometry
<1> QED BY <1>1, <1>6, <1>8, <1>10, <1>11, StillStaged DEF Updating

\* Deciding steps: they change nothing but the program counter.
LEMMA DecisionInv ==
  ASSUME SoundStep, BootInv, TypeOK', Check_Flag \/ Verify \/ Go_to_App
  PROVE  BootInv'
<1>1. CASE Check_Flag
  <2>1. UNCHANGED <<flash, flag, sr, idx, current>>
    BY <1>1 DEF Check_Flag
  <2>2. CASE flag = "set"
    <3>1. pc' = "erase_back"
      BY <1>1, <2>2 DEF Check_Flag
    <3>2. Rewritten'
      BY <3>1 DEF Rewritten
    <3> QED BY <2>1, <2>2, <3>1, <3>2, StillStaged DEF BootInv, Updating
  <2>3. CASE flag = "clear"
    <3>1. pc' = "go_to_app"
      BY <1>1, <2>3 DEF Check_Flag
    <3> QED BY <2>1, <2>3, <3>1, StillInstalled DEF BootInv, Committed
  <2> QED BY <2>2, <2>3 DEF BootInv, TypeOK, FlashTypeOK
<1>2. CASE Verify
  <2>1. flag = "set" /\ UNCHANGED <<flash, flag, sr, idx, current>> /\ Check_Program
    BY <1>2 DEF Verify, BootInv, Phase, Rewritten, Updating
  <2>2. pc' = "ok_flag"
    BY <1>2, <2>1 DEF Verify
  <2>3. Rewritten'
    BY <2>1, <2>2 DEF Rewritten, Check_Program
  <2> QED BY <2>1, <2>2, <2>3, StillStaged DEF BootInv, Updating
<1>3. CASE Go_to_App
  <2>1. flag = "clear" /\ UNCHANGED <<flash, flag, sr, idx, current>>
    BY <1>3 DEF Go_to_App, BootInv, Phase, Committed
  <2>2. flash[App_Address] \in MspValid
    <3>1. Holds(App_Address, current) /\ current \in Images
      BY <2>1 DEF BootInv, FlaggedWhole
    <3>2. flash[App_Address + 0] = Block(current, 0)
      BY <3>1, Geometry DEF Holds
    <3> QED BY <3>1, <3>2, FlashAssumption DEF App_Address
  <2>3. pc' = "app"
    BY <1>3, <2>2 DEF Go_to_App
  <2> QED BY <2>1, <2>3, StillInstalled DEF BootInv, Committed
<1> QED BY <1>1, <1>2, <1>3

\* What the commit leaves: the flag is clear and the application area holds
\* the image that is current from now on.
LEMMA Commit ==
  ASSUME SoundStep, BootInv, pc = "ok_flag", flag' = "clear", flash' = flash, RecordInstall
  PROVE  current' \in Images /\ current' = ImageAt(Updata_Program_Address)
         /\ Holds(App_Address, current)'
<1>1. Check_Program /\ \E v \in Images : Holds(Updata_Program_Address, v)
  BY DEF BootInv, Phase, FlaggedWhole, Rewritten, Updating
<1>2. /\ ImageAt(Updata_Program_Address) \in Images
      /\ Holds(App_Address, ImageAt(Updata_Program_Address))
  BY <1>1, ImageAtHolds, CheckedWhole DEF SoundStep
<1>3. current' = ImageAt(Updata_Program_Address)
  BY DEF RecordInstall
<1>4. \A i \in 0 .. ImageBlocks - 1 : flash[App_Address + i] = Block(ImageAt(Updata_Program_Address), i)
  BY <1>2 DEF Holds
<1>5. \A i \in 0 .. ImageBlocks - 1 : flash'[App_Address + i] = Block(current', i)
  BY <1>3, <1>4
<1> QED BY <1>2, <1>3, <1>5 DEF Holds, App_Address, Block

LEMMA OkClearFlagInv ==
  ASSUME SoundStep, BootInv, TypeOK', OkClearFlag
  PROVE  BootInv'
<1>1. pc = "ok_flag" /\ sr = "ok" /\ pc' = "ok_erase_updata" /\ RecordInstall
  BY DEF OkClearFlag, BootInv
<1>2. flag' = "clear" /\ UNCHANGED <<flash, sr>>
  BY <1>1, ResetFlagEffect DEF OkClearFlag
<1>3. current' \in Images /\ Holds(App_Address, current)'
  BY <1>1, <1>2, Commit DEF Holds
<1>4. Phase' /\ FlaggedWhole' /\ Rewritten'
  BY <1>1, <1>2, <1>3 DEF Phase, FlaggedWhole, Rewritten, Updating, Committed
<1> QED BY <1>1, <1>2, <1>3, <1>4 DEF BootInv

LEMMA EraseUpdataInv ==
  ASSUME SoundStep, BootInv, TypeOK', EraseUpdata
  PROVE  BootInv'
<1>1. flag = "clear" /\ sr = "ok"
  BY DEF EraseUpdata, EraseArea, BootInv, Phase, Committed
<1>2. /\ \A b \in Address : flash'[b] = IF b \in SectorUnderErase(Updata_Program_Address)
                                       THEN Erased ELSE flash[b]
      /\ UNCHANGED <<flag, sr>>
  BY <1>1, EraseEffect DEF EraseUpdata, EraseArea
<1>3. \A i \in 0 .. ImageBlocks - 1 : flash'[App_Address + i] = flash[App_Address + i]
  BY <1>2, Geometry DEF SectorUnderErase, Sector, Updata_Program_Address, App_Address, Address
<1>4. pc' \in {"ok_erase_updata", "go_to_app"} /\ current' = current
  BY DEF EraseUpdata, EraseArea
<1> QED BY <1>1, <1>2, <1>3, <1>4, StillInstalled DEF Committed

\* Where a torn operation leaves its garbage.
LEMMA TornSpares ==
  ASSUME SoundStep, BootInv, TornStep
  PROVE  /\ \/ flag' = flag
            \/ pc = "ok_flag" /\ flag' = "clear" /\ flash' = flash
         /\ flag = "set" => \A i \in 0 .. ImageBlocks - 1 :
              flash'[Updata_Program_Address + i] = flash[Updata_Program_Address + i]
         /\ flag = "clear" => \A i \in 0 .. ImageBlocks - 1 :
              flash'[App_Address + i] = flash[App_Address + i]
<1>1. /\ TypeOK /\ pc \in Updating \cup Committed \cup {"check_flag"}
      /\ idx \in 0 .. CopyBlocks - 1 /\ flash \in [Address -> Content]
  BY DEF BootInv, Phase, TypeOK, FlashTypeOK
<1>2. CASE pc = "erase_back" /\ TornErase(SectorUnderErase(Backdata_Program_Address))
  <2>1. flag = "set" /\ flag' = flag
    BY <1>2 DEF BootInv, Phase, Updating, TornErase
  <2>2. \A i \in 0 .. ImageBlocks - 1 :
          /\ Updata_Program_Address + i \in Address
          /\ Updata_Program_Address + i \notin SectorUnderErase(Backdata_Program_Address)
    BY Geometry DEF SectorUnderErase, Sector, Updata_Program_Address, Backdata_Program_Address, Address
  <2> QED BY <1>2, <2>1, <2>2 DEF TornErase
<1>3. CASE pc = "erase_app" /\ TornErase(SectorUnderErase(App_Address))
  <2>1. flag = "set" /\ flag' = flag
    BY <1>3 DEF BootInv, Phase, Updating, TornErase
  <2>2. \A i \in 0 .. ImageBlocks - 1 :
          /\ Updata_Program_Address + i \in Address
          /\ Updata_Program_Address + i \notin SectorUnderErase(App_Address)
    BY Geometry DEF SectorUnderErase, Sector, Updata_Program_Address, App_Address, Address
  <2> QED BY <1>3, <2>1, <2>2 DEF TornErase
<1>4. CASE pc = "ok_erase_updata" /\ TornErase(SectorUnderErase(Updata_Program_Address))
  <2>1. flag = "clear" /\ flag' = flag
    BY <1>4 DEF BootInv, Phase, Committed, TornErase
  <2>2. \A i \in 0 .. ImageBlocks - 1 :
          /\ App_Address + i \in Address
          /\ App_Address + i \notin SectorUnderErase(Updata_Program_Address)
    BY Geometry DEF SectorUnderErase, Sector, Updata_Program_Address, App_Address, Address
  <2> QED BY <1>4, <2>1, <2>2 DEF TornErase
<1>5. CASE pc = "backup" /\ TornCopy(Backdata_Program_Address, App_Address)
  <2>1. flag = "set" /\ flag' = flag
    BY <1>5 DEF BootInv, Phase, Updating, TornCopy, TornProgram
  <2>2. PICK g : flash' = [flash EXCEPT ![Backdata_Program_Address + idx] = g]
    BY <1>5 DEF TornCopy, TornProgram
  <2>3. \A i \in 0 .. ImageBlocks - 1 :
          /\ Updata_Program_Address + i \in Address
          /\ Updata_Program_Address + i # Backdata_Program_Address + idx
    BY <1>1, Geometry DEF Updata_Program_Address, Backdata_Program_Address, Address
  <2> QED BY <1>1, <2>1, <2>2, <2>3
<1>6. CASE pc = "install" /\ TornCopy(App_Address, Updata_Program_Address)
  <2>1. flag = "set" /\ flag' = flag
    BY <1>6 DEF BootInv, Phase, Updating, TornCopy, TornProgram
  <2>2. PICK g : flash' = [flash EXCEPT ![App_Address + idx] = g]
    BY <1>6 DEF TornCopy, TornProgram
  <2>3. \A i \in 0 .. ImageBlocks - 1 :
          /\ Updata_Program_Address + i \in Address
          /\ Updata_Program_Address + i # App_Address + idx
    BY <1>1, Geometry DEF Updata_Program_Address, App_Address, Address
  <2> QED BY <1>1, <2>1, <2>2, <2>3
<1>7. CASE pc = "ok_flag" /\ TornReset
  BY <1>7 DEF TornReset
<1>8. pc \notin {"fail_flag", "fail_erase_app", "reload"}
  BY <1>1 DEF Updating, Committed
<1> QED BY <1>2, <1>3, <1>4, <1>5, <1>6, <1>7, <1>8 DEF TornStep

LEMMA PowerLossInv ==
  ASSUME SoundStep, BootInv, TypeOK', PowerLoss
  PROVE  BootInv'
<1>1. pc' = "check_flag" /\ sr' = "ok" /\ RecordInstall
  BY DEF PowerLoss, Restart
<1>2. /\ \/ flag' = flag
         \/ pc = "ok_flag" /\ flag' = "clear" /\ flash' = flash
      /\ flag = "set" => \A i \in 0 .. ImageBlocks - 1 :
           flash'[Updata_Program_Address + i] = flash[Updata_Program_Address + i]
      /\ flag = "clear" => \A i \in 0 .. ImageBlocks - 1 :
           flash'[App_Address + i] = flash[App_Address + i]
  BY TornSpares DEF PowerLoss
<1>3. Rewritten'
  BY <1>1 DEF Rewritten
<1>4. CASE pc = "ok_flag" /\ flag' = "clear"
  <2>1. flash' = flash
    BY <1>2, <1>4 DEF BootInv, Phase, Updating
  <2>2. current' \in Images /\ Holds(App_Address, current)'
    BY <1>1, <1>4, <2>1, Commit DEF Holds
  <2>3. Phase' /\ FlaggedWhole'
    BY <1>1, <1>4, <2>2 DEF Phase, FlaggedWhole, Updating, Committed
  <2> QED BY <1>1, <1>3, <2>2, <2>3 DEF BootInv
<1>5. CASE ~(pc = "ok_flag" /\ flag' = "clear")
  <2>1. flag' = flag /\ current' = current
    BY <1>1, <1>2, <1>5 DEF RecordInstall
  <2>2. flag \in {"set", "clear"}
    BY DEF BootInv, TypeOK, FlashTypeOK
  <2> QED BY <1>1, <1>2, <1>3, <2>1, <2>2, StillStaged, StillInstalled
<1> QED BY <1>4, <1>5

\* After a whole transfer the update area holds the image.
LEMMA StagedWhole ==
  ASSUME NEW v \in Images, AppStages(v, ImageBlocks)
  PROVE  \A i \in 0 .. ImageBlocks - 1 : flash'[Updata_Program_Address + i] = Block(v, i)
<1> SUFFICES ASSUME NEW i \in 0 .. ImageBlocks - 1
             PROVE  flash'[Updata_Program_Address + i] = Block(v, i)
  OBVIOUS
<1>1. \A a \in Address : flash'[a] =
        IF a \in Updata_Program_SECTOR_1 \cup Updata_Program_SECTOR_2
        THEN IF a - Updata_Program_Address < ImageBlocks
             THEN Block(v, a - Updata_Program_Address) ELSE Erased
        ELSE flash[a]
  BY DEF AppStages
<1>2. PICK a : a = Updata_Program_Address + i
  OBVIOUS
<1>3. /\ a \in Address
      /\ a \in Updata_Program_SECTOR_1 \cup Updata_Program_SECTOR_2
      /\ a - Updata_Program_Address = i
      /\ i < ImageBlocks
  BY <1>2, Geometry DEF Updata_Program_SECTOR_1, Updata_Program_SECTOR_2, Sector,
                        Updata_Program_Address, Address
<1>4. flash'[a] = Block(v, i)
  BY <1>1, <1>3
<1> QED BY <1>2, <1>4

LEMMA AppStagesInv ==
  ASSUME SoundStep, BootInv, TypeOK', NEW v \in Images, NEW n \in 0 .. ImageBlocks, AppStages(v, n)
  PROVE  BootInv'
<1>1. pc = "app" /\ sr = "ok" /\ flag = "clear" /\ current' = current
  BY DEF AppStages, Restart, BootInv, Phase, Committed
<1>2. \A a \in Address : flash'[a] =
        IF a \in Updata_Program_SECTOR_1 \cup Updata_Program_SECTOR_2
        THEN IF a - Updata_Program_Address < n
             THEN Block(v, a - Updata_Program_Address) ELSE Erased
        ELSE flash[a]
  BY DEF AppStages
<1>3. CASE n = ImageBlocks
  <2>1. flag' = "set" /\ pc' = "check_flag" /\ sr' = "ok"
    BY <1>3 DEF AppStages, Restart
  <2>2. \A i \in 0 .. ImageBlocks - 1 : flash'[Updata_Program_Address + i] = Block(v, i)
    BY <1>3, StagedWhole
  <2>3. Holds(Updata_Program_Address, v)'
    BY <2>2 DEF Holds, Updata_Program_Address, Block
  <2>4. Phase' /\ FlaggedWhole' /\ Rewritten'
    BY <2>1, <2>3 DEF Phase, FlaggedWhole, Rewritten, Updating, Committed
  <2> QED BY <1>1, <2>1, <2>4 DEF BootInv
<1>4. CASE n # ImageBlocks
  <2>1. flag' = "clear" /\ pc' = "app" /\ sr' = "ok"
    BY <1>1, <1>4 DEF AppStages
  <2>2. \A i \in 0 .. ImageBlocks - 1 : flash'[App_Address + i] = flash[App_Address + i]
    BY <1>2, Geometry DEF Updata_Program_SECTOR_1, Updata_Program_SECTOR_2, Sector,
                          Updata_Program_Address, App_Address, Address
  <2> QED BY <1>1, <2>1, <2>2, StillInstalled DEF Committed
<1> QED BY <1>3, <1>4

\* No other step is possible while nothing fails, and each one keeps the
\* invariant.
LEMMA SoundInvStep ==
  ASSUME SoundStep, BootInv, [Next]_vars
  PROVE  BootInv'
<1>1. TypeOK'
  BY TypeStep DEF BootInv
<1>2. CASE Main
  <2>1. ~FailClearFlag /\ ~FailEraseApp /\ ~Reload
    BY DEF FailClearFlag, FailEraseApp, Reload, EraseArea, Program_Updata, Copy,
           BootInv, Phase, Updating, Committed
  <2>2. CASE Check_Flag \/ Verify \/ Go_to_App
    BY <1>1, <2>2, DecisionInv
  <2>3. CASE EraseBackApp
    BY <1>1, <2>3, EraseBackAppInv
  <2>4. CASE Backup
    BY <1>1, <2>4, BackupInv
  <2>5. CASE EraseApp
    BY <1>1, <2>5, EraseAppInv
  <2>6. CASE Install
    BY <1>1, <2>6, InstallInv
  <2>7. CASE OkClearFlag
    BY <1>1, <2>7, OkClearFlagInv
  <2>8. CASE EraseUpdata
    BY <1>1, <2>8, EraseUpdataInv
  <2> QED BY <1>2, <2>1, <2>2, <2>3, <2>4, <2>5, <2>6, <2>7, <2>8 DEF Main
<1>3. CASE PowerLoss
  BY <1>1, <1>3, PowerLossInv
<1>4. CASE AppResets
  BY <1>4 DEF AppResets, BootInv
<1>5. ASSUME NEW v \in Images, NEW n \in 0 .. ImageBlocks, AppStages(v, n)
      PROVE  BootInv'
  BY <1>1, <1>5, AppStagesInv
<1>6. CASE UNCHANGED vars
  BY <1>1, <1>6 DEF vars, BootInv, Phase, FlaggedWhole, Rewritten, Holds, Check_Program
<1> QED BY <1>2, <1>3, <1>4, <1>5, <1>6 DEF Next, Environment

LEMMA InvStep ==
  ASSUME PowerOnly, BootInv, [Next]_vars
  PROVE  BootInv'
BY SoundInvStep DEF PowerOnly, SoundStep, NoFault

\* The device leaves the factory with a whole image and the flag clear.
LEMMA InitInv == Init => BootInv
<1> SUFFICES ASSUME Init PROVE BootInv
  OBVIOUS
<1>1. TypeOK
  BY InitType
<1>2. Holds(App_Address, current)
  BY Geometry DEF Init, Holds, Address, App_Address
<1> QED BY <1>1, <1>2 DEF Init, BootInv, Phase, FlaggedWhole, Rewritten, Updating, Committed

\* What the invariant says of the two properties.
LEMMA InvSafe == BootInv => RunsInstalledImage /\ ImageRecoverable
<1> SUFFICES ASSUME BootInv PROVE RunsInstalledImage /\ ImageRecoverable
  OBVIOUS
<1>1. flag = "clear" => Holds(App_Address, current) /\ current \in Images
  BY DEF BootInv, FlaggedWhole
<1>2. flag = "set" => \E v \in Images : Holds(Updata_Program_Address, v)
  BY DEF BootInv, FlaggedWhole
<1>3. RunsInstalledImage
  BY <1>1 DEF RunsInstalledImage, BootInv, Phase, Updating, Committed
<1>4. ImageRecoverable
  <2>1. flag \in {"clear", "set"}
    BY DEF BootInv, TypeOK, FlashTypeOK
  <2>2. CASE flag = "clear"
    BY <1>1, <2>2, ImageAtHolds, BootAssumption DEF ImageRecoverable
  <2>3. CASE flag = "set"
    BY <1>2, <2>3, ImageAtHolds, BootAssumption DEF ImageRecoverable
  <2> QED BY <2>1, <2>2, <2>3
<1> QED BY <1>3, <1>4

(***************************************************************************)
(* The flag, the step main() has reached and the progress of its loops     *)
(* always determine what the areas hold.                                   *)
(***************************************************************************)
THEOREM BootInvariant ==
  ASSUME PowerOnly
  PROVE  Spec => []BootInv
<1>1. Init => BootInv
  BY InitInv
<1>2. BootInv /\ [Next]_vars => BootInv'
  BY InvStep
<1> QED BY <1>1, <1>2, PTL DEF Spec

(***************************************************************************)
(* Wherever the power fails, the boot program jumps only to the whole      *)
(* image of the last committed update, and never blinks the error.         *)
(***************************************************************************)
THEOREM BootRunsInstalled ==
  ASSUME PowerOnly
  PROVE  Spec => []RunsInstalledImage
<1>1. BootInv => RunsInstalledImage
  BY InvSafe
<1> QED BY <1>1, BootInvariant, PTL

-----------------------------------------------------------------------------
(***************************************************************************)
(* The boot program implements the abstract device.  Under the invariant   *)
(* the installed image is the history variable current, on both sides of   *)
(* the commit.                                                             *)
(***************************************************************************)
Installed == IF flag = "clear" THEN ImageAt(App_Address) ELSE current
Pending == IF flag = "set" THEN ImageAt(Updata_Program_Address) ELSE NoImage

\* The image an area holds, named.
LEMMA ImageAtHeld ==
  ASSUME NEW base, NEW v \in Images, Holds(base, v)
  PROVE  ImageAt(base) = v
BY ImageAtHolds, HoldsOne

LEMMA ImageAtHeldNext ==
  ASSUME NEW v \in Images
  PROVE  (Holds(Updata_Program_Address, v) => ImageAt(Updata_Program_Address) = v)'
<1>1. Holds(Updata_Program_Address, v) => ImageAt(Updata_Program_Address) = v
  BY ImageAtHeld
<1> QED BY <1>1, PTL

LEMMA InstalledIsCurrent == BootInv => Installed = current
BY ImageAtHeld DEF Installed, BootInv, FlaggedWhole, TypeOK, FlashTypeOK

LEMMA InstalledIsCurrentNext == (BootInv => Installed = current)'
BY InstalledIsCurrent, PTL

\* A step that leaves the flag and the staged image alone leaves what is
\* pending alone.
LEMMA PendingKept ==
  ASSUME BootInv, flag' = flag,
         flag = "set" => \A i \in 0 .. ImageBlocks - 1 :
           flash'[Updata_Program_Address + i] = flash[Updata_Program_Address + i]
  PROVE  Pending' = Pending
<1>1. CASE flag = "set"
  <2>1. \A v : Holds(Updata_Program_Address, v)' <=> Holds(Updata_Program_Address, v)
    BY <1>1 DEF Holds, Updata_Program_Address, Block
  <2>2. ImageAt(Updata_Program_Address)' = ImageAt(Updata_Program_Address)
    BY <2>1 DEF ImageAt, Updata_Program_Address
  <2> QED BY <1>1, <2>2 DEF Pending
<1>2. CASE flag # "set"
  BY <1>2 DEF Pending
<1> QED BY <1>1, <1>2

\* The commit, by the step that clears the flag or by a power loss in it.
LEMMA CommitInstalls ==
  ASSUME SoundStep, BootInv, BootInv', pc = "ok_flag", flag' = "clear", flash' = flash,
         RecordInstall, pc' # "app"
  PROVE  Device!Install
<1>1. flag = "set" /\ \E v \in Images : Holds(Updata_Program_Address, v)
  BY DEF BootInv, Phase, FlaggedWhole, Updating
<1>2. Pending = ImageAt(Updata_Program_Address) /\ Pending # NoImage
  BY <1>1, ImageAtHolds, BootAssumption DEF Pending
<1>3. Pending' = NoImage
  BY DEF Pending
<1>4. Installed' = current'
  BY InstalledIsCurrentNext
<1>5. current' = ImageAt(Updata_Program_Address)
  BY Commit
<1> QED BY <1>2, <1>3, <1>4, <1>5 DEF Device!Install, Installed, Pending

\* A step that changes neither what is installed nor what is pending.
LEMMA Stutters ==
  ASSUME BootInv, BootInv', flag' = flag, current' = current,
         flag = "set" => \A i \in 0 .. ImageBlocks - 1 :
           flash'[Updata_Program_Address + i] = flash[Updata_Program_Address + i]
  PROVE  UNCHANGED <<Installed, Pending>>
<1>1. Installed = current /\ Installed' = current'
  BY InstalledIsCurrent, InstalledIsCurrentNext
<1> QED BY <1>1, PendingKept

LEMMA MainImplements ==
  ASSUME SoundStep, BootInv, BootInv', Main
  PROVE  [Device!Next]_(Device!specVars)
<1>1. pc # "app" /\ ~FailClearFlag /\ ~FailEraseApp /\ ~Reload
  BY DEF Main, Check_Flag, EraseBackApp, Backup, EraseApp, Install, Verify, FailClearFlag,
         FailEraseApp, Reload, OkClearFlag, EraseUpdata, Go_to_App, EraseArea, Program_Updata,
         Copy, BootInv, Phase, Updating, Committed
<1>2. CASE OkClearFlag
  <2>1. pc = "ok_flag" /\ pc' # "app" /\ RecordInstall
    BY <1>2 DEF OkClearFlag
  <2>2. flag' = "clear" /\ flash' = flash
    BY <1>2, ResetFlagEffect DEF OkClearFlag, BootInv
  <2> QED BY <2>1, <2>2, CommitInstalls DEF Device!Next
<1>3. CASE Go_to_App
  <2>1. flag = "clear" /\ UNCHANGED <<flash, flag, current>>
    BY <1>3 DEF Go_to_App, BootInv, Phase, Committed
  <2>2. UNCHANGED <<Installed, Pending>> /\ Pending = NoImage
    BY <2>1, Stutters DEF Pending
  <2>3. pc' = "app"
    BY <1>3 DEF Go_to_App, BootInv, Phase, Updating, Committed
  <2> QED BY <1>1, <2>2, <2>3 DEF Device!Next, Device!Start, Installed, Pending
<1>4. CASE Check_Flag \/ Verify
  <2>1. UNCHANGED <<flash, flag, current>> /\ pc' # "app"
    BY <1>4 DEF Check_Flag, Verify
  <2>2. UNCHANGED <<Installed, Pending>>
    BY <2>1, Stutters
  <2> QED BY <1>1, <2>1, <2>2 DEF Device!specVars, Installed, Pending
<1>5. CASE EraseBackApp \/ Backup \/ EraseApp \/ Install
  <2>1. UNCHANGED <<Installed, Pending>>
    BY <1>5, StagedKept, Stutters
  <2>2. pc' # "app"
    BY <1>5 DEF EraseBackApp, Backup, EraseApp, Install, EraseArea, Program_Updata, Copy
  <2> QED BY <1>1, <2>1, <2>2 DEF Device!specVars, Installed, Pending
<1>6. CASE EraseUpdata
  <2>1. flag = "clear" /\ flag' = flag /\ current' = current /\ pc' # "app"
    BY <1>6, EraseEffect DEF EraseUpdata, EraseArea, BootInv, Phase, Committed
  <2>2. UNCHANGED <<Installed, Pending>>
    BY <2>1, Stutters
  <2> QED BY <1>1, <2>1, <2>2 DEF Device!specVars, Installed, Pending
<1> QED BY <1>1, <1>2, <1>3, <1>4, <1>5, <1>6 DEF Main

LEMMA PowerLossImplements ==
  ASSUME SoundStep, BootInv, BootInv', PowerLoss
  PROVE  [Device!Next]_(Device!specVars)
<1>1. pc' = "check_flag" /\ RecordInstall
  BY DEF PowerLoss, Restart
<1>2. /\ \/ flag' = flag
         \/ pc = "ok_flag" /\ flag' = "clear" /\ flash' = flash
      /\ flag = "set" => \A i \in 0 .. ImageBlocks - 1 :
           flash'[Updata_Program_Address + i] = flash[Updata_Program_Address + i]
  BY TornSpares DEF PowerLoss
<1>3. CASE flag' # flag
  <2>1. pc' # "app" /\ pc = "ok_flag" /\ flag' = "clear" /\ flash' = flash
    BY <1>1, <1>2, <1>3
  <2> QED BY <1>1, <2>1, CommitInstalls DEF Device!Next
<1>4. CASE flag' = flag
  <2>1. current' = current
    BY <1>1, <1>4 DEF RecordInstall, BootInv, Phase, Updating
  <2>2. UNCHANGED <<Installed, Pending>>
    BY <1>2, <1>4, <2>1, Stutters
  <2>3. CASE pc = "app"
    BY <1>1, <2>2, <2>3 DEF Device!Next, Device!Stop, Installed, Pending
  <2>4. CASE pc # "app"
    BY <1>1, <2>2, <2>4 DEF Device!specVars, Installed, Pending
  <2> QED BY <2>3, <2>4
<1> QED BY <1>3, <1>4

\* A whole transfer is an offer; a partial one changes only the update area,
\* which nothing points at.
LEMMA AppStagesImplements ==
  ASSUME SoundStep, BootInv, BootInv', NEW v \in Images, NEW n \in 0 .. ImageBlocks,
         AppStages(v, n)
  PROVE  [Device!Next]_(Device!specVars)
<1>1. pc = "app" /\ flag = "clear" /\ current' = current
  BY DEF AppStages, BootInv, Phase, Committed
<1>2. Pending = NoImage /\ Installed' = Installed
  BY <1>1, InstalledIsCurrent, InstalledIsCurrentNext DEF Pending
<1>3. CASE n = ImageBlocks
  <2>1. flag' = "set" /\ pc' = "check_flag"
    BY <1>3 DEF AppStages, Restart
  <2>2. \A i \in 0 .. ImageBlocks - 1 : flash'[Updata_Program_Address + i] = Block(v, i)
    BY <1>3, StagedWhole
  <2>3. Pending' = v
    <3>1. Holds(Updata_Program_Address, v)'
      BY <2>2 DEF Holds, Updata_Program_Address, Block
    <3>2. (ImageAt(Updata_Program_Address) = v)'
      BY <3>1, ImageAtHeldNext
    <3> QED BY <2>1, <3>2 DEF Pending
  <2> QED BY <1>1, <1>2, <2>1, <2>3 DEF Device!Next, Device!Offer, Installed, Pending
<1>4. CASE n # ImageBlocks
  <2>1. flag' = "clear" /\ pc' = pc
    BY <1>4 DEF AppStages
  <2>2. Pending' = NoImage
    BY <2>1 DEF Pending
  <2> QED BY <1>1, <1>2, <2>1, <2>2 DEF Device!specVars, Installed, Pending
<1> QED BY <1>3, <1>4

LEMMA InitImplements == Init => Device!Init
<1> SUFFICES ASSUME Init PROVE Device!Init
  OBVIOUS
<1>1. Installed = current
  BY InitInv, InstalledIsCurrent
<1> QED BY <1>1 DEF Init, Device!Init, Installed, Pending

LEMMA StepImplements ==
  ASSUME PowerOnly, BootInv, [Next]_vars
  PROVE  [Device!Next]_(Device!specVars)
<1>1. BootInv' /\ SoundStep
  BY InvStep DEF PowerOnly, SoundStep, NoFault
<1>2. CASE Main
  BY <1>1, <1>2, MainImplements
<1>3. CASE PowerLoss
  BY <1>1, <1>3, PowerLossImplements
<1>4. CASE AppResets
  BY <1>4 DEF AppResets, BootInv
<1>5. ASSUME NEW v \in Images, NEW n \in 0 .. ImageBlocks, AppStages(v, n)
      PROVE  [Device!Next]_(Device!specVars)
  BY <1>1, <1>5, AppStagesImplements
<1>6. CASE UNCHANGED vars
  <2>1. UNCHANGED <<Installed, Pending>>
    BY <1>1, <1>6, Stutters DEF vars
  <2> QED BY <1>6, <2>1 DEF vars, Device!specVars, Installed, Pending
<1> QED BY <1>2, <1>3, <1>4, <1>5, <1>6 DEF Next, Environment

(***************************************************************************)
(* Erasing, copying, checking and clearing the flag, with the power        *)
(* failing anywhere, is to an observer an atomic replacement of images.    *)
(***************************************************************************)
THEOREM BootImplementsDevice ==
  ASSUME PowerOnly
  PROVE  Spec => ImplementsDevice
<1>1. Init => Device!Init
  BY InitImplements
<1>2. BootInv /\ [Next]_vars => [Device!Next]_(Device!specVars)
  BY StepImplements
<1> QED BY <1>1, <1>2, BootInvariant, PTL DEF Spec, ImplementsDevice, Device!Spec
-----------------------------------------------------------------------------
(***************************************************************************)
(* Operations that fail and are reported, any number of them.  The error   *)
(* bit that reports a failure stops every later operation until the reset, *)
(* so that main() runs on over a flash it can no longer change.            *)
(***************************************************************************)
ReportedOnly == "silent" \notin FaultKinds /\ ImageBlocks <= CopyBlocks

\* While no error bit is set the invariant above holds.  While one is set only
\* the flag and the area it points at matter, and that the commit, which a
\* power loss may still record, lies ahead of a clear flag.
ReportInv ==
  /\ TypeOK /\ current \in Images /\ FlaggedWhole
  /\ pc \in Updating => flag = "set"
  /\ sr = "ok" => Phase /\ Rewritten

LEMMA BootInvReports == BootInv <=> ReportInv /\ sr = "ok"
BY DEF BootInv, ReportInv, Phase

LEMMA BootInvReportsNext == (BootInv <=> ReportInv /\ sr = "ok")'
BY BootInvReports, PTL

\* The flag, and the image it points at, stay as they are.
LEMMA PointedAtKept ==
  ASSUME FlaggedWhole, UNCHANGED <<flag, current>>,
         flag = "set" => \A i \in 0 .. ImageBlocks - 1 :
           flash'[Updata_Program_Address + i] = flash[Updata_Program_Address + i],
         flag = "clear" => flash' = flash
  PROVE  FlaggedWhole'
BY DEF FlaggedWhole, Holds, App_Address, Updata_Program_Address, Block

\* The operation that fails spoils at most the block it writes, and clears no
\* flag.
LEMMA FailsAndStops ==
  ASSUME ReportedOnly, BootInv, TypeOK', Main, sr' # "ok"
  PROVE  ReportInv'
<1>1. /\ TypeOK /\ sr = "ok" /\ current \in Images /\ Phase /\ FlaggedWhole /\ FlashTypeOK
      /\ sr' = "error"
  BY DEF BootInv, TypeOK, FlashTypeOK
<1>2. \A kind \in FaultKinds : kind = "reported"
  BY FlashAssumption DEF ReportedOnly
<1>3. CASE EraseBackApp \/ EraseApp \/ EraseUpdata
  <2>1. UNCHANGED <<flash, flag, current>>
    BY <1>1, <1>3 DEF EraseBackApp, EraseApp, EraseUpdata, EraseArea, FLASH_EraseSector, Refused
  <2>2. pc' \in Updating => flag = "set"
    BY <1>1, <1>3 DEF EraseBackApp, EraseApp, EraseUpdata, EraseArea, Phase, Updating
  <2> QED BY <1>1, <2>1, <2>2, PointedAtKept DEF ReportInv
<1>4. CASE OkClearFlag
  <2>1. UNCHANGED <<flash, flag>> /\ pc = "ok_flag" /\ flag = "set"
    BY <1>1, <1>4 DEF OkClearFlag, Reset_Updata_Flag, Refused, Phase, Updating
  <2>2. current' = current /\ pc' = "ok_erase_updata"
    BY <1>4, <2>1 DEF OkClearFlag, RecordInstall
  <2> QED BY <1>1, <2>1, <2>2, PointedAtKept DEF ReportInv, Updating
<1>5. CASE Backup \/ Install
  <2>1. PICK base \in {App_Address, Backdata_Program_Address} :
          \E d : FLASH_ProgramByte(base + idx, d)
    BY <1>5 DEF Backup, Install, Program_Updata, Copy
  <2>2. base + idx \in Address /\ idx \in 0 .. CopyBlocks - 1
    BY <1>1, CopyAddress DEF TypeOK
  <2>3. \A b \in Address \ {base + idx} : flash'[b] = flash[b]
    BY <1>1, <2>1, <2>2, ProgramSpares
  <2>4. \A i \in 0 .. ImageBlocks - 1 :
          flash'[Updata_Program_Address + i] = flash[Updata_Program_Address + i]
    BY <2>2, <2>3, Geometry DEF App_Address, Updata_Program_Address, Backdata_Program_Address,
                                Address
  <2>5. flag = "set" /\ current' = current
    BY <1>1, <1>5 DEF Backup, Install, Program_Updata, Copy, Phase, Updating
  <2>6. flag' = flag
    BY <1>1, <2>1 DEF FLASH_ProgramByte, Refused, flashVars
  <2> QED BY <1>1, <2>4, <2>5, <2>6, PointedAtKept DEF ReportInv
<1>6. ~Check_Flag /\ ~Verify /\ ~Go_to_App
  BY <1>1 DEF Check_Flag, Verify, Go_to_App
<1>7. ~FailClearFlag /\ ~FailEraseApp /\ ~Reload
  BY <1>1 DEF FailClearFlag, FailEraseApp, Reload, EraseArea, Program_Updata, Copy, Phase,
              Updating, Committed
<1> QED BY <1>3, <1>4, <1>5, <1>6, <1>7 DEF Main

\* Until the reset nothing reaches the flash.
LEMMA Stopped ==
  ASSUME ReportInv, TypeOK', sr = "error", [Next]_vars
  PROVE  ReportInv'
<1>1. /\ FlaggedWhole /\ current \in Images /\ flag \in {"clear", "set"}
      /\ pc \in Updating => flag = "set"
  BY DEF ReportInv, TypeOK, FlashTypeOK
<1> DEFINE Recorded == RecordInstall \/ current' = current
<1>2. flag' = flag /\ Recorded => current' = current
  BY <1>1 DEF RecordInstall, Updating
<1>3. CASE Main
  <2>1. UNCHANGED <<flash, flag, sr>>
    BY <1>3 DEF Main, Check_Flag, EraseBackApp, Backup, EraseApp, Install, Verify, FailClearFlag,
                FailEraseApp, Reload, OkClearFlag, EraseUpdata, Go_to_App, EraseArea, Program_Updata,
                Copy, FLASH_EraseSector, FLASH_ProgramByte, Reset_Updata_Flag, Fault, Refused, flashVars
  <2>2. Recorded
    BY <1>3 DEF Main, Check_Flag, EraseBackApp, Backup, EraseApp, Install, Verify, FailClearFlag,
                FailEraseApp, Reload, OkClearFlag, EraseUpdata, Go_to_App, EraseArea, Program_Updata,
                Copy
  <2>3. pc' \in Updating => pc \in Updating \/ flag = "set"
    BY <1>3 DEF Main, Check_Flag, EraseBackApp, Backup, EraseApp, Install, Verify, FailClearFlag,
                FailEraseApp, Reload, OkClearFlag, EraseUpdata, Go_to_App, EraseArea, Program_Updata,
                Copy, Updating
  <2> QED BY <1>1, <1>2, <2>1, <2>2, <2>3, PointedAtKept DEF ReportInv
<1>4. CASE PowerLoss \/ AppResets
  <2>1. UNCHANGED <<flash, flag>> /\ pc' = "check_flag"
    BY <1>4 DEF PowerLoss, AppResets, TornStep, Restart
  <2>2. Recorded
    BY <1>4 DEF PowerLoss, AppResets
  <2>3. Phase' /\ Rewritten'
    BY <2>1 DEF Phase, Rewritten, Updating, Committed
  <2> QED BY <1>1, <1>2, <2>1, <2>2, <2>3, PointedAtKept DEF ReportInv, Updating
<1>5. CASE \E v \in Images, n \in 0 .. ImageBlocks : AppStages(v, n)
  BY <1>5 DEF AppStages
<1>6. CASE UNCHANGED vars
  BY <1>6 DEF vars, ReportInv, FlaggedWhole, Holds
<1> QED BY <1>3, <1>4, <1>5, <1>6 DEF Next, Environment

LEMMA ReportStep ==
  ASSUME ReportedOnly, ReportInv, [Next]_vars
  PROVE  ReportInv'
<1>1. TypeOK'
  BY TypeStep DEF ReportInv
<1>2. sr \in {"ok", "error"} /\ sr' \in {"ok", "error"}
  BY <1>1 DEF ReportInv, TypeOK, FlashTypeOK
<1>3. CASE sr = "ok" /\ sr' = "ok"
  <2>1. BootInv'
    BY <1>3, BootInvReports, SoundInvStep DEF ReportedOnly, SoundStep, NoFault
  <2> QED BY <2>1, BootInvReportsNext
<1>4. CASE sr = "ok" /\ sr' = "error"
  <2>1. Main
    BY <1>4 DEF Next, Environment, PowerLoss, AppResets, AppStages, Restart, vars
  <2> QED BY <1>1, <1>4, <2>1, BootInvReports, FailsAndStops
<1>5. CASE sr = "error"
  BY <1>1, <1>5, Stopped
<1> QED BY <1>2, <1>3, <1>4, <1>5

(***************************************************************************)
(* However many operations fail with a report, and wherever the power      *)
(* fails before, between and after: the failed check of a stopped install  *)
(* cannot clear the flag either, and the staged image is there for the     *)
(* next start.                                                             *)
(***************************************************************************)
THEOREM BootRecoverable ==
  ASSUME ReportedOnly
  PROVE  Spec => []ImageRecoverable
<1>1. Init => ReportInv
  BY InitInv, BootInvReports
<1>2. ReportInv /\ [Next]_vars => ReportInv'
  BY ReportStep
<1>3. ReportInv => ImageRecoverable
  BY ImageAtHolds, BootAssumption DEF ReportInv, FlaggedWhole, ImageRecoverable, TypeOK, FlashTypeOK
<1> QED BY <1>1, <1>2, <1>3, PTL DEF Spec
=============================================================================
