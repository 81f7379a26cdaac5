----------------------------- MODULE Bootloader -----------------------------
(***************************************************************************)
(* The boot program (Template_Bootlodar/Main/main.c).  After every reset   *)
(* it looks at the update flag.  When the flag is set it backs the         *)
(* application up, installs the staged image over it and compares the two; *)
(* then it clears the flag and, if they differ, reloads the backup.  In    *)
(* the end it jumps to the application.                                    *)
(*                                                                         *)
(* The application is the environment here: AppStages stands for what      *)
(* module OnlineUpdate models in detail.  Power may fail at any moment.    *)
(***************************************************************************)
EXTENDS FlashDevice

CONSTANT NoImage  \* stands for an area that holds no whole image

ASSUME BootAssumption == NoImage \notin Images

VARIABLES
  pc,      \* the next step of main()
  idx,     \* sector of the erase, or block of the copy, under way
  current  \* history: the image the last finished update installed

vars == <<flash, flag, sr, faults, pc, idx, current>>

PC == {"check_flag", "erase_back", "backup", "erase_app", "install", "verify",
       "fail_flag", "fail_erase_app", "reload", "ok_flag", "ok_erase_updata",
       "go_to_app", "app", "halt"}

\* The image an area holds, if it holds one.
ImageAt(base) ==
  IF \E v \in Images : Holds(base, v)
  THEN CHOOSE v \in Images : Holds(base, v)
  ELSE NoImage

Init ==
  /\ current \in Images
  /\ flash = [a \in Address |-> IF a < ImageBlocks THEN Block(current, a) ELSE Erased]
  /\ flag = "clear" /\ sr = "ok" /\ faults = 0
  /\ pc = "check_flag" /\ idx = 0

(***************************************************************************)
(* Erase_BackApp_Area, Erase_App_Area, Erase_Updata_Program_Area: two      *)
(* sectors one after the other.  Program_Updata: the copy loop.            *)
(***************************************************************************)
SectorUnderErase(base) == Sector(IF idx = 0 THEN base ELSE base + SectorBlocks)

\* Mutant: the second sector is forgotten.
EraseOneSector(here, base, next) ==
  /\ pc = here /\ FLASH_EraseSector(Sector(base))
  /\ pc' = next /\ UNCHANGED <<idx, current>>

EraseArea(here, base, next) ==
  /\ pc = here
  /\ FLASH_EraseSector(SectorUnderErase(base))
  /\ IF idx = 0 THEN idx' = 1 /\ pc' = here ELSE idx' = 0 /\ pc' = next
  /\ UNCHANGED current

Copy(here, dst, src, size, next) ==
  /\ pc = here
  /\ FLASH_ProgramByte(dst + idx, flash[src + idx])
  /\ IF idx + 1 < size THEN idx' = idx + 1 /\ pc' = here ELSE idx' = 0 /\ pc' = next
  /\ UNCHANGED current

\* Mutants: the loop runs once too often, or stops one short.
CopyOneMore(here, dst, src, next) == Copy(here, dst, src, CopyBlocks + 1, next)
CopyOneLess(here, dst, src, next) == Copy(here, dst, src, CopyBlocks - 1, next)

Program_Updata(here, dst, src, next) == Copy(here, dst, src, CopyBlocks, next)

(***************************************************************************)
(* main(), in the order of its statements.                                 *)
(***************************************************************************)
Check_Flag ==
  /\ pc = "check_flag"
  /\ pc' = IF flag = "set" THEN "erase_back" ELSE "go_to_app"
  /\ UNCHANGED <<flash, flag, sr, faults, idx, current>>

\* Mutants: a wrong source, the flag cleared before the install, an erase
\* left out.
BackupOfStaged == Program_Updata("backup", Backdata_Program_Address, Updata_Program_Address, "erase_app")
ClearFlagFirst ==
  pc = "erase_app" /\ Reset_Updata_Flag /\ pc' = "install" /\ UNCHANGED <<idx, current>>
ReloadOverInstalled ==
  pc = "fail_erase_app" /\ pc' = "reload" /\ UNCHANGED <<flash, flag, sr, faults, idx, current>>

EraseBackApp == EraseArea("erase_back", Backdata_Program_Address, "backup")
Backup == Program_Updata("backup", Backdata_Program_Address, App_Address, "erase_app")
EraseApp == EraseArea("erase_app", App_Address, "install")
Install == Program_Updata("install", App_Address, Updata_Program_Address, "verify")

\* Mutant: the last block is not compared.
CheckOneLess ==
  \A i \in 0 .. CopyBlocks - 2 : flash[App_Address + i] = flash[Updata_Program_Address + i]

\* Check_Program compares the CopyBlocks blocks that were copied.
Check_Program ==
  \A i \in 0 .. CopyBlocks - 1 : flash[App_Address + i] = flash[Updata_Program_Address + i]

\* Mutant: the flag is not cleared after a successful install.
VerifyKeepsFlag ==
  /\ pc = "verify"
  /\ pc' = IF Check_Program THEN "ok_erase_updata" ELSE "fail_flag"
  /\ UNCHANGED <<flash, flag, sr, faults, idx, current>>

Verify ==
  /\ pc = "verify"
  /\ pc' = IF Check_Program THEN "ok_flag" ELSE "fail_flag"
  /\ UNCHANGED <<flash, flag, sr, faults, idx, current>>

FailClearFlag ==
  /\ pc = "fail_flag" /\ Reset_Updata_Flag
  /\ pc' = "fail_erase_app"
  /\ UNCHANGED <<idx, current>>

FailEraseApp == EraseArea("fail_erase_app", App_Address, "reload")
Reload == Program_Updata("reload", App_Address, Backdata_Program_Address, "go_to_app")

\* Clearing the flag is the commit point of an update.
RecordInstall ==
  current' = IF pc = "ok_flag" /\ flag' = "clear" THEN ImageAt(Updata_Program_Address) ELSE current

OkClearFlag ==
  /\ pc = "ok_flag" /\ Reset_Updata_Flag
  /\ pc' = "ok_erase_updata"
  /\ RecordInstall /\ UNCHANGED idx

EraseUpdata == EraseArea("ok_erase_updata", Updata_Program_Address, "go_to_app")

\* The jump is taken when the first word of the application is a stack pointer.
Go_to_App ==
  /\ pc = "go_to_app"
  /\ pc' = IF flash[App_Address] \in MspValid THEN "app" ELSE "halt"
  /\ UNCHANGED <<flash, flag, sr, faults, idx, current>>

Main ==
  \/ Check_Flag \/ EraseBackApp \/ Backup \/ EraseApp \/ Install \/ Verify
  \/ FailClearFlag \/ FailEraseApp \/ Reload \/ OkClearFlag \/ EraseUpdata \/ Go_to_App

(***************************************************************************)
(* Environment: the power supply and the running application.              *)
(***************************************************************************)
TornCopy(dst, src) ==
  flash[src + idx] # Erased /\ TornProgram(dst + idx)

TornStep ==
  /\ sr = "ok"
  /\ \/ pc = "erase_back" /\ TornErase(SectorUnderErase(Backdata_Program_Address))
     \/ pc \in {"erase_app", "fail_erase_app"} /\ TornErase(SectorUnderErase(App_Address))
     \/ pc = "ok_erase_updata" /\ TornErase(SectorUnderErase(Updata_Program_Address))
     \/ pc = "backup" /\ TornCopy(Backdata_Program_Address, App_Address)
     \/ pc = "install" /\ TornCopy(App_Address, Updata_Program_Address)
     \/ pc = "reload" /\ TornCopy(App_Address, Backdata_Program_Address)
     \/ pc \in {"fail_flag", "ok_flag"} /\ TornReset

\* A reset clears RAM and the error bits and starts the boot program.
Restart == pc' = "check_flag" /\ idx' = 0 /\ sr' = "ok"

PowerLoss ==
  /\ PowerMayFail
  /\ TornStep \/ UNCHANGED <<flash, flag>>
  /\ Restart /\ RecordInstall
  /\ UNCHANGED faults

(***************************************************************************)
(* The application erases the update area, receives n blocks of v and,     *)
(* when that is all of it, sets the flag and resets.  While an error bit   *)
(* is set it cannot write; a reset is then all it can do.                  *)
(***************************************************************************)
AppStages(v, n) ==
  /\ pc = "app" /\ sr = "ok"
  /\ flash' = [a \in Address |->
       IF a \in Updata_Program_SECTOR_1 \cup Updata_Program_SECTOR_2
       THEN IF a - Updata_Program_Address < n
            THEN Block(v, a - Updata_Program_Address) ELSE Erased
       ELSE flash[a]]
  /\ IF n = ImageBlocks
     THEN flag' = "set" /\ Restart /\ UNCHANGED <<faults, current>>
     ELSE flag' = "clear" /\ UNCHANGED <<sr, faults, pc, idx, current>>

AppResets ==
  pc = "app" /\ sr = "error" /\ Restart /\ UNCHANGED <<flash, flag, faults, current>>

Environment ==
  \/ PowerLoss
  \/ AppResets
  \/ \E v \in Images, n \in 0 .. ImageBlocks : AppStages(v, n)

Next == Main \/ Environment

Spec == Init /\ [][Next]_vars

\* The processor never stops executing main().
FairSpec == Spec /\ WF_vars(Main)
-----------------------------------------------------------------------------
(* The state is of its type: block contents, flag, program counter.        *)
TypeOK ==
  /\ FlashTypeOK
  /\ pc \in PC
  /\ idx \in 0 .. CopyBlocks - 1
  /\ current \in Images \cup {NoImage}

(***************************************************************************)
(* What main() hands the processor to is the image the last committed      *)
(* update installed, whole; and it never ends in the loop that blinks the  *)
(* error (lines 65 to 76).                                                 *)
(***************************************************************************)
RunsInstalledImage ==
  pc \in {"app", "halt"} => pc = "app" /\ Holds(App_Address, current)

(***************************************************************************)
(* At every moment, so wherever the power fails, the flag tells where a    *)
(* whole image is: in the update area while it is set, in the application  *)
(* area once it is clear.                                                  *)
(***************************************************************************)
ImageRecoverable ==
  IF flag = "set" THEN ImageAt(Updata_Program_Address) # NoImage
                  ELSE ImageAt(App_Address) # NoImage

(***************************************************************************)
(* When the check fails there is something to fall back on: from the check *)
(* until the backup is reloaded ("failed, reload", line 37) the backup     *)
(* area holds the installed image.                                         *)
(***************************************************************************)
RollbackHasBackup ==
  pc \in {"fail_flag", "fail_erase_app", "reload"} =>
    Holds(Backdata_Program_Address, current)

(***************************************************************************)
(* Why the properties above hold when nothing but the power fails: the     *)
(* inductive invariant of the proofs.  It ties the flag to the step main() *)
(* has reached, and the contents of the application area to the progress   *)
(* of the loops that rewrite it.                                           *)
(***************************************************************************)
\* Where main() is in the update, and which side of the commit that is.
Updating == {"erase_back", "backup", "erase_app", "install", "verify", "ok_flag"}
Committed == {"ok_erase_updata", "go_to_app", "app"}

Phase ==
  /\ pc \in Updating \cup Committed \cup {"check_flag"}
  /\ pc \in Updating => flag = "set"
  /\ pc \in Committed => flag = "clear"

\* The area the flag points at holds a whole image.
FlaggedWhole ==
  /\ flag = "set" => \E v \in Images : Holds(Updata_Program_Address, v)
  /\ flag = "clear" => Holds(App_Address, current)

\* How far the application area has been rewritten: its first sector is
\* erased, the blocks before idx are copied and the others erased, all are
\* copied.
Rewritten ==
  /\ pc = "erase_app" /\ idx # 0 => \A a \in App_SECTOR_1 : flash[a] = Erased
  /\ pc = "install" =>
       \A i \in 0 .. CopyBlocks - 1 :
         flash[App_Address + i] = IF i < idx THEN flash[Updata_Program_Address + i] ELSE Erased
  /\ pc \in {"verify", "ok_flag"} => Check_Program

BootInv == TypeOK /\ sr = "ok" /\ current \in Images /\ Phase /\ FlaggedWhole /\ Rewritten

(***************************************************************************)
(* An update is committed, its flag cleared, only when the application     *)
(* area holds the whole staged image: "written whole", main.h line 31.     *)
(***************************************************************************)
CommitsWholeImage ==
  pc = "ok_flag" /\ ImageAt(Updata_Program_Address) # NoImage =>
    Holds(App_Address, ImageAt(Updata_Program_Address))

(***************************************************************************)
(* A staged image is eventually running, if the power eventually stays on: *)
(* no interruption of main() makes it skip the update or loop in it.       *)
(***************************************************************************)
PowerStays == <>[][~PowerLoss]_vars

InstallCompletes ==
  PowerStays =>
    \A v \in Images :
      flag = "set" /\ Holds(Updata_Program_Address, v)
        ~> pc = "app" /\ Holds(App_Address, v)
(***************************************************************************)
(* The update flag decides which area is the installed image.              *)
(***************************************************************************)
Device == INSTANCE FirmwareSpec WITH
  installed <- IF flag = "clear" THEN ImageAt(App_Address) ELSE current,
  pending <- IF flag = "set" THEN ImageAt(Updata_Program_Address) ELSE NoImage,
  running <- pc = "app"

(***************************************************************************)
(* Erasing, copying, checking and clearing the flag block by block, with   *)
(* the power failing anywhere, is an atomic replacement of one image by    *)
(* another.                                                                *)
(***************************************************************************)
ImplementsDevice == Device!Spec
=============================================================================
