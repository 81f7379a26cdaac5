------------------------ MODULE FirmwareUpdateProofs ------------------------
(***************************************************************************)
(* Theorems about the whole device: what is proved of the boot program and *)
(* of the update receiver, each with a stand-in for the other, holds of    *)
(* the two taking turns on one flash.                                      *)
(***************************************************************************)
EXTENDS FirmwareUpdate, BootloaderProofs, OnlineUpdateProofs

\* The application has a server thread exactly while it runs.
Agree == (pc = "app") <=> (task # "boot")

SystemTypes == TypeOK /\ TypeInv /\ Agree

\* What is left alone by steps of the other program.
AppUntouched == UNCHANGED <<req, updata_shift, pack_amount, net>>
-----------------------------------------------------------------------------
(* Who runs, and the types of both.                                        *)

\* The boot program runs with the application's RAM as Reset left it.
LEMMA AsleepTypes ==
  ASSUME TypeInv, FlashTypeOK', task = "boot", task' \in {"boot", "recv"}, AppUntouched
  PROVE  TypeInv'
<1>1. UpdateTypeOK'
  BY DEF AppUntouched, TypeInv, UpdateTypeOK, Task, net
<1>2. Ordered'
  BY DEF AppUntouched, TypeInv, Ordered, Busy, net
<1>3. Within'
  BY DEF AppUntouched, TypeInv, Within, UnderWay, Limit, Packet, Sent, net
<1> QED BY <1>1, <1>2, <1>3 DEF TypeInv

\* The application runs with the boot program's variables at rest.
LEMMA AwakeTypes ==
  ASSUME TypeOK, UpdateTypeOK', pc' \in PC, UNCHANGED <<idx, current>>
  PROVE  TypeOK'
BY DEF TypeOK, UpdateTypeOK

\* The jump to the application is the last step of main().
LEMMA MainRuns == Main => pc # "app"
BY DEF Main, Check_Flag, EraseBackApp, Backup, EraseApp, Install, Verify, FailClearFlag,
       FailEraseApp, Reload, OkClearFlag, EraseUpdata, Go_to_App, EraseArea, Program_Updata, Copy

LEMMA BootStepTypes ==
  ASSUME SystemTypes, BootStep
  PROVE  SystemTypes'
<1>1. Main /\ task = "boot" /\ AppUntouched
  BY MainRuns DEF SystemTypes, Agree, BootStep, StartApp, AppUntouched
<1>2. TypeOK'
  BY <1>1, MainType DEF SystemTypes
<1>3. task' = IF pc' = "app" THEN "recv" ELSE "boot"
  BY DEF BootStep, StartApp
<1>4. TypeInv'
  BY <1>1, <1>2, <1>3, AsleepTypes DEF SystemTypes, TypeOK
<1> QED BY <1>2, <1>3, <1>4 DEF SystemTypes, Agree

LEMMA AppStepTypes ==
  ASSUME SystemTypes, AppStep
  PROVE  SystemTypes'
<1>1. TypeInv'
  BY NextTypes DEF SystemTypes, AppStep, UpdateNext
<1>2. pc' = IF task' = "boot" THEN "check_flag" ELSE "app"
  BY DEF AppStep
<1>3. TypeOK'
  BY <1>1, <1>2, AwakeTypes DEF SystemTypes, AppStep, TypeInv, PC
<1> QED BY <1>1, <1>2, <1>3 DEF SystemTypes, Agree

\* The host and the network touch neither program.
LEMMA NetTouches ==
  ASSUME NetStep
  PROVE  UNCHANGED <<flash, flag, sr, faults, pc, idx, current, task>> /\ UNCHANGED vars
BY DEF NetStep, HostAndNetwork, HostReply, ConnectionLost, HostStart, bootVars, flashVars, ram,
       vars

LEMMA NetStepTypes ==
  ASSUME SystemTypes, NetStep
  PROVE  SystemTypes'
<1>1. TypeInv'
  BY NextTypes DEF SystemTypes, NetStep, UpdateNext
<1>2. TypeOK'
  BY <1>1, NetTouches, AwakeTypes DEF SystemTypes, TypeInv, TypeOK
<1> QED BY <1>1, <1>2, NetTouches DEF SystemTypes, Agree

LEMMA PowerLossTypes ==
  ASSUME SystemTypes, SystemPowerLoss
  PROVE  SystemTypes'
<1>1. CASE pc # "app" /\ PowerLoss /\ UNCHANGED appVars
  <2>1. task = "boot" /\ task' = "boot" /\ AppUntouched
    BY <1>1 DEF SystemTypes, Agree, AppUntouched, appVars, ram
  <2>2. TypeOK' /\ pc' = "check_flag"
    BY <1>1, PowerLossType DEF SystemTypes, PowerLoss, Restart
  <2>3. TypeInv'
    BY <2>1, <2>2, AsleepTypes DEF SystemTypes, TypeOK
  <2> QED BY <2>1, <2>2, <2>3 DEF SystemTypes, Agree
<1>2. CASE UpdatePowerLoss /\ pc' = "check_flag" /\ UNCHANGED <<idx, current>>
  <2>1. TypeInv'
    BY <1>2, PowerLossKeeps DEF SystemTypes
  <2>2. TypeOK'
    BY <1>2, <2>1, AwakeTypes DEF SystemTypes, TypeInv, PC
  <2>3. task' = "boot"
    BY <1>2 DEF UpdatePowerLoss, Reset
  <2> QED BY <1>2, <2>1, <2>2, <2>3 DEF SystemTypes, Agree
<1> QED BY <1>1, <1>2 DEF SystemPowerLoss

LEMMA StillVars ==
  ASSUME UNCHANGED allVars
  PROVE  UNCHANGED vars /\ UNCHANGED updateVars
BY DEF allVars, flashVars, bootVars, appVars, ram, net, vars, updateVars

LEMMA NextSystemTypes ==
  ASSUME SystemTypes, [SystemNext]_allVars
  PROVE  SystemTypes'
<1>1. CASE UNCHANGED allVars
  <2>1. TypeOK' /\ TypeInv'
    BY <1>1, StillVars, TypeStep, NextTypes DEF SystemTypes
  <2> QED BY <1>1, <2>1 DEF SystemTypes, Agree, allVars, bootVars, appVars, ram
<1> QED BY <1>1, BootStepTypes, AppStepTypes, NetStepTypes, PowerLossTypes DEF SystemNext

LEMMA InitSystemTypes == SystemInit => SystemTypes
<1>1. Init => TypeOK /\ pc = "check_flag"
  BY InitType DEF Init
<1>2. UpdateInit => TypeInv /\ task = "boot"
  BY InitTypes DEF UpdateInit
<1> QED BY <1>1, <1>2 DEF SystemInit, SystemTypes, Agree

(***************************************************************************)
(* Whatever writes fail, however often a host starts again and wherever    *)
(* the power fails: both programs keep their types, each runs only while   *)
(* the other does not, and neither reads or writes beside the flash.       *)
(***************************************************************************)
THEOREM SystemTypeCorrect == SystemSpec => []SystemTypeOK
<1>1. SystemInit => SystemTypes
  BY InitSystemTypes
<1>2. SystemTypes /\ [SystemNext]_allVars => SystemTypes'
  BY NextSystemTypes
<1>3. SystemTypes => SystemTypeOK
  BY DEF SystemTypes, TypeInv, Agree, SystemTypeOK
<1> QED BY <1>1, <1>2, <1>3, PTL DEF SystemSpec

-----------------------------------------------------------------------------
(***************************************************************************)
(* Safety under power loss and lost connections: no write fails, an image  *)
(* fits the blocks that are copied, and a host that loses its connection   *)
(* leaves the transfer until the device has been restarted.                *)
(***************************************************************************)
Quiet == PowerOnly /\ ~HostRestarts

(***************************************************************************)
(* While main() runs, the boot program's invariant holds.  While the       *)
(* application runs it does not: the flag is set before the reset.  What   *)
(* holds all the time is the receiver's invariant, of which the part about *)
(* the update area outlasts the reset until the commit, and the installed  *)
(* image under the application.                                            *)
(***************************************************************************)
SystemInv ==
  /\ SystemTypes /\ DataInv /\ current \in Images
  /\ pc # "app" => BootInv
  /\ pc = "app" => Holds(App_Address, current)

\* While the flag is set main() leaves the update area alone, finishing or
\* not, and nothing but the application sets it.
LEMMA OutsideUpdateArea ==
  ASSUME TypeOK, NEW base \in {App_Address, Backdata_Program_Address}
  PROVE  /\ SectorUnderErase(base) \cap Area = {}
         /\ base + idx \in Address /\ base + idx \notin Area
<1>1. idx \in 0 .. CopyBlocks - 1 /\ base + idx \in Address
  BY CopyAddress DEF TypeOK
<1> QED BY <1>1, Geometry
        DEF SectorUnderErase, Sector, Area, Updata_Program_SECTOR_1, Updata_Program_SECTOR_2,
            App_Address, Updata_Program_Address, Backdata_Program_Address

LEMMA UpdateAreaKept ==
  ASSUME BootInv, Main \/ PowerLoss, flag' = "set"
  PROVE  flag = "set" /\ \A a \in Area : flash'[a] = flash[a]
<1>1. /\ TypeOK /\ FlashTypeOK /\ Area \subseteq Address
      /\ pc \in Updating \cup Committed \cup {"check_flag"}
      /\ pc \in Committed => flag = "clear"
  BY AreaAddress DEF BootInv, Phase, TypeOK
<1>2. flag = "set"
  <2>1. CASE Main
    BY <2>1 DEF Main, Check_Flag, EraseBackApp, Backup, EraseApp, Install, Verify, FailClearFlag,
            FailEraseApp, Reload, OkClearFlag, EraseUpdata, Go_to_App, EraseArea, Program_Updata,
            Copy, FLASH_EraseSector, FLASH_ProgramByte, Reset_Updata_Flag, Refused, flashVars
  <2>2. CASE PowerLoss
    BY <2>2 DEF PowerLoss, TornStep, TornErase, TornCopy, TornProgram, TornReset
  <2> QED BY <2>1, <2>2
<1>3. CASE \E base \in {App_Address, Backdata_Program_Address} :
             \/ FLASH_EraseSector(SectorUnderErase(base)) \/ TornErase(SectorUnderErase(base))
             \/ \E d : FLASH_ProgramByte(base + idx, d) \/ TornProgram(base + idx)
  <2>1. PICK base \in {App_Address, Backdata_Program_Address} :
             \/ FLASH_EraseSector(SectorUnderErase(base)) \/ TornErase(SectorUnderErase(base))
             \/ \E d : FLASH_ProgramByte(base + idx, d) \/ TornProgram(base + idx)
    BY <1>3
  <2>2. /\ SectorUnderErase(base) \cap Area = {}
        /\ base + idx \in Address /\ base + idx \notin Area
    BY <1>1, OutsideUpdateArea
  <2>3. CASE FLASH_EraseSector(SectorUnderErase(base)) \/ TornErase(SectorUnderErase(base))
    BY <1>1, <1>2, <2>2, <2>3, EraseSpares
  <2>4. CASE \E d : FLASH_ProgramByte(base + idx, d) \/ TornProgram(base + idx)
    BY <1>1, <1>2, <2>2, <2>4, ProgramSpares
  <2> QED BY <2>1, <2>3, <2>4
<1>4. CASE flash' = flash
  BY <1>2, <1>4
<1>5. CASE Main
  <2>1. CASE EraseBackApp \/ EraseApp \/ FailEraseApp
    BY <1>3, <2>1 DEF EraseBackApp, EraseApp, FailEraseApp, EraseArea
  <2>2. CASE Backup \/ Install \/ Reload
    BY <1>3, <2>2 DEF Backup, Install, Reload, Program_Updata, Copy
  <2>3. CASE Check_Flag \/ Verify \/ Go_to_App \/ FailClearFlag \/ OkClearFlag
    BY <1>4, <2>3 DEF Check_Flag, Verify, Go_to_App, FailClearFlag, OkClearFlag,
                      Reset_Updata_Flag, Refused, flashVars
  <2>4. ~EraseUpdata
    BY <1>1, <1>2 DEF EraseUpdata, EraseArea, Committed
  <2> QED BY <1>5, <2>1, <2>2, <2>3, <2>4 DEF Main
<1>6. CASE PowerLoss
  <2>1. pc \notin {"ok_erase_updata"}
    BY <1>1, <1>2 DEF Committed
  <2>2. TornStep \/ flash' = flash
    BY <1>6 DEF PowerLoss
  <2>3. CASE TornStep
    BY <1>3, <1>4, <2>1, <2>3 DEF TornStep, TornCopy, TornReset
  <2> QED BY <1>4, <2>2, <2>3
<1> QED BY <1>2, <1>5, <1>6

\* The receiver's invariant while the boot program runs.
LEMMA AsleepData ==
  ASSUME SystemInv, TypeInv', task = "boot", task' \in {"boot", "recv"}, AppUntouched,
         sr' = "ok", task' = "recv" => flag' = "clear",
         flag' = "set" => flag = "set" /\ \A a \in Area : flash'[a] = flash[a]
  PROVE  DataInv'
<1>1. /\ host.state = "idle" /\ link = "down" /\ inbox = <<>> /\ replies = <<>>
      /\ updata_shift = 0
      /\ UNCHANGED <<req, updata_shift, pack_amount, link, drops, inbox, replies, host>>
  BY DEF SystemInv, DataInv, Transfer, Asked, AtRest, AppUntouched, net
<1>2. Transfer'
  BY <1>1 DEF Transfer, AtRest, Coming, Handled, Answered, Asked, Busy
<1>3. Stored'
  BY <1>1 DEF Stored
<1>4. ASSUME flag' = "set" PROVE task' = "boot" /\ Staged(ImageBlocks)'
  <2>1. Staged(ImageBlocks)
    BY <1>4 DEF SystemInv, DataInv, FlagKept
  <2> QED BY <1>1, <1>4, <2>1 DEF Staged
<1> QED BY <1>2, <1>3, <1>4 DEF DataInv, FlagKept

LEMMA FlagMeansWholeNext == (DataInv => FlagMeansUpdate)'
BY FlagMeansWhole, PTL

\* After a reset of the application the boot program finds its invariant.
LEMMA ResetStarts ==
  ASSUME DataInv', TypeOK', current' \in Images, Holds(App_Address, current)',
         pc' = "check_flag"
  PROVE  BootInv'
<1>1. FlagMeansUpdate'
  BY FlagMeansWholeNext
<1>2. host'.image \in Images
  BY DEF DataInv, TypeInv, UpdateTypeOK
<1>3. FlaggedWhole'
  BY <1>1, <1>2 DEF FlaggedWhole, FlagMeansUpdate
<1>4. sr' = "ok"
  BY DEF DataInv, FlagKept
<1> QED BY <1>3, <1>4 DEF BootInv, Phase, Rewritten, Updating, Committed

LEMMA BootStepSafe ==
  ASSUME Quiet, SystemInv, SystemTypes', BootStep
  PROVE  SystemInv'
<1>1. Main /\ pc # "app" /\ task = "boot" /\ AppUntouched /\ BootInv
  BY MainRuns DEF SystemInv, SystemTypes, Agree, BootStep, StartApp, AppUntouched
<1>2. BootInv'
  BY <1>1, InvStep DEF Quiet, Next
<1>3. /\ current' \in Images /\ sr' = "ok"
      /\ pc' = "app" => flag' = "clear" /\ Holds(App_Address, current)'
  BY <1>2 DEF BootInv, Phase, FlaggedWhole, Committed
<1>4. task' = IF pc' = "app" THEN "recv" ELSE "boot"
  BY DEF BootStep, StartApp
<1>5. DataInv'
  BY <1>1, <1>3, <1>4, UpdateAreaKept, AsleepData DEF SystemTypes
<1> QED BY <1>2, <1>3, <1>5 DEF SystemInv

\* A step of the application, or a power loss in it, spares the installed
\* image and leaves the boot program what it needs.
LEMMA AppSafe ==
  ASSUME Quiet, SystemInv, SystemTypes', pc = "app", UpdateNext, UNCHANGED <<idx, current>>,
         pc' \in {"app", "check_flag"}
  PROVE  SystemInv'
<1>1. task # "boot" /\ DataInv /\ Holds(App_Address, current)
  BY DEF SystemInv, SystemTypes, Agree
<1>2. DataInv'
  BY <1>1, NextData DEF Quiet, PowerOnly
<1>3. \A a \in Address \ Area : flash'[a] = flash[a]
  BY <1>1, WritesArea DEF DataInv
<1>4. \A i \in 0 .. ImageBlocks - 1 : flash'[App_Address + i] = flash[App_Address + i]
  BY <1>3, Geometry DEF Address, Area, Updata_Program_SECTOR_1, Updata_Program_SECTOR_2, Sector,
                        App_Address, Updata_Program_Address
<1>5. Holds(App_Address, current)'
  BY <1>1, <1>4, Untouched DEF Holds
<1>6. current' \in Images
  BY DEF SystemInv
<1>7. pc' # "app" => BootInv'
  BY <1>2, <1>5, <1>6, ResetStarts DEF SystemTypes
<1> QED BY <1>2, <1>5, <1>6, <1>7 DEF SystemInv

LEMMA NetStepSafe ==
  ASSUME Quiet, SystemInv, SystemTypes', NetStep
  PROVE  SystemInv'
<1>1. DataInv'
  BY NextData DEF SystemInv, Quiet, PowerOnly, NetStep, UpdateNext
<1>2. UNCHANGED <<flash, pc, current>> /\ UNCHANGED vars
  BY NetTouches
<1>3. pc # "app" => BootInv'
  BY <1>2, InvStep DEF SystemInv, Quiet
<1>4. pc = "app" => Holds(App_Address, current)'
  BY <1>2 DEF SystemInv, Holds, App_Address
<1> QED BY <1>1, <1>2, <1>3, <1>4 DEF SystemInv

LEMMA PowerLossSafe ==
  ASSUME Quiet, SystemInv, SystemTypes', SystemPowerLoss
  PROVE  SystemInv'
<1>1. CASE pc # "app" /\ PowerLoss /\ UNCHANGED appVars
  <2>1. task = "boot" /\ task' = "boot" /\ AppUntouched /\ BootInv
    BY <1>1 DEF SystemInv, SystemTypes, Agree, AppUntouched, appVars, ram
  <2>2. BootInv' /\ sr' = "ok" /\ pc' = "check_flag"
    BY <1>1, <2>1, InvStep DEF Quiet, Next, Environment, PowerLoss, Restart
  <2>3. DataInv'
    BY <1>1, <2>1, <2>2, UpdateAreaKept, AsleepData DEF SystemTypes
  <2>4. current' \in Images
    BY <2>2 DEF BootInv
  <2> QED BY <2>2, <2>3, <2>4 DEF SystemInv
<1>2. CASE pc = "app" /\ UpdatePowerLoss /\ pc' = "check_flag" /\ UNCHANGED <<idx, current>>
  BY <1>2, AppSafe DEF UpdateNext
<1> QED BY <1>1, <1>2 DEF SystemPowerLoss

LEMMA NextSystemSafe ==
  ASSUME Quiet, SystemInv, [SystemNext]_allVars
  PROVE  SystemInv'
<1>1. SystemTypes'
  BY NextSystemTypes DEF SystemInv
<1>2. CASE BootStep
  BY <1>1, <1>2, BootStepSafe
<1>3. CASE AppStep
  BY <1>1, <1>3, AppSafe DEF AppStep, UpdateNext
<1>4. CASE NetStep
  BY <1>1, <1>4, NetStepSafe
<1>5. CASE SystemPowerLoss
  BY <1>1, <1>5, PowerLossSafe
<1>6. CASE UNCHANGED allVars
  <2>1. UNCHANGED vars /\ UNCHANGED updateVars
    BY <1>6, StillVars
  <2>2. DataInv'
    BY <2>1, NextData DEF SystemInv, Quiet, PowerOnly
  <2>3. pc # "app" => BootInv'
    BY <2>1, InvStep DEF SystemInv, Quiet
  <2>4. pc = "app" => Holds(App_Address, current)'
    BY <2>1 DEF SystemInv, Holds, App_Address, vars
  <2> QED BY <1>1, <2>1, <2>2, <2>3, <2>4 DEF SystemInv, vars
<1> QED BY <1>2, <1>3, <1>4, <1>5, <1>6 DEF SystemNext

LEMMA InitSystemSafe == SystemInit => SystemInv
<1> SUFFICES ASSUME SystemInit PROVE SystemInv
  OBVIOUS
<1>1. BootInv /\ pc = "check_flag" /\ current \in Images
  BY InitInv DEF SystemInit, Init
<1> QED BY <1>1, InitSystemTypes, InitData DEF SystemInit, SystemInv

\* What the invariant says of the two properties.
LEMMA SystemSafe == SystemInv => RunsInstalledImage /\ ImageRecoverable
<1> SUFFICES ASSUME SystemInv PROVE RunsInstalledImage /\ ImageRecoverable
  OBVIOUS
<1>1. CASE pc # "app"
  BY <1>1, InvSafe DEF SystemInv
<1>2. CASE pc = "app"
  <2>1. Holds(App_Address, current) /\ current \in Images
    BY <1>2 DEF SystemInv
  <2>2. flag = "set" => Holds(Updata_Program_Address, host.image) /\ host.image \in Images
    BY FlagMeansWhole DEF SystemInv, DataInv, TypeInv, UpdateTypeOK, FlagMeansUpdate
  <2> QED BY <1>2, <2>1, <2>2, ImageAtHolds, BootAssumption
          DEF RunsInstalledImage, ImageRecoverable
<1> QED BY <1>1, <1>2

LEMMA SystemInvariant == ASSUME Quiet PROVE SystemSpec => []SystemInv
<1>1. SystemInit => SystemInv
  BY InitSystemSafe
<1>2. SystemInv /\ [SystemNext]_allVars => SystemInv'
  BY NextSystemSafe
<1> QED BY <1>1, <1>2, PTL DEF SystemSpec

(***************************************************************************)
(* Packet by packet and block by block, wherever the power fails and the   *)
(* connection breaks: what main() jumps to, and what runs until its reset, *)
(* is the whole image of the last committed update.                        *)
(***************************************************************************)
THEOREM SystemRunsInstalled == ASSUME Quiet PROVE SystemSpec => []RunsInstalledImage
<1>1. SystemInv => RunsInstalledImage
  BY SystemSafe
<1> QED BY <1>1, SystemInvariant, PTL

(***************************************************************************)
(* The area the flag points at holds a whole image at every moment of a    *)
(* transfer and of an install.                                             *)
(***************************************************************************)
THEOREM SystemRecoverable == ASSUME Quiet PROVE SystemSpec => []ImageRecoverable
<1>1. SystemInv => ImageRecoverable
  BY SystemSafe
<1> QED BY <1>1, SystemInvariant, PTL

-----------------------------------------------------------------------------
(***************************************************************************)
(* The device implements the abstract one.  The two programs' mappings     *)
(* differ in when an image stops: with the hand-over of the next, which is *)
(* the flag, or with the reset that follows.                               *)
(***************************************************************************)
Runs == pc = "app" /\ flag = "clear"

\* While main() runs there is no difference.
LEMMA SameDevice ==
  ASSUME Runs <=> pc = "app", (Runs <=> pc = "app")', [Device!Next]_(Device!specVars)
  PROVE  [Promise!Next]_(Promise!specVars)
BY DEF Runs, Device!Next, Device!specVars, Device!Offer, Device!Install, Device!Start,
       Device!Stop, Promise!Next, Promise!specVars, Promise!Offer, Promise!Install,
       Promise!Start, Promise!Stop

LEMMA BootImplements ==
  ASSUME Quiet, SystemInv, SystemInv', pc # "app", Main \/ PowerLoss
  PROVE  [Promise!Next]_(Promise!specVars)
<1>1. BootInv /\ BootInv'
  BY InvStep DEF SystemInv, Quiet, Next, Environment
<1>2. [Device!Next]_(Device!specVars)
  BY <1>1, StepImplements DEF Quiet, Next, Environment
<1>3. pc' = "app" => flag' = "clear"
  BY <1>1 DEF BootInv, Phase, Committed
<1> QED BY <1>2, <1>3, SameDevice DEF Runs

\* What is installed under the application is what the boot program recorded.
LEMMA InstalledUnderApp == SystemInv => Installed = current
<1> SUFFICES ASSUME SystemInv PROVE Installed = current
  OBVIOUS
<1>1. CASE pc # "app"
  BY <1>1, InstalledIsCurrent DEF SystemInv
<1>2. CASE pc = "app"
  <2>1. ImageAt(App_Address) = current
    BY <1>2, ImageAtHeld DEF SystemInv
  <2> QED BY <2>1 DEF Installed
<1> QED BY <1>1, <1>2

LEMMA InstalledUnderAppNext == (SystemInv => Installed = current)'
BY InstalledUnderApp, PTL

LEMMA FlagMeansPendingNext == (SystemInv /\ flag = "set" => Pending = host.image)'
<1>1. ASSUME SystemInv, flag = "set" PROVE Pending = host.image
  <2>1. Holds(Updata_Program_Address, host.image) /\ host.image \in Images
    BY <1>1, FlagMeansWhole DEF SystemInv, DataInv, TypeInv, UpdateTypeOK, FlagMeansUpdate
  <2> QED BY <1>1, <2>1, ImageAtHeld DEF Pending
<1> QED BY <1>1, PTL

\* A step of the application, or a power loss in it: setting the flag offers
\* the image the host sent, a reset before that stops the program, and after
\* it, or anywhere else, nothing changes.
LEMMA AppImplements ==
  ASSUME Quiet, SystemInv, SystemInv', pc = "app", ServerThread \/ UpdatePowerLoss,
         current' = current
  PROVE  [Promise!Next]_(Promise!specVars)
<1>1. Installed' = Installed
  BY InstalledUnderApp, InstalledUnderAppNext
<1>2. flag \in {"clear", "set"} /\ flag' \in {"clear", "set"}
  BY DEF SystemInv, SystemTypes, TypeOK, FlashTypeOK
<1>3. CASE flag = "clear" /\ flag' = "set"
  <2>1. Pending' = host'.image /\ host'.image \in Images
    BY <1>3, FlagMeansPendingNext DEF SystemInv, DataInv, TypeInv, UpdateTypeOK
  <2>2. Promise!Offer(host'.image)
    BY <1>1, <1>3, <2>1 DEF Promise!Offer, Installed, Pending
  <2> QED BY <2>1, <2>2 DEF Promise!Next
<1>4. CASE flag = "clear" /\ flag' = "clear"
  <2>1. CASE pc' = "app"
    BY <1>1, <1>4, <2>1 DEF Promise!specVars, Installed, Pending
  <2>2. CASE pc' # "app"
    <3>1. Promise!Stop
      BY <1>1, <1>4, <2>2 DEF Promise!Stop, Installed, Pending
    <3> QED BY <3>1 DEF Promise!Next
  <2> QED BY <2>1, <2>2
<1>5. CASE flag = "set"
  <2>1. task \in {"last_reply", "system_reset"}
    BY <1>5 DEF SystemInv, DataInv, FlagKept, SystemTypes, Agree
  <2>2. UNCHANGED <<flash, flag>>
    BY <2>1 DEF ServerThread, Receive, EraseUpdata1, EraseUpdata2, EraseUpdataSector, ResetFlag,
                Program_Updata_Area, Program, SetFlag, EthernetReceiveSuccessString, System_Reset,
                UpdatePowerLoss, TornUpdate, flashVars
  <2>3. Pending' = Pending
    BY <2>2 DEF Pending, ImageAt, Holds, Updata_Program_Address, Block
  <2> QED BY <1>1, <1>5, <2>2, <2>3 DEF Promise!specVars, Installed, Pending
<1> QED BY <1>2, <1>3, <1>4, <1>5

LEMMA StillImplements ==
  ASSUME SystemInv, SystemInv', UNCHANGED <<flash, flag, pc, current>>
  PROVE  UNCHANGED Promise!specVars
BY DEF Promise!specVars, ImageAt, Holds, App_Address, Updata_Program_Address, Block

LEMMA InitKeepsPromise == SystemInit => Promise!Init
<1>1. Init => pc = "check_flag" /\ flag = "clear"
  BY DEF Init
<1> QED BY <1>1, InitImplements DEF SystemInit, Device!Init, Promise!Init

LEMMA NextKeepsPromise ==
  ASSUME Quiet, SystemInv, [SystemNext]_allVars
  PROVE  [Promise!Next]_(Promise!specVars)
<1>1. SystemInv'
  BY NextSystemSafe
<1>2. CASE BootStep
  BY <1>1, <1>2, BootImplements, MainRuns DEF BootStep
<1>3. CASE AppStep
  BY <1>1, <1>3, AppImplements DEF AppStep
<1>4. CASE NetStep
  BY <1>1, <1>4, NetTouches, StillImplements
<1>5. CASE SystemPowerLoss
  BY <1>1, <1>5, BootImplements, AppImplements DEF SystemPowerLoss
<1>6. CASE UNCHANGED allVars
  BY <1>1, <1>6, StillVars, StillImplements DEF vars
<1> QED BY <1>2, <1>3, <1>4, <1>5, <1>6 DEF SystemNext

(***************************************************************************)
(* Receiving an update packet by packet, setting the flag, resetting and   *)
(* installing block by block, with the power failing and the connection    *)
(* breaking anywhere, is to an observer one indivisible replacement of the *)
(* program by another that a host sent whole.                              *)
(***************************************************************************)
THEOREM SystemKeepsPromise == ASSUME Quiet PROVE SystemSpec => KeepsPromise
<1>1. SystemInit => Promise!Init
  BY InitKeepsPromise
<1>2. SystemInv /\ [SystemNext]_allVars => [Promise!Next]_(Promise!specVars)
  BY NextKeepsPromise
<1> QED BY <1>1, <1>2, SystemInvariant, PTL DEF SystemSpec, KeepsPromise, Promise!Spec
=============================================================================
