--------------------------- MODULE FirmwareUpdate ---------------------------
(***************************************************************************)
(* The whole update path on one device: the boot program (Bootloader) and  *)
(* the application (OnlineUpdate) take turns on one flash.  The boot       *)
(* program's jump starts the application with a fresh RAM; the             *)
(* application's reset, and every loss of power, start the boot program.   *)
(* pc is "app" exactly while the application runs.                         *)
(***************************************************************************)
EXTENDS Bootloader, OnlineUpdate

bootVars == <<pc, idx, current>>
appVars == <<ram, net>>
allVars == <<flashVars, bootVars, appVars>>

SystemInit == Init /\ UpdateInit

\* Mutant: the application's tasks run before the jump.
StartEarly ==
  /\ task' = IF pc' \in {"go_to_app", "app"} THEN "recv" ELSE "boot"
  /\ UNCHANGED <<req, updata_shift, pack_amount, net>>

\* Go_to_App: the C start-up code sets every static variable of the
\* application to its initial value, which is what Reset left in them.
StartApp ==
  /\ task' = IF pc' = "app" THEN "recv" ELSE "boot"
  /\ UNCHANGED <<req, updata_shift, pack_amount, net>>

BootStep == Main /\ StartApp

AppStep ==
  /\ pc = "app" /\ ServerThread
  /\ pc' = IF task' = "boot" THEN "check_flag" ELSE "app"
  /\ UNCHANGED <<idx, current>>

NetStep == HostAndNetwork /\ UNCHANGED bootVars

SystemPowerLoss ==
  \/ pc # "app" /\ PowerLoss /\ UNCHANGED appVars
  \/ /\ pc = "app" /\ UpdatePowerLoss
     /\ pc' = "check_flag" /\ UNCHANGED <<idx, current>>

SystemNext == BootStep \/ AppStep \/ NetStep \/ SystemPowerLoss

SystemSpec == SystemInit /\ [][SystemNext]_allVars

\* The processor runs; a host whose reply has come sends the next packet.
FairSystemSpec ==
  SystemSpec /\ WF_allVars(BootStep \/ AppStep) /\ WF_allVars(NetStep /\ HostReply)
-----------------------------------------------------------------------------
(* Both programs agree on who runs, and each keeps its own types.          *)
SystemTypeOK ==
  /\ TypeOK /\ UpdateTypeOK
  /\ (pc = "app") <=> (task # "boot")

(***************************************************************************)
(* The image that runs is always one that a host sent whole, or the one    *)
(* the device was delivered with: block by block, packet by packet and     *)
(* reset by reset, the device replaces its program atomically.  It runs    *)
(* until the flag is set, which is the moment the update is handed over.   *)
(***************************************************************************)
Promise == INSTANCE FirmwareSpec WITH
  installed <- IF flag = "clear" THEN ImageAt(App_Address) ELSE current,
  pending <- IF flag = "set" THEN ImageAt(Updata_Program_Address) ELSE NoImage,
  running <- pc = "app" /\ flag = "clear"

KeepsPromise == Promise!Spec

(***************************************************************************)
(* The image whose last packet was answered is eventually running, once    *)
(* the power stays on.                                                     *)
(***************************************************************************)
SystemStaysOn == <>[][~SystemPowerLoss]_allVars

AnsweredIsRun ==
  SystemStaysOn =>
    \A v \in Images :
      host.state = "done" /\ host.image = v
        ~> pc = "app" /\ Holds(App_Address, v)
=============================================================================
