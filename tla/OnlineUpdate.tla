---------------------------- MODULE OnlineUpdate ----------------------------
(***************************************************************************)
(* How the running application receives a new image.  A host on the        *)
(* network sends ONLINEUPDATE1, then one ONLINEUPDATE2 per packet, and     *)
(* waits for the reply to each ("every packet needs a reply").  The server *)
(* thread handles one command at a time: it erases the update area, writes *)
(* each packet behind the previous one, and after the last packet sets the *)
(* update flag and resets the processor.                                   *)
(*                                                                         *)
(* The host is not part of the repository.  HostRestarts says whether it   *)
(* starts a transfer again whose connection was lost, or leaves that until *)
(* the device has been restarted.                                          *)
(***************************************************************************)
EXTENDS FlashDevice, Sequences

CONSTANTS
  HostRestarts, \* whether the host starts again over a new connection
  MaxDrops      \* bound on the connections lost

\* The packets of all transfers of one run of the application fit the flash.
ASSUME UpdateAssumption ==
  /\ HostRestarts \in BOOLEAN
  /\ MaxDrops \in Nat
  /\ (MaxDrops + 1) * ImageBlocks <= 4 * SectorBlocks

VARIABLES
  task,          \* the next step of the server thread, "boot" without one
  req,           \* the command it handles
  updata_shift,  \* offset of the next packet in the update area
  pack_amount,   \* number of packets announced
  link,          \* whether the host is connected
  drops,         \* connections lost so far; numbers the connections
  inbox,         \* commands sent and not yet received by the thread
  replies,       \* replies sent and not yet received by the host
  host           \* the host: its state, its image, the last command it sent

ram == <<task, req, updata_shift, pack_amount>>
net == <<link, drops, inbox, replies, host>>
updateVars == <<flash, flag, sr, faults, task, req, updata_shift, pack_amount,
                link, drops, inbox, replies, host>>

\* Command 0 is ONLINEUPDATE1; command k > 0 is ONLINEUPDATE2 with packet k.
Command == [num : 0 .. ImageBlocks, image : Images, conn : 0 .. MaxDrops]

Task == {"boot", "recv", "erase_1", "erase_2", "reset_flag", "program", "set_flag",
         "reply", "last_reply", "system_reset"}
HostState == {"idle", "waiting", "lost", "done"}

Area == Updata_Program_SECTOR_1 \cup Updata_Program_SECTOR_2

UpdateInit ==
  /\ \E v \in Images :
       /\ flash = [a \in Address |-> IF a < ImageBlocks THEN Block(v, a) ELSE Erased]
       /\ host = [state |-> "idle", image |-> v, last |-> 0]
       /\ req = [num |-> 0, image |-> v, conn |-> 0]
  /\ flag = "clear" /\ sr = "ok" /\ faults = 0
  /\ task = "boot" /\ updata_shift = 0 /\ pack_amount = 0
  /\ link = "down" /\ drops = 0 /\ inbox = <<>> /\ replies = <<>>

(***************************************************************************)
(* The server thread.                                                      *)
(***************************************************************************)
\* Packets of 0x400 bytes in an image of that many bytes.
PackAmount(bytes) == bytes \div 1024 + 1 - (IF bytes % 1024 = 0 THEN 1 ELSE 0)

\* PC_DATAHandler runs the command the message names.
PC_DATAHandler(cmd) ==
  IF cmd.num = 0
  THEN task' = "erase_1" /\ pack_amount' = PackAmount(1024 * ImageBlocks)
  ELSE task' = "program" /\ UNCHANGED pack_amount

\* netconn_recv returned a message, whole and with its sum (what becomes of
\* other segments is in module CommandServer).
Receive ==
  /\ task = "recv" /\ inbox # <<>>
  /\ req' = Head(inbox) /\ inbox' = Tail(inbox)
  /\ PC_DATAHandler(Head(inbox))
  /\ UNCHANGED <<flashVars, updata_shift, link, drops, replies, host>>

EraseUpdataSector(here, sector, next) ==
  /\ task = here /\ FLASH_EraseSector(sector)
  /\ task' = next
  /\ UNCHANGED <<req, updata_shift, pack_amount, net>>

\* Mutants: the sectors of the comments instead of those of the macros, a
\* sector forgotten.
EraseSectorSix == EraseUpdataSector("erase_1", App_SECTOR_2, "erase_2")
EraseFirstOnly ==
  /\ task = "erase_2" /\ task' = "reset_flag"
  /\ UNCHANGED <<flashVars, req, updata_shift, pack_amount, net>>

EraseUpdata1 == EraseUpdataSector("erase_1", Updata_Program_SECTOR_1, "erase_2")
EraseUpdata2 == EraseUpdataSector("erase_2", Updata_Program_SECTOR_2, "reset_flag")

ResetFlag ==
  /\ task = "reset_flag" /\ Reset_Updata_Flag
  /\ task' = "reply"
  /\ UNCHANGED <<req, updata_shift, pack_amount, net>>

Program(offset, last) ==
  /\ task = "program"
  /\ FLASH_ProgramByte(Updata_Program_Address + offset, Block(req.image, req.num - 1))
  /\ updata_shift' = updata_shift + 1
  /\ task' = IF last THEN "set_flag" ELSE "reply"
  /\ UNCHANGED <<req, pack_amount, net>>

\* Mutants: the offset advanced before the write, packets counted from one
\* too many, the flag set by the first packet.
AdvanceFirst == Program(updata_shift + 1, req.num = pack_amount)
LastNeverComes == Program(updata_shift, req.num = pack_amount + 1)
FlagTooEarly == Program(updata_shift, req.num >= 1)

\* The packet goes where the previous one ended; its number is only
\* compared with the number of the last.
Program_Updata_Area == Program(updata_shift, req.num = pack_amount)

\* Mutant: the flag is not set.
SetNothing ==
  /\ task = "set_flag" /\ task' = "last_reply"
  /\ UNCHANGED <<flashVars, req, updata_shift, pack_amount, net>>

SetFlag ==
  /\ task = "set_flag" /\ Set_Updata_Flag
  /\ task' = "last_reply"
  /\ UNCHANGED <<req, updata_shift, pack_amount, net>>

\* A reply to a connection that is gone is lost.
SendReply ==
  replies' = IF link = "up" /\ req.conn = drops THEN Append(replies, req.num) ELSE replies

EthernetReceiveSuccessString ==
  /\ task \in {"reply", "last_reply"}
  /\ SendReply
  /\ task' = IF task = "reply" THEN "recv" ELSE "system_reset"
  /\ UNCHANGED <<flashVars, req, updata_shift, pack_amount, link, drops, inbox, host>>

\* Mutant: the offset survives the reset.
ResetKeepsOffset ==
  /\ task' = "boot" /\ sr' = "ok" /\ pack_amount' = 0
  /\ link' = "down" /\ inbox' = <<>> /\ replies' = <<>>
  /\ host' = [host EXCEPT !.state = "idle"]
  /\ UNCHANGED <<updata_shift, req, drops>>

\* A reset clears the RAM and the error bits, and the host loses its peer.
Reset ==
  /\ task' = "boot" /\ sr' = "ok"
  /\ updata_shift' = 0 /\ pack_amount' = 0
  /\ link' = "down" /\ inbox' = <<>> /\ replies' = <<>>
  /\ host' = [host EXCEPT !.state = "idle"]
  /\ UNCHANGED <<req, drops>>

System_Reset ==
  /\ task = "system_reset" /\ Reset
  /\ UNCHANGED <<flash, flag, faults>>

ServerThread ==
  \/ Receive \/ EraseUpdata1 \/ EraseUpdata2 \/ ResetFlag \/ Program_Updata_Area
  \/ SetFlag \/ EthernetReceiveSuccessString \/ System_Reset

(***************************************************************************)
(* The host and the network.                                               *)
(***************************************************************************)
Send(v, k) ==
  /\ inbox' = Append(inbox, [num |-> k, image |-> v, conn |-> drops])
  /\ host' = [state |-> "waiting", image |-> v, last |-> k]

\* It connects and sends ONLINEUPDATE1.
HostStart(v) ==
  /\ task # "boot" /\ link = "down"
  /\ host.state = "idle" \/ (host.state = "lost" /\ HostRestarts)
  /\ link' = "up" /\ Send(v, 0)
  /\ UNCHANGED <<flashVars, ram, drops, replies>>

\* A reply arrives: the next packet goes out, if there is one.
HostReply ==
  /\ replies # <<>>
  /\ replies' = Tail(replies)
  /\ IF host.last < ImageBlocks
     THEN Send(host.image, host.last + 1)
     ELSE host' = [host EXCEPT !.state = "done"] /\ UNCHANGED inbox
  /\ UNCHANGED <<flashVars, ram, link, drops>>

\* What was received before the connection broke may still reach the thread.
ConnectionLost ==
  /\ link = "up" /\ drops < MaxDrops
  /\ link' = "down" /\ drops' = drops + 1
  /\ replies' = <<>> /\ inbox' \in {inbox, <<>>}
  /\ host' = [host EXCEPT !.state = "lost"]
  /\ UNCHANGED <<flashVars, ram>>

HostAndNetwork == HostReply \/ ConnectionLost \/ \E v \in Images : HostStart(v)

(***************************************************************************)
(* Power loss, and the boot program in one step (module Bootloader has the *)
(* steps): it installs the staged image if the flag is set, and starts the *)
(* application.                                                            *)
(***************************************************************************)
TornUpdate ==
  /\ sr = "ok"
  /\ \/ task = "erase_1" /\ TornErase(Updata_Program_SECTOR_1)
     \/ task = "erase_2" /\ TornErase(Updata_Program_SECTOR_2)
     \/ task = "program" /\ TornProgram(Updata_Program_Address + updata_shift)
     \/ task = "reset_flag" /\ TornReset
     \/ task = "set_flag" /\ TornSet

UpdatePowerLoss ==
  /\ PowerMayFail
  /\ TornUpdate \/ UNCHANGED <<flash, flag>>
  /\ Reset /\ UNCHANGED faults

InstalledFlash ==
  [a \in Address |->
     IF a \in App_Address .. App_Address + CopyBlocks - 1 THEN flash[a + Updata_Program_Address]
     ELSE IF a \in App_SECTOR_1 \cup App_SECTOR_2 \cup Area THEN Erased
     ELSE IF a < Backdata_Program_Address + CopyBlocks THEN flash[a - Backdata_Program_Address]
     ELSE Erased]

Boot ==
  /\ task = "boot" /\ task' = "recv"
  /\ flash' = IF flag = "set" THEN InstalledFlash ELSE flash
  /\ flag' = "clear"
  /\ UNCHANGED <<sr, faults, req, updata_shift, pack_amount, net>>

UpdateNext == Boot \/ ServerThread \/ HostAndNetwork \/ UpdatePowerLoss

UpdateSpec == UpdateInit /\ [][UpdateNext]_updateVars

\* The tasks run, and a host whose reply has come sends the next packet.
FairUpdateSpec == UpdateSpec /\ WF_updateVars(Boot \/ ServerThread) /\ WF_updateVars(HostReply)
-----------------------------------------------------------------------------
(* The state is of its type: task, command queue, offset, host.            *)
UpdateTypeOK ==
  /\ FlashTypeOK
  /\ task \in Task /\ req \in Command
  /\ updata_shift \in 0 .. (MaxDrops + 1) * ImageBlocks
  /\ pack_amount \in 0 .. ImageBlocks
  /\ link \in {"up", "down"} /\ drops \in 0 .. MaxDrops
  /\ inbox \in Seq(Command) /\ Len(inbox) <= MaxDrops + 1
  /\ replies \in Seq(0 .. ImageBlocks)
  /\ host \in [state : HostState, image : Images, last : 0 .. ImageBlocks]

(***************************************************************************)
(* The flag tells the boot program that there is an update ("false: there  *)
(* is an update", Check_Flag): while it is set the update area holds the   *)
(* whole image the host sent.                                              *)
(***************************************************************************)
FlagMeansUpdate == flag = "set" => Holds(Updata_Program_Address, host.image)

(***************************************************************************)
(* The reply to a packet means it is written: every packet before the one  *)
(* the host waits for is in the update area, at its place.                 *)
(***************************************************************************)
AnsweredIsWritten ==
  \A i \in 0 .. ImageBlocks - 1 :
    host.state = "done" \/ (host.state = "waiting" /\ i < host.last - 1)
      => flash[Updata_Program_Address + i] = Block(host.image, i)

(***************************************************************************)
(* The application program writes nothing but the update area, so the      *)
(* running program and the backup of the previous one survive every step   *)
(* of a transfer.                                                          *)
(***************************************************************************)
StaysInUpdateArea ==
  [][task # "boot" => \A a \in Address \ Area : flash'[a] = flash[a]]_updateVars

(***************************************************************************)
(* A transfer that has begun ends with the update flag set, unless the     *)
(* connection or the power is lost on the way; and a host that has got the *)
(* reply to its last packet will find its image in the application area,   *)
(* whatever happens between that reply and the reset.                      *)
(***************************************************************************)
Undisturbed == <>[][~(ConnectionLost \/ UpdatePowerLoss)]_updateVars

TransferCompletes ==
  Undisturbed =>
    (host.state = "waiting" ~> flag = "set" \/ host.state \in {"lost", "idle"})

AnsweredIsInstalled ==
  Undisturbed =>
    \A v \in Images :
      host.state = "done" /\ host.image = v ~> Holds(App_Address, v)
=============================================================================
