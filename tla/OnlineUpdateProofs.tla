------------------------- MODULE OnlineUpdateProofs -------------------------
(***************************************************************************)
(* Theorems about OnlineUpdate, for every geometry of the flash, every set *)
(* of images and any number of lost connections.                           *)
(***************************************************************************)
EXTENDS OnlineUpdate, FlashProofs

\* The thread handles a command that it has not answered.
Busy == task \notin {"boot", "recv", "system_reset"}

\* The command is a packet still to be written.
Packet(cmd) == IF cmd.num > 0 THEN 1 ELSE 0
UnderWay == IF task = "program" THEN 1 ELSE 0

\* What the packets of n connections can fill at most, and how far the offset
\* may be advanced by a command.
Room(n) == n * ImageBlocks
Limit(cmd) == Room(cmd.conn) + cmd.num
Sent == Room(drops) + (IF link = "up" THEN host.last ELSE 0)

(***************************************************************************)
(* Each connection has at most one command under way, in the inbox, in the *)
(* thread or answered; and the inbox has them in the order of connections. *)
(***************************************************************************)
Ordered ==
  /\ \A i \in 1 .. Len(inbox) : i - 1 <= inbox[i].conn /\ inbox[i].conn <= drops
  /\ \A i, j \in 1 .. Len(inbox) : i < j => inbox[i].conn < inbox[j].conn
  /\ Busy => req.conn <= drops /\ (\A i \in 1 .. Len(inbox) : req.conn < inbox[i].conn)
  /\ link = "down" => replies = <<>>
  /\ link = "down" \/ replies # <<>> =>
       /\ \A i \in 1 .. Len(inbox) : inbox[i].conn < drops
       /\ Busy => req.conn < drops
  /\ Len(replies) <= 1

(***************************************************************************)
(* The offset never gets ahead of the packets sent.                        *)
(***************************************************************************)
Within ==
  /\ task = "program" => req.num > 0
  /\ updata_shift + UnderWay <= Limit(req)
  /\ \A i \in 1 .. Len(inbox) :
       updata_shift + UnderWay + Packet(inbox[i]) <= Limit(inbox[i])
  /\ \A i, j \in 1 .. Len(inbox) : i < j =>
       Limit(inbox[i]) + Packet(inbox[j]) <= Limit(inbox[j])
  /\ updata_shift + UnderWay <= Sent
  /\ \A i \in 1 .. Len(inbox) : Limit(inbox[i]) <= Sent

TypeInv == UpdateTypeOK /\ Ordered /\ Within

(***************************************************************************)
(* The control of one transfer, when the host leaves a lost one until the  *)
(* device has restarted: the command the host waits for is in the inbox,   *)
(* or in the thread, or answered, unless the connection was lost.          *)
(***************************************************************************)
AtRest == host.state = "idle" =>
  /\ task \in {"boot", "recv"} /\ link = "down"
  /\ inbox = <<>> /\ replies = <<>> /\ updata_shift = 0

Coming == inbox # <<>> =>
  /\ task = "recv" /\ replies = <<>> /\ Len(inbox) = 1
  /\ inbox[1].num = host.last /\ inbox[1].image = host.image
  /\ IF host.last = 0 THEN updata_shift = 0
     ELSE pack_amount = ImageBlocks /\ updata_shift = host.last - 1

Handled ==
  /\ Busy => replies = <<>>
  /\ Busy \/ task = "system_reset" =>
       pack_amount = ImageBlocks /\ req.num = host.last /\ req.image = host.image
  /\ task \in {"erase_1", "erase_2", "reset_flag"} => host.last = 0 /\ updata_shift = 0
  /\ task = "program" => host.last > 0 /\ updata_shift = host.last - 1
  /\ task = "reply" => host.last < ImageBlocks /\ updata_shift = host.last
  /\ task \in {"set_flag", "last_reply", "system_reset"} => host.last = ImageBlocks

Answered == replies # <<>> =>
  /\ host.state = "waiting"
  /\ task = "recv" =>
       host.last < ImageBlocks /\ pack_amount = ImageBlocks /\ updata_shift = host.last

Asked ==
  /\ task = "boot" => host.state = "idle"
  /\ host.state = "lost" => link = "down"
  /\ host.state = "done" => task = "system_reset"
  /\ host.state = "waiting" =>
       /\ link = "up"
       /\ task # "recv" \/ inbox # <<>> \/ replies # <<>>
       /\ \A i \in 1 .. Len(inbox) : inbox[i].conn = drops
       /\ Busy => req.conn = drops

Transfer == AtRest /\ Coming /\ Handled /\ Answered /\ Asked

(***************************************************************************)
(* What the update area and the flag hold meanwhile, without faults.       *)
(***************************************************************************)
\* The first n packets are written, and the rest of the area is erased.
Staged(n) ==
  \A a \in Area :
    flash[a] = IF a < Updata_Program_Address + n
               THEN Block(host.image, a - Updata_Program_Address) ELSE Erased

Stored ==
  /\ inbox # <<>> /\ host.last > 0 => Staged(updata_shift)
  /\ task = "erase_2" => \A a \in Updata_Program_SECTOR_1 : flash[a] = Erased
  /\ task \in {"reset_flag", "program", "reply"} => Staged(updata_shift)
  /\ task \in {"set_flag", "last_reply", "system_reset"} => Staged(ImageBlocks)
  /\ replies # <<>> => Staged(host.last)

FlagKept ==
  /\ sr = "ok"
  /\ flag = "set" => task \in {"last_reply", "system_reset", "boot"} /\ Staged(ImageBlocks)
-----------------------------------------------------------------------------
(* Numbers, commands and the inbox.                                        *)

LEMMA Bounds ==
  /\ MaxDrops \in Nat
  /\ (MaxDrops + 1) * ImageBlocks <= 4 * SectorBlocks
BY UpdateAssumption

LEMMA RoomType == \A n \in Nat : Room(n) \in Nat
BY Geometry DEF Room

LEMMA RoomMore ==
  ASSUME NEW n \in Nat, NEW m \in Nat, n < m
  PROVE  Room(n) + ImageBlocks <= Room(m)
<1>1. ImageBlocks \in Nat
  BY Geometry
<1>2. PICK k \in Nat : m = n + 1 + k
  <2>1. m - n - 1 \in Nat /\ m = n + 1 + (m - n - 1)
    OBVIOUS
  <2> QED BY <2>1
<1>3. m * ImageBlocks = n * ImageBlocks + ImageBlocks + k * ImageBlocks
  BY <1>1, <1>2
<1>4. k * ImageBlocks \in Nat /\ n * ImageBlocks \in Nat
  BY <1>1
<1> QED BY <1>1, <1>3, <1>4 DEF Room

LEMMA CommandFields ==
  \A c \in Command : /\ c.num \in 0 .. ImageBlocks /\ c.num \in Nat /\ c.image \in Images
                     /\ c.conn \in 0 .. MaxDrops /\ c.conn \in Nat
                     /\ Limit(c) \in Nat /\ Packet(c) \in {0, 1} /\ Packet(c) <= c.num
<1> SUFFICES ASSUME NEW c \in Command
             PROVE  /\ c.num \in 0 .. ImageBlocks /\ c.num \in Nat /\ c.image \in Images
                    /\ c.conn \in 0 .. MaxDrops /\ c.conn \in Nat
                    /\ Limit(c) \in Nat /\ Packet(c) \in {0, 1} /\ Packet(c) <= c.num
  OBVIOUS
<1>1. c.num \in 0 .. ImageBlocks /\ c.image \in Images /\ c.conn \in 0 .. MaxDrops
  BY DEF Command
<1>2. c.num \in Nat /\ c.conn \in Nat
  BY <1>1, Geometry, Bounds
<1> QED BY <1>1, <1>2, RoomType DEF Limit, Packet

\* All that has been sent fits the flash behind the update area.
LEMMA SentFits ==
  ASSUME drops \in 0 .. MaxDrops, host.last \in 0 .. ImageBlocks
  PROVE  /\ Sent \in Nat /\ Sent <= (MaxDrops + 1) * ImageBlocks
         /\ Sent <= Room(drops) + ImageBlocks
<1>1. /\ ImageBlocks \in Nat /\ MaxDrops \in Nat /\ drops \in Nat
      /\ Room(drops) \in Nat /\ Room(MaxDrops + 1) \in Nat
  BY Geometry, Bounds, RoomType
<1>2. Room(drops) + ImageBlocks <= Room(MaxDrops + 1)
  BY <1>1, RoomMore
<1>3. Room(MaxDrops + 1) = (MaxDrops + 1) * ImageBlocks
  BY DEF Room
<1> HIDE DEF Room
<1>4. Sent \in Nat /\ Sent <= Room(drops) + ImageBlocks
  BY <1>1 DEF Sent
<1> QED BY <1>1, <1>2, <1>3, <1>4

LEMMA SmallNumbers ==
  ASSUME UpdateTypeOK
  PROVE  /\ updata_shift \in Nat /\ UnderWay \in {0, 1}
         /\ Sent \in Nat /\ Limit(req) \in Nat /\ drops \in Nat
         /\ \A i \in 1 .. Len(inbox) :
              /\ inbox[i] \in Command /\ inbox[i].conn \in Nat
              /\ Limit(inbox[i]) \in Nat /\ Packet(inbox[i]) \in {0, 1}
<1>1. updata_shift \in Nat /\ UnderWay \in {0, 1} /\ drops \in Nat
  BY Geometry, Bounds DEF UpdateTypeOK, UnderWay
<1>2. Sent \in Nat
  BY SentFits DEF UpdateTypeOK
<1>3. Limit(req) \in Nat
  BY CommandFields DEF UpdateTypeOK
<1>4. \A i \in 1 .. Len(inbox) : inbox[i] \in Command
  BY DEF UpdateTypeOK
<1> QED BY <1>1, <1>2, <1>3, <1>4, CommandFields

LEMMA ShiftFits ==
  ASSUME drops \in 0 .. MaxDrops, host.last \in 0 .. ImageBlocks,
         NEW n \in Nat, n <= Sent
  PROVE  n \in 0 .. (MaxDrops + 1) * ImageBlocks
<1>1. Sent \in Nat /\ Sent <= (MaxDrops + 1) * ImageBlocks
  BY SentFits
<1>2. (MaxDrops + 1) * ImageBlocks \in Nat
  BY Geometry, Bounds
<1> HIDE DEF Sent
<1> QED BY <1>1, <1>2

-----------------------------------------------------------------------------
(* The server thread keeps the order of the commands and the types.        *)

\* A step in which the thread works on its command.
LEMMA WorkKeeps ==
  ASSUME TypeInv, FlashTypeOK', Busy,
         task' \in Task \ {"boot", "recv", "system_reset", "program"},
         updata_shift' = updata_shift + UnderWay,
         UNCHANGED <<req, pack_amount, net>>
  PROVE  TypeInv'
<1> USE DEF TypeInv
<1>1. /\ updata_shift \in Nat /\ UnderWay \in {0, 1} /\ Sent \in Nat /\ Sent' = Sent
      /\ UnderWay' = 0
  BY SmallNumbers DEF UnderWay, Sent, net
<1>2. updata_shift' \in Nat /\ updata_shift' + UnderWay' = updata_shift + UnderWay
  BY <1>1
<1>3. updata_shift' \in 0 .. (MaxDrops + 1) * ImageBlocks
  <2>1. updata_shift' <= Sent
    BY <1>1, <1>2 DEF Within
  <2>2. drops \in 0 .. MaxDrops /\ host.last \in 0 .. ImageBlocks
    BY DEF UpdateTypeOK
  <2> QED BY <1>2, <2>1, <2>2, ShiftFits
<1>4. UpdateTypeOK'
  BY <1>3 DEF UpdateTypeOK, net
<1>5. Ordered'
  BY DEF Ordered, Busy, net
<1>6. Within'
  <2>1. /\ Limit(req)' = Limit(req)
        /\ \A i \in 1 .. Len(inbox) : /\ Limit(inbox[i])' = Limit(inbox[i])
                                      /\ Packet(inbox[i])' = Packet(inbox[i])
    BY DEF Limit, Packet, net
  <2>2. inbox' = inbox
    BY DEF net
  <2> QED BY <1>1, <1>2, <2>1, <2>2 DEF Within
<1> QED BY <1>4, <1>5, <1>6

LEMMA FlashSteps ==
  ASSUME TypeInv, EraseUpdata1 \/ EraseUpdata2 \/ ResetFlag \/ SetFlag
  PROVE  TypeInv'
<1>1. FlashTypeOK'
  BY EraseType, ResetFlagType, SetFlagType
     DEF TypeInv, UpdateTypeOK, EraseUpdata1, EraseUpdata2, EraseUpdataSector, ResetFlag, SetFlag
<1>2. /\ Busy /\ task # "program"
      /\ task' \in Task \ {"boot", "recv", "system_reset", "program"}
      /\ UNCHANGED <<req, updata_shift, pack_amount, net>>
  BY DEF EraseUpdata1, EraseUpdata2, EraseUpdataSector, ResetFlag, SetFlag, Busy, Task
<1>3. updata_shift' = updata_shift + UnderWay
  BY <1>2, SmallNumbers DEF TypeInv, UnderWay
<1> QED BY <1>1, <1>2, <1>3, WorkKeeps

\* A packet is written inside the flash.
LEMMA ProgramAddress ==
  ASSUME TypeInv, task = "program"
  PROVE  /\ Updata_Program_Address + updata_shift \in Address
         /\ req.num > 0 => Block(req.image, req.num - 1) \in Content
<1>1. updata_shift \in Nat /\ UnderWay = 1 /\ Sent \in Nat /\ Sent <= (MaxDrops + 1) * ImageBlocks
  BY SmallNumbers, SentFits DEF TypeInv, UpdateTypeOK, UnderWay
<1>2. updata_shift + 1 <= Sent
  BY <1>1 DEF TypeInv, Within
<1>3. (MaxDrops + 1) * ImageBlocks \in Nat
  BY Geometry, Bounds
<1>4. updata_shift + 1 <= 4 * SectorBlocks
  BY <1>1, <1>2, <1>3, Bounds, Geometry
<1>5. Updata_Program_Address + updata_shift \in Address
  BY <1>1, <1>4, Geometry DEF Updata_Program_Address, Address
<1>6. ASSUME req.num > 0 PROVE Block(req.image, req.num - 1) \in Content
  <2>1. req.num \in 0 .. ImageBlocks /\ req.image \in Images
    BY CommandFields DEF TypeInv, UpdateTypeOK
  <2>2. req.num - 1 \in 0 .. ImageBlocks - 1
    BY <1>6, <2>1, Geometry
  <2> QED BY <2>1, <2>2 DEF Content, ImageData
<1> QED BY <1>5, <1>6

LEMMA ProgramKeeps ==
  ASSUME TypeInv, Program_Updata_Area
  PROVE  TypeInv'
<1>1. task = "program" /\ req.num > 0
  BY DEF Program_Updata_Area, Program, TypeInv, Within
<1>2. FlashTypeOK'
  BY <1>1, ProgramAddress, ProgramType DEF Program_Updata_Area, Program, TypeInv, UpdateTypeOK
<1>3. /\ Busy /\ task' \in Task \ {"boot", "recv", "system_reset", "program"}
      /\ updata_shift' = updata_shift + UnderWay /\ UNCHANGED <<req, pack_amount, net>>
  BY <1>1 DEF Program_Updata_Area, Program, Busy, Task, UnderWay
<1> QED BY <1>2, <1>3, WorkKeeps

\* The command is answered.
LEMMA ReplyKeeps ==
  ASSUME TypeInv, EthernetReceiveSuccessString
  PROVE  TypeInv'
<1> USE DEF TypeInv
<1>1. /\ Busy /\ ~Busy' /\ task' \in Task /\ task' # "program" /\ task # "program"
      /\ UNCHANGED <<flash, flag, sr, faults, req, updata_shift, pack_amount, link, drops,
                     inbox, host>>
  BY DEF EthernetReceiveSuccessString, Busy, Task, flashVars
<1>2. \/ replies' = replies
      \/ link = "up" /\ req.conn = drops /\ replies' = Append(replies, req.num)
  BY DEF EthernetReceiveSuccessString, SendReply
<1>3. replies \in Seq(0 .. ImageBlocks) /\ Len(replies) \in Nat /\ req.num \in 0 .. ImageBlocks
      /\ req \in Command /\ drops \in Nat
  <2>1. replies \in Seq(0 .. ImageBlocks) /\ req \in Command
    BY DEF UpdateTypeOK
  <2> QED BY <2>1, CommandFields, SmallNumbers
<1>4. UpdateTypeOK'
  <2>1. Append(replies, req.num) \in Seq(0 .. ImageBlocks)
    BY <1>3
  <2>2. replies' \in Seq(0 .. ImageBlocks)
    BY <1>2, <1>3, <2>1
  <2> QED BY <1>1, <2>2 DEF UpdateTypeOK, FlashTypeOK
<1>5. \A i \in 1 .. Len(inbox) : inbox[i].conn \in Nat
  BY SmallNumbers
<1>6. CASE replies' = replies
  <2>1. Ordered'
    BY <1>1, <1>6 DEF Ordered
  <2>2. Within'
    BY <1>1 DEF Within, UnderWay, Limit, Packet, Sent
  <2> QED BY <1>4, <2>1, <2>2
<1>7. CASE link = "up" /\ req.conn = drops /\ replies' = Append(replies, req.num)
  <2>1. replies = <<>>
    <3>1. req.conn \in Nat
      BY <1>3, CommandFields
    <3> QED BY <1>1, <1>3, <1>7, <3>1 DEF Ordered
  <2>2. Len(replies') = 1
    BY <1>3, <1>7, <2>1
  <2>3. \A i \in 1 .. Len(inbox) : inbox[i].conn < drops
    BY <1>1, <1>3, <1>5, <1>7 DEF Ordered
  <2>4. Ordered'
    BY <1>1, <1>7, <2>2, <2>3 DEF Ordered
  <2>5. Within'
    BY <1>1 DEF Within, UnderWay, Limit, Packet, Sent
  <2> QED BY <1>4, <2>4, <2>5
<1> QED BY <1>2, <1>6, <1>7

\* A command is taken from the inbox.
LEMMA ReceiveKeeps ==
  ASSUME TypeInv, Receive
  PROVE  TypeInv'
<1> USE DEF TypeInv
<1>1. /\ task = "recv" /\ inbox # <<>> /\ req' = Head(inbox) /\ inbox' = Tail(inbox)
      /\ UNCHANGED <<flash, flag, sr, faults, updata_shift, link, drops, replies, host>>
  BY DEF Receive, flashVars
<1>2. /\ inbox \in Seq(Command) /\ Len(inbox) \in Nat /\ Len(inbox) >= 1
      /\ Len(inbox) <= MaxDrops + 1 /\ MaxDrops \in Nat
  BY <1>1, Bounds DEF UpdateTypeOK
<1>3. /\ Head(inbox) = inbox[1] /\ Head(inbox) \in Command
      /\ inbox' \in Seq(Command) /\ Len(inbox') = Len(inbox) - 1
      /\ \A i \in 1 .. Len(inbox') : inbox'[i] = inbox[i + 1] /\ i + 1 \in 1 .. Len(inbox)
  BY <1>1, <1>2
<1>4. /\ task' = IF req'.num = 0 THEN "erase_1" ELSE "program"
      /\ pack_amount' \in 0 .. ImageBlocks
  <2>1. PackAmount(1024 * ImageBlocks) = ImageBlocks
    BY Geometry DEF PackAmount
  <2> QED BY <1>1, <2>1, Geometry DEF Receive, PC_DATAHandler, UpdateTypeOK
<1>5. UpdateTypeOK'
  BY <1>1, <1>2, <1>3, <1>4 DEF UpdateTypeOK, FlashTypeOK, Task
<1>6. /\ \A i \in 1 .. Len(inbox) : inbox[i].conn \in Nat
      /\ drops \in Nat
  BY SmallNumbers
<1>7. Ordered'
  <2>1. ASSUME NEW i \in 1 .. Len(inbox')
        PROVE  i - 1 <= inbox'[i].conn /\ inbox'[i].conn <= drops
    <3>1. i \in Nat /\ i + 1 \in 1 .. Len(inbox) /\ inbox'[i] = inbox[i + 1]
      BY <1>3
    <3>2. (i + 1) - 1 <= inbox[i + 1].conn /\ inbox[i + 1].conn <= drops
      BY <3>1 DEF Ordered
    <3>3. PICK c \in Nat : c = inbox[i + 1].conn
      BY <1>6, <3>1
    <3> QED BY <3>1, <3>2, <3>3
  <2>2. ASSUME NEW i \in 1 .. Len(inbox'), NEW j \in 1 .. Len(inbox'), i < j
        PROVE  inbox'[i].conn < inbox'[j].conn
    <3>1. /\ i + 1 \in 1 .. Len(inbox) /\ inbox'[i] = inbox[i + 1]
          /\ j + 1 \in 1 .. Len(inbox) /\ inbox'[j] = inbox[j + 1] /\ i + 1 < j + 1
      BY <1>3, <2>2
    <3> QED BY <3>1 DEF Ordered
  <2>3. req'.conn <= drops /\ (\A i \in 1 .. Len(inbox') : req'.conn < inbox'[i].conn)
    BY <1>1, <1>2, <1>3, <1>6 DEF Ordered
  <2>4. link = "down" \/ replies # <<>> =>
           /\ \A i \in 1 .. Len(inbox') : inbox'[i].conn < drops
           /\ req'.conn < drops
    BY <1>1, <1>2, <1>3, <1>6 DEF Ordered
  <2> QED BY <1>1, <2>1, <2>2, <2>3, <2>4 DEF Ordered
<1>8. Within'
  <2>1. /\ UnderWay = 0 /\ UnderWay' = Packet(req') /\ (task' = "program" => req'.num > 0)
    <3>1. req'.num \in Nat
      BY <1>1, <1>3, CommandFields
    <3> QED BY <1>1, <1>4, <3>1 DEF UnderWay, Packet
  <2>2. /\ Sent' = Sent /\ Limit(req)' = Limit(inbox[1]) /\ Packet(req') = Packet(inbox[1])
        /\ \A i \in 1 .. Len(inbox') : /\ Limit(inbox[i])' = Limit(inbox[i + 1])
                                       /\ Packet(inbox[i])' = Packet(inbox[i + 1])
    BY <1>1, <1>3 DEF Sent, Limit, Packet
  <2>3. /\ updata_shift + Packet(inbox[1]) <= Limit(inbox[1])
        /\ Limit(inbox[1]) <= Sent
        /\ \A i \in 1 .. Len(inbox') :
             /\ Limit(inbox[1]) + Packet(inbox[i + 1]) <= Limit(inbox[i + 1])
             /\ Limit(inbox[i + 1]) <= Sent
    BY <1>2, <1>3, <2>1, SmallNumbers DEF Within
  <2>4. /\ updata_shift \in Nat /\ Limit(inbox[1]) \in Nat /\ Packet(inbox[1]) \in {0, 1}
        /\ Sent \in Nat
        /\ \A i \in 1 .. Len(inbox') : /\ Limit(inbox[i + 1]) \in Nat
                                       /\ Packet(inbox[i + 1]) \in {0, 1}
    <3>1. 1 \in 1 .. Len(inbox) /\ \A i \in 1 .. Len(inbox') : i + 1 \in 1 .. Len(inbox)
      BY <1>2, <1>3
    <3> QED BY <3>1, SmallNumbers
  <2>5. \A i, j \in 1 .. Len(inbox') : i < j =>
           Limit(inbox[i + 1]) + Packet(inbox[j + 1]) <= Limit(inbox[j + 1])
    BY <1>2, <1>3 DEF Within
  <2> HIDE DEF TypeInv
  <2>6. updata_shift + UnderWay' <= Limit(req)' /\ updata_shift + UnderWay' <= Sent
    BY <2>1, <2>2, <2>3, <2>4
  <2>7. ASSUME NEW i \in 1 .. Len(inbox')
        PROVE  updata_shift + UnderWay' + Packet(inbox[i])' <= Limit(inbox[i])'
    <3>1. PICK s \in Nat, l \in Nat, m \in Nat, p \in {0, 1}, q \in {0, 1} :
            /\ s = updata_shift /\ l = Limit(inbox[1]) /\ m = Limit(inbox[i + 1])
            /\ p = Packet(inbox[1]) /\ q = Packet(inbox[i + 1])
      BY <2>4
    <3>2. s + p <= l /\ l + q <= m
      BY <2>3, <3>1
    <3>3. s + p + q <= m
      BY <3>2
    <3> QED BY <2>1, <2>2, <3>1, <3>3
  <2>8. \A i, j \in 1 .. Len(inbox') : i < j =>
          Limit(inbox[i])' + Packet(inbox[j])' <= Limit(inbox[j])'
    BY <2>2, <2>5
  <2>9. \A i \in 1 .. Len(inbox') : Limit(inbox[i])' <= Sent'
    BY <2>2, <2>3
  <2> QED BY <1>1, <2>1, <2>2, <2>6, <2>7, <2>8, <2>9 DEF Within
<1> QED BY <1>5, <1>7, <1>8

\* A reset empties the queues.
LEMMA ResetKeeps ==
  ASSUME TypeInv, flash' \in [Address -> Content], flag' \in {"clear", "set"},
         faults' = faults, Reset
  PROVE  TypeInv'
<1> USE DEF TypeInv
<1>1. /\ task' = "boot" /\ sr' = "ok" /\ updata_shift' = 0 /\ pack_amount' = 0
      /\ link' = "down" /\ inbox' = <<>> /\ replies' = <<>>
      /\ host' = [host EXCEPT !.state = "idle"] /\ UNCHANGED <<req, drops>>
  BY DEF Reset
<1>2. /\ 0 \in 0 .. (MaxDrops + 1) * ImageBlocks /\ 0 \in 0 .. ImageBlocks
  BY Geometry, Bounds
<1>3. host' \in [state : HostState, image : Images, last : 0 .. ImageBlocks]
  BY <1>1 DEF UpdateTypeOK, HostState
<1>4. inbox' \in Seq(Command) /\ Len(inbox') = 0 /\ replies' \in Seq(0 .. ImageBlocks)
      /\ Len(replies') = 0 /\ 0 <= MaxDrops + 1
  BY <1>1, Bounds
<1>5. UpdateTypeOK'
  BY <1>1, <1>2, <1>3, <1>4 DEF UpdateTypeOK, FlashTypeOK, Task
<1>6. Ordered'
  BY <1>1, <1>4 DEF Ordered, Busy
<1>7. Within'
  <2>1. UnderWay' = 0 /\ Limit(req)' = Limit(req) /\ Sent' = Room(drops)
    <3>1. Room(drops) \in Nat
      BY RoomType, SmallNumbers
    <3> QED BY <1>1, <3>1 DEF UnderWay, Limit, Sent
  <2>2. Limit(req) \in Nat /\ Room(drops) \in Nat
    BY RoomType, SmallNumbers
  <2> QED BY <1>1, <1>4, <2>1, <2>2 DEF Within
<1> QED BY <1>5, <1>6, <1>7

LEMMA PowerLossKeeps ==
  ASSUME TypeInv, UpdatePowerLoss \/ System_Reset
  PROVE  TypeInv'
<1>1. flash' \in [Address -> Content] /\ flag' \in {"clear", "set"}
  <2>1. CASE UNCHANGED <<flash, flag>>
    BY <2>1 DEF TypeInv, UpdateTypeOK, FlashTypeOK
  <2>2. CASE TornUpdate
    <3>1. 0 \in Address /\ FlashTypeOK
      BY Geometry DEF Address, TypeInv, UpdateTypeOK
    <3>2. CASE task = "program" /\ TornProgram(Updata_Program_Address + updata_shift)
      BY <3>1, <3>2, ProgramAddress, TornType
    <3> QED BY <2>2, <3>1, <3>2, TornType DEF TornUpdate
  <2> QED BY <2>1, <2>2 DEF UpdatePowerLoss, System_Reset
<1> QED BY <1>1, ResetKeeps DEF UpdatePowerLoss, System_Reset

-----------------------------------------------------------------------------
(* So do the host, the network and the boot program.                       *)

\* A command is appended to the inbox for the first or the next packet.
LEMMA SendKeeps ==
  ASSUME TypeInv, NEW v \in Images, NEW k \in 0 .. ImageBlocks, Send(v, k),
         UNCHANGED <<flash, flag, sr, faults, task, req, updata_shift, pack_amount, drops>>,
         link' = "up", replies' = <<>>,
         link = "down" \/ replies # <<>>,
         IF link = "up" THEN k = host.last + 1 ELSE k = 0
  PROVE  TypeInv'
<1> USE DEF TypeInv
<1> DEFINE cmd == [num |-> k, image |-> v, conn |-> drops]
           n == Len(inbox)
<1>1. /\ inbox' = Append(inbox, cmd) /\ cmd \in Command
      /\ cmd.num = k /\ cmd.conn = drops
      /\ host' = [state |-> "waiting", image |-> v, last |-> k]
  BY DEF Send, Command, UpdateTypeOK
<1> HIDE DEF cmd
<1>2. /\ inbox \in Seq(Command) /\ n \in Nat /\ n <= MaxDrops + 1 /\ MaxDrops \in Nat
      /\ drops \in Nat /\ drops <= MaxDrops
  BY Bounds DEF UpdateTypeOK
<1>3. /\ inbox' \in Seq(Command) /\ Len(inbox') = n + 1
      /\ inbox'[n + 1] = cmd
      /\ \A i \in 1 .. n : inbox'[i] = inbox[i]
  BY <1>1, <1>2
<1>4. /\ \A i \in 1 .. n : inbox[i].conn \in Nat /\ inbox[i].conn < drops
      /\ Busy => req.conn < drops
  BY SmallNumbers DEF Ordered
<1>5. n <= MaxDrops
  <2>1. CASE n = 0
    BY <1>2, <2>1
  <2>2. CASE n > 0
    <3>1. n - 1 <= inbox[n].conn /\ inbox[n].conn < drops /\ inbox[n].conn \in Nat
      BY <1>2, <1>4, <2>2 DEF Ordered
    <3> QED BY <1>2, <3>1
  <2> QED BY <1>2, <2>1, <2>2
<1>6. UpdateTypeOK'
  <2>1. Len(inbox') <= MaxDrops + 1
    BY <1>2, <1>3, <1>5
  <2>2. host' \in [state : HostState, image : Images, last : 0 .. ImageBlocks]
    BY <1>1 DEF HostState
  <2>3. replies' \in Seq(0 .. ImageBlocks)
    OBVIOUS
  <2> QED BY <1>3, <2>1, <2>2, <2>3 DEF UpdateTypeOK, FlashTypeOK
<1>7. Ordered'
  <2>1. \A i \in 1 .. Len(inbox') : i - 1 <= inbox'[i].conn /\ inbox'[i].conn <= drops
    <3>1. n <= drops
      <4>1. CASE n = 0
        BY <1>2, <4>1
      <4>2. CASE n > 0
        <5>1. n - 1 <= inbox[n].conn /\ inbox[n].conn < drops /\ inbox[n].conn \in Nat
          BY <1>2, <1>4, <4>2 DEF Ordered
        <5> QED BY <1>2, <5>1
      <4> QED BY <1>2, <4>1, <4>2
    <3>2. \A i \in 1 .. n : i - 1 <= inbox[i].conn /\ inbox[i].conn <= drops
      BY DEF Ordered
    <3> QED BY <1>1, <1>2, <1>3, <3>1, <3>2
  <2>2. \A i, j \in 1 .. Len(inbox') : i < j => inbox'[i].conn < inbox'[j].conn
    <3>1. SUFFICES ASSUME NEW i \in 1 .. n + 1, NEW j \in 1 .. n + 1, i < j
                   PROVE  inbox'[i].conn < inbox'[j].conn
      BY <1>3
    <3>2. i \in 1 .. n
      BY <1>2, <3>1
    <3>3. CASE j = n + 1
      BY <1>1, <1>3, <1>4, <3>2, <3>3
    <3>4. CASE j \in 1 .. n
      BY <1>3, <3>1, <3>2, <3>4 DEF Ordered
    <3> QED BY <1>2, <3>3, <3>4
  <2>3. Busy => \A i \in 1 .. Len(inbox') : req.conn < inbox'[i].conn
    <3>1. SUFFICES ASSUME Busy, NEW i \in 1 .. n + 1 PROVE req.conn < inbox'[i].conn
      BY <1>3
    <3>2. CASE i = n + 1
      BY <1>1, <1>3, <1>4, <3>1, <3>2
    <3>3. CASE i \in 1 .. n
      BY <1>3, <3>1, <3>3 DEF Ordered
    <3> QED BY <1>2, <3>2, <3>3
  <2>4. Len(replies') = 0
    OBVIOUS
  <2> QED BY <2>1, <2>2, <2>3, <2>4 DEF Ordered, Busy
<1>8. Within'
  <2>1. /\ Limit(cmd) = Room(drops) + k /\ Limit(cmd) \in Nat /\ Packet(cmd) \in {0, 1}
        /\ Packet(cmd) <= k /\ k \in Nat /\ Sent' = Limit(cmd) /\ Room(drops) \in Nat
    <3>1. k \in Nat
      BY Geometry
    <3> QED BY <1>1, <1>2, <3>1, CommandFields, RoomType DEF Limit, Sent
  <2>2. Sent + Packet(cmd) <= Limit(cmd) /\ Sent \in Nat
    <3>1. CASE link = "down"
      BY <2>1, <3>1 DEF Sent, Packet
    <3>2. CASE link = "up"
      <4>1. host.last \in Nat /\ k = host.last + 1
        BY <3>2, Geometry DEF UpdateTypeOK
      <4>2. Sent = Room(drops) + host.last
        BY <3>2 DEF Sent
      <4> QED BY <2>1, <4>1, <4>2
    <3> QED BY <3>1, <3>2 DEF UpdateTypeOK
  <2>3. /\ UnderWay' = UnderWay /\ Limit(req)' = Limit(req)
        /\ \A i \in 1 .. n : /\ Limit(inbox[i])' = Limit(inbox[i])
                             /\ Packet(inbox[i])' = Packet(inbox[i])
        /\ Limit(inbox'[n + 1]) = Limit(cmd) /\ Packet(inbox'[n + 1]) = Packet(cmd)
    <3>1. n + 1 \in 1 .. Len(inbox')
      BY <1>2, <1>3
    <3>2. UnderWay' = UnderWay /\ Limit(req)' = Limit(req)
      BY DEF UnderWay, Limit
    <3>3. \A i \in 1 .. n : /\ Limit(inbox[i])' = Limit(inbox[i])
                            /\ Packet(inbox[i])' = Packet(inbox[i])
      BY <1>3 DEF Limit, Packet
    <3>4. Limit(inbox'[n + 1]) = Limit(cmd) /\ Packet(inbox'[n + 1]) = Packet(cmd)
      BY <1>3 DEF Limit, Packet
    <3> QED BY <3>2, <3>3, <3>4
  <2>4. /\ updata_shift \in Nat /\ UnderWay \in {0, 1} /\ Limit(req) \in Nat
        /\ \A i \in 1 .. n : Limit(inbox[i]) \in Nat /\ Packet(inbox[i]) \in {0, 1}
    BY SmallNumbers
  <2>5. /\ updata_shift + UnderWay <= Limit(req) /\ (task = "program" => req.num > 0)
        /\ updata_shift + UnderWay <= Sent
        /\ \A i \in 1 .. n : /\ updata_shift + UnderWay + Packet(inbox[i]) <= Limit(inbox[i])
                             /\ Limit(inbox[i]) <= Sent
        /\ \A i, j \in 1 .. n : i < j => Limit(inbox[i]) + Packet(inbox[j]) <= Limit(inbox[j])
    BY DEF Within
  <2> HIDE DEF TypeInv, n
  <2>6. ASSUME NEW i \in 1 .. n + 1
        PROVE  /\ updata_shift + UnderWay + Packet(inbox[i])' <= Limit(inbox[i])'
               /\ Limit(inbox[i])' <= Sent'
    <3>1. CASE i = n + 1
      <4>1. PICK s \in Nat, u \in {0, 1}, t \in Nat, l \in Nat, p \in {0, 1} :
              /\ s = updata_shift /\ u = UnderWay /\ t = Sent
              /\ l = Limit(cmd) /\ p = Packet(cmd)
        BY <2>1, <2>2, <2>4
      <4>2. s + u <= t /\ t + p <= l
        BY <2>2, <2>5, <4>1
      <4>3. s + u + p <= l /\ l <= l
        BY <4>2
      <4> QED BY <2>1, <2>3, <3>1, <4>1, <4>3
    <3>2. CASE i \in 1 .. n
      BY <2>1, <2>2, <2>3, <2>4, <2>5, <3>2
    <3> QED BY <1>2, <3>1, <3>2
  <2>7. ASSUME NEW i \in 1 .. n + 1, NEW j \in 1 .. n + 1, i < j
        PROVE  Limit(inbox[i])' + Packet(inbox[j])' <= Limit(inbox[j])'
    <3>1. i \in 1 .. n
      BY <1>2, <2>7
    <3>2. CASE j = n + 1
      <4>1. PICK m \in Nat, t \in Nat, l \in Nat, p \in {0, 1} :
              m = Limit(inbox[i]) /\ t = Sent /\ l = Limit(cmd) /\ p = Packet(cmd)
        BY <2>1, <2>2, <2>4, <3>1
      <4>2. m <= t /\ t + p <= l
        BY <2>2, <2>5, <3>1, <4>1
      <4>3. m + p <= l
        BY <4>2
      <4> QED BY <2>3, <3>1, <3>2, <4>1, <4>3
    <3>3. CASE j \in 1 .. n
      BY <2>3, <2>5, <2>7, <3>1, <3>3
    <3> QED BY <1>2, <3>2, <3>3
  <2>8. updata_shift + UnderWay <= Sent'
    BY <2>1, <2>2, <2>4, <2>5
  <2> QED BY <1>3, <2>3, <2>5, <2>6, <2>7, <2>8 DEF Within
<1> QED BY <1>6, <1>7, <1>8

LEMMA HostStartKeeps ==
  ASSUME TypeInv, NEW v \in Images, HostStart(v)
  PROVE  TypeInv'
<1>1. /\ link = "down" /\ link' = "up" /\ Send(v, 0)
      /\ UNCHANGED <<flash, flag, sr, faults, task, req, updata_shift, pack_amount, drops, replies>>
  BY DEF HostStart, flashVars, ram
<1>2. replies = <<>> /\ 0 \in 0 .. ImageBlocks
  BY <1>1, Geometry DEF TypeInv, Ordered
<1> QED BY <1>1, <1>2, SendKeeps

LEMMA EmptyTail ==
  ASSUME NEW S, NEW s \in Seq(S), s # <<>>, Len(s) <= 1
  PROVE  Tail(s) = <<>>
<1>1. PICK n \in Nat : n = Len(s)
  OBVIOUS
<1>2. n # 0
  BY <1>1
<1>3. n = 1
  BY <1>1, <1>2
<1>4. Tail(s) \in Seq(S) /\ Len(Tail(s)) = Len(s) - 1
  OBVIOUS
<1>5. Len(Tail(s)) = 0
  BY <1>1, <1>3, <1>4
<1> QED BY <1>4, <1>5

\* The one reply there is reaches a host that is still connected.
LEMMA AnswerTaken ==
  ASSUME TypeInv, HostReply
  PROVE  link = "up" /\ replies' = <<>>
<1>1. replies \in Seq(0 .. ImageBlocks) /\ Len(replies) \in Nat /\ replies # <<>>
  BY DEF HostReply, TypeInv, UpdateTypeOK
<1>2. Len(replies) <= 1
  BY DEF TypeInv, Ordered
<1>3. Tail(replies) = <<>>
  BY <1>1, <1>2, EmptyTail
<1> QED BY <1>1, <1>3 DEF HostReply, TypeInv, Ordered, UpdateTypeOK

LEMMA HostReplyKeeps ==
  ASSUME TypeInv, HostReply
  PROVE  TypeInv'
<1> USE DEF TypeInv
<1>1. /\ replies # <<>> /\ replies' = Tail(replies)
      /\ UNCHANGED <<flash, flag, sr, faults, task, req, updata_shift, pack_amount, link, drops>>
  BY DEF HostReply, flashVars, ram
<1>2. link = "up" /\ replies' = <<>>
  BY AnswerTaken
<1>3. CASE host.last < ImageBlocks
  <2>1. host.last + 1 \in 0 .. ImageBlocks /\ host.image \in Images
    BY <1>3, Geometry DEF UpdateTypeOK
  <2>2. Send(host.image, host.last + 1)
    BY <1>3 DEF HostReply
  <2> HIDE DEF TypeInv
  <2> QED BY <1>1, <1>2, <2>1, <2>2, SendKeeps
<1>4. CASE ~(host.last < ImageBlocks)
  <2>1. host' = [host EXCEPT !.state = "done"] /\ inbox' = inbox
    BY <1>4 DEF HostReply
  <2>2. host' \in [state : HostState, image : Images, last : 0 .. ImageBlocks]
        /\ host'.last = host.last
    BY <2>1 DEF UpdateTypeOK, HostState
  <2>3. replies' \in Seq(0 .. ImageBlocks)
    BY <1>2
  <2>4. UpdateTypeOK'
    BY <1>1, <2>1, <2>2, <2>3 DEF UpdateTypeOK, FlashTypeOK
  <2>5. Ordered'
    <3>1. Len(replies') = 0 /\ replies' = <<>> /\ link' # "down"
      BY <1>1, <1>2
    <3> QED BY <1>1, <2>1, <3>1 DEF Ordered, Busy
  <2>6. Within'
    BY <1>1, <2>1, <2>2 DEF Within, UnderWay, Limit, Packet, Sent
  <2> QED BY <2>4, <2>5, <2>6
<1> QED BY <1>3, <1>4

\* A connection that breaks leaves room for the packets of the next.
LEMMA LostKeeps ==
  ASSUME TypeInv, ConnectionLost
  PROVE  TypeInv'
<1> USE DEF TypeInv
<1>1. /\ link = "up" /\ link' = "down" /\ drops' = drops + 1 /\ drops < MaxDrops
      /\ replies' = <<>> /\ inbox' \in {inbox, <<>>}
      /\ host' = [host EXCEPT !.state = "lost"]
      /\ UNCHANGED <<flash, flag, sr, faults, task, req, updata_shift, pack_amount>>
  BY DEF ConnectionLost, flashVars, ram
<1>2. drops \in Nat /\ drops + 1 \in Nat /\ drops' \in 0 .. MaxDrops
  BY <1>1, Bounds DEF UpdateTypeOK
<1>3. host' \in [state : HostState, image : Images, last : 0 .. ImageBlocks]
  BY <1>1 DEF UpdateTypeOK, HostState
<1>4. /\ inbox' \in Seq(Command) /\ Len(inbox') <= MaxDrops + 1
      /\ \A i \in 1 .. Len(inbox') : i \in 1 .. Len(inbox) /\ inbox'[i] = inbox[i]
  <2>1. CASE inbox' = inbox
    BY <2>1 DEF UpdateTypeOK
  <2>2. CASE inbox' = <<>>
    <3>1. Len(inbox') = 0
      BY <2>2
    <3> QED BY <2>2, <3>1, Bounds
  <2> QED BY <1>1, <2>1, <2>2
<1>5. UpdateTypeOK'
  <2>1. replies' \in Seq(0 .. ImageBlocks)
    BY <1>1
  <2> QED BY <1>1, <1>2, <1>3, <1>4, <2>1 DEF UpdateTypeOK, FlashTypeOK
<1>6. \A i \in 1 .. Len(inbox') : inbox'[i].conn <= drops /\ inbox'[i].conn < drops'
  <2>1. \A i \in 1 .. Len(inbox) : inbox[i].conn <= drops /\ inbox[i].conn \in Nat
    BY SmallNumbers DEF Ordered
  <2> QED BY <1>1, <1>2, <1>4, <2>1
<1>7. Busy => req.conn <= drops /\ req.conn < drops'
  <2>1. req.conn \in Nat
    BY CommandFields DEF UpdateTypeOK
  <2> QED BY <1>1, <1>2, <2>1 DEF Ordered
<1>8. Ordered'
  <2>1. Len(replies') = 0
    BY <1>1
  <2>2. /\ \A i \in 1 .. Len(inbox') : i - 1 <= inbox'[i].conn /\ inbox'[i].conn <= drops'
        /\ \A i, j \in 1 .. Len(inbox') : i < j => inbox'[i].conn < inbox'[j].conn
        /\ Busy => req.conn <= drops' /\ (\A i \in 1 .. Len(inbox') : req.conn < inbox'[i].conn)
    <3>1. \A i \in 1 .. Len(inbox') : inbox'[i].conn <= drops'
      BY <1>2, <1>4, <1>6, <1>1, SmallNumbers
    <3>2. Busy => req.conn <= drops'
      BY <1>1, <1>2, <1>7, CommandFields DEF UpdateTypeOK
    <3> QED BY <1>4, <3>1, <3>2 DEF Ordered
  <2> QED BY <1>1, <1>6, <1>7, <2>1, <2>2 DEF Ordered, Busy
<1>9. Within'
  <2>1. /\ Sent \in Nat /\ Sent <= Room(drops) + ImageBlocks /\ Room(drops) \in Nat
        /\ Room(drops + 1) \in Nat /\ ImageBlocks \in Nat
    BY <1>2, SentFits, RoomType, Geometry DEF UpdateTypeOK
  <2>2. Room(drops) + ImageBlocks <= Room(drops + 1)
    BY <1>2, RoomMore
  <2>3. Sent' = Room(drops + 1)
    BY <1>1, <2>1 DEF Sent
  <2> HIDE DEF TypeInv
  <2>4. Sent <= Sent' /\ Sent' \in Nat
    BY <2>1, <2>2, <2>3
  <2>5. /\ UnderWay' = UnderWay /\ Limit(req)' = Limit(req) /\ req' = req /\ task' = task
        /\ updata_shift' = updata_shift
        /\ \A i \in 1 .. Len(inbox') : /\ Limit(inbox[i])' = Limit(inbox[i])
                                       /\ Packet(inbox[i])' = Packet(inbox[i])
    BY <1>1, <1>4 DEF UnderWay, Limit, Packet
  <2>6. /\ updata_shift \in Nat /\ UnderWay \in {0, 1}
        /\ \A i \in 1 .. Len(inbox) : Limit(inbox[i]) \in Nat
    BY SmallNumbers DEF TypeInv
  <2>7. updata_shift + UnderWay <= Sent'
    BY <2>1, <2>4, <2>6 DEF Within, TypeInv
  <2>8. \A i \in 1 .. Len(inbox') : Limit(inbox[i])' <= Sent'
    BY <1>4, <2>1, <2>4, <2>5, <2>6 DEF Within, TypeInv
  <2> QED BY <1>4, <2>5, <2>7, <2>8 DEF Within, TypeInv
<1> QED BY <1>5, <1>8, <1>9

\* What the boot program installs is an image of the flash.
LEMMA BootKeeps ==
  ASSUME TypeInv, Boot
  PROVE  TypeInv'
<1> USE DEF TypeInv
<1>1. /\ task = "boot" /\ task' = "recv" /\ flag' = "clear"
      /\ UNCHANGED <<sr, faults, req, updata_shift, pack_amount, net>>
  BY DEF Boot
<1>2. flash' \in [Address -> Content]
  <2>1. flash \in [Address -> Content] /\ Erased \in Content
    BY DEF UpdateTypeOK, FlashTypeOK, Content
  <2>2. ASSUME NEW a \in Address, a \in App_Address .. App_Address + CopyBlocks - 1
        PROVE  a + Updata_Program_Address \in Address
    BY <2>2, Geometry DEF Address, App_Address, Updata_Program_Address
  <2>3. ASSUME NEW a \in Address, a \notin App_SECTOR_1 \cup App_SECTOR_2 \cup Area
        PROVE  a - Backdata_Program_Address \in Address
    BY <2>3, Geometry
       DEF Address, App_SECTOR_1, App_SECTOR_2, Area, Updata_Program_SECTOR_1,
           Updata_Program_SECTOR_2, Sector, App_Address, Updata_Program_Address, Backdata_Program_Address
  <2>4. InstalledFlash \in [Address -> Content]
    BY <2>1, <2>2, <2>3 DEF InstalledFlash
  <2> QED BY <2>1, <2>4 DEF Boot
<1>3. UpdateTypeOK'
  BY <1>1, <1>2 DEF UpdateTypeOK, FlashTypeOK, Task, net
<1>4. Ordered'
  BY <1>1 DEF Ordered, Busy, net
<1>5. Within'
  BY <1>1 DEF Within, UnderWay, Limit, Packet, Sent, net
<1> QED BY <1>3, <1>4, <1>5

LEMMA InitTypes == UpdateInit => TypeInv
<1> SUFFICES ASSUME UpdateInit PROVE TypeInv
  OBVIOUS
<1>1. PICK v \in Images :
        /\ flash = [a \in Address |-> IF a < ImageBlocks THEN Block(v, a) ELSE Erased]
        /\ host = [state |-> "idle", image |-> v, last |-> 0]
        /\ req = [num |-> 0, image |-> v, conn |-> 0]
  BY DEF UpdateInit
<1>2. /\ flag = "clear" /\ sr = "ok" /\ faults = 0
      /\ task = "boot" /\ updata_shift = 0 /\ pack_amount = 0
      /\ link = "down" /\ drops = 0 /\ inbox = <<>> /\ replies = <<>>
  BY DEF UpdateInit
<1>3. flash \in [Address -> Content]
  <2>1. \A a \in Address : a < ImageBlocks => a \in 0 .. ImageBlocks - 1
    BY Geometry DEF Address
  <2> QED BY <1>1, <2>1 DEF Content, ImageData
<1>4. /\ 0 \in 0 .. ImageBlocks /\ 0 \in 0 .. MaxDrops /\ 0 \in 0 .. MaxFaults
      /\ 0 \in 0 .. (MaxDrops + 1) * ImageBlocks
  BY Geometry, Bounds, FlashAssumption
<1>5. Len(inbox) = 0 /\ Len(replies) = 0 /\ inbox \in Seq(Command)
      /\ replies \in Seq(0 .. ImageBlocks) /\ 0 <= MaxDrops + 1
  BY <1>2, Bounds
<1>6. UpdateTypeOK
  BY <1>1, <1>2, <1>3, <1>4, <1>5 DEF UpdateTypeOK, FlashTypeOK, Task, Command, HostState
<1>7. Ordered
  BY <1>2, <1>5 DEF Ordered, Busy
<1>8. Within
  <2>1. UnderWay = 0 /\ Limit(req) \in Nat /\ Sent \in Nat
    BY <1>2, <1>6, SmallNumbers DEF UnderWay
  <2> QED BY <1>2, <1>5, <2>1 DEF Within
<1> QED BY <1>6, <1>7, <1>8 DEF TypeInv

LEMMA NextTypes ==
  ASSUME TypeInv, [UpdateNext]_updateVars
  PROVE  TypeInv'
<1>1. CASE Boot
  BY <1>1, BootKeeps
<1>2. CASE ServerThread
  BY <1>2, ReceiveKeeps, FlashSteps, ProgramKeeps, ReplyKeeps, PowerLossKeeps DEF ServerThread
<1>3. CASE HostAndNetwork
  BY <1>3, HostReplyKeeps, LostKeeps, HostStartKeeps DEF HostAndNetwork
<1>4. CASE UpdatePowerLoss
  BY <1>4, PowerLossKeeps
<1>5. CASE UNCHANGED updateVars
  BY <1>5 DEF updateVars, TypeInv, UpdateTypeOK, FlashTypeOK, Ordered, Busy, Within, UnderWay,
              Limit, Packet, Sent
<1> QED BY <1>1, <1>2, <1>3, <1>4, <1>5 DEF UpdateNext

(***************************************************************************)
(* The state is of its type: in particular the offset never gets ahead of  *)
(* the packets sent, so that no packet is written behind the flash,        *)
(* whatever writes fail and however often a host starts again.             *)
(***************************************************************************)
THEOREM UpdateTypes == UpdateSpec => []UpdateTypeOK
<1>1. UpdateInit => TypeInv
  BY InitTypes
<1>2. TypeInv /\ [UpdateNext]_updateVars => TypeInv'
  BY NextTypes
<1>3. TypeInv => UpdateTypeOK
  BY DEF TypeInv
<1> QED BY <1>1, <1>2, <1>3, PTL DEF UpdateSpec

-----------------------------------------------------------------------------
(* The control of one transfer.                                            *)

LEMMA HostFields ==
  ASSUME TypeInv
  PROVE  /\ host.last \in 0 .. ImageBlocks /\ host.last \in Nat /\ ImageBlocks \in Nat
         /\ host.state \in HostState /\ host.image \in Images
         /\ updata_shift \in Nat
         /\ DOMAIN host = {"state", "image", "last"}
BY Geometry, SmallNumbers DEF TypeInv, UpdateTypeOK

\* The command the host waits for is the one received.
LEMMA ReceiveTransfer ==
  ASSUME TypeInv, Transfer, Receive
  PROVE  Transfer'
<1> USE DEF Transfer
<1>1. /\ task = "recv" /\ inbox # <<>> /\ req' = Head(inbox) /\ inbox' = Tail(inbox)
      /\ UNCHANGED <<updata_shift, link, drops, replies, host>>
  BY DEF Receive
<1>2. /\ replies = <<>> /\ Len(inbox) = 1 /\ inbox \in Seq(Command)
      /\ inbox[1].num = host.last /\ inbox[1].image = host.image
      /\ IF host.last = 0 THEN updata_shift = 0
         ELSE pack_amount = ImageBlocks /\ updata_shift = host.last - 1
      /\ host.state # "idle" /\ host.state # "done"
  BY <1>1 DEF Coming, TypeInv, UpdateTypeOK, AtRest, Asked
<1>3. req' = inbox[1] /\ inbox' = <<>>
  <2>1. Head(inbox) = inbox[1] /\ Len(Tail(inbox)) = 0 /\ Tail(inbox) \in Seq(Command)
    BY <1>1, <1>2
  <2> QED BY <1>1, <2>1
<1>4. /\ pack_amount' = ImageBlocks
      /\ IF host.last = 0 THEN task' = "erase_1" ELSE task' = "program"
  <2>1. PackAmount(1024 * ImageBlocks) = ImageBlocks
    BY Geometry DEF PackAmount
  <2>2. PC_DATAHandler(inbox[1])
    BY <1>1, <1>3 DEF Receive
  <2> QED BY <1>2, <2>1, <2>2 DEF PC_DATAHandler
<1>5. AtRest' /\ Coming' /\ Answered'
  BY <1>1, <1>2, <1>3 DEF AtRest, Coming, Answered
<1>6. Handled'
  BY <1>1, <1>2, <1>3, <1>4, HostFields DEF Handled, Busy
<1>7. Asked'
  <2>1. host.state = "waiting" => link = "up" /\ inbox[1].conn = drops
    BY <1>2 DEF Asked
  <2>2. Len(inbox') = 0 /\ task' # "boot" /\ task' # "recv"
    BY <1>3, <1>4
  <2>3. host.state = "lost" => link = "down"
    BY DEF Asked
  <2>4. ASSUME host'.state = "waiting"
        PROVE  /\ link' = "up" /\ req'.conn = drops' /\ \A i \in 1 .. Len(inbox') : FALSE
    <3>1. host.state = "waiting"
      BY <1>1, <2>4
    <3>2. link' = "up" /\ req'.conn = drops'
      BY <1>1, <1>3, <2>1, <3>1
    <3> QED BY <2>2, <3>2
  <2>5. /\ host'.state = "lost" => link' = "down"
        /\ host'.state # "done"
    BY <1>1, <1>2, <2>3
  <2> QED BY <2>2, <2>4, <2>5 DEF Asked
<1> QED BY <1>5, <1>6, <1>7

\* While the thread works on a command nothing else is under way.
LEMMA WorkTransfer ==
  ASSUME TypeInv, Transfer, Busy,
         EraseUpdata1 \/ EraseUpdata2 \/ ResetFlag \/ SetFlag \/ Program_Updata_Area
  PROVE  Transfer'
<1> USE DEF Transfer
<1>1. UNCHANGED <<req, pack_amount, link, drops, inbox, replies, host>>
  BY DEF EraseUpdata1, EraseUpdata2, EraseUpdataSector, ResetFlag, SetFlag,
         Program_Updata_Area, Program,
         net
<1>2. /\ replies = <<>> /\ pack_amount = ImageBlocks /\ req.num = host.last
      /\ req.image = host.image /\ inbox = <<>> /\ host.state # "idle" /\ host.state # "done"
  BY DEF Handled, Coming, AtRest, Asked, Busy
<1>3. /\ Busy' /\ task' # "recv" /\ task' # "boot" /\ task' # "system_reset"
      /\ task' # "program"
      /\ task' \in {"erase_2", "reset_flag"} => host.last = 0 /\ updata_shift' = 0
      /\ task' # "erase_1"
      /\ task' = "reply" => host.last < ImageBlocks /\ updata_shift' = host.last
      /\ task' \in {"set_flag", "last_reply"} => host.last = ImageBlocks
  <2>1. CASE EraseUpdata1 \/ EraseUpdata2
    BY <2>1 DEF EraseUpdata1, EraseUpdata2, EraseUpdataSector, Busy, Handled
  <2>2. CASE ResetFlag
    BY <2>2, Geometry DEF ResetFlag, Busy, Handled
  <2>3. CASE SetFlag
    BY <2>3 DEF SetFlag, Busy, Handled
  <2>4. CASE Program_Updata_Area
    BY <1>2, <2>4, HostFields DEF Program_Updata_Area, Program, Busy, Handled
  <2> QED BY <2>1, <2>2, <2>3, <2>4
<1>4. AtRest' /\ Coming' /\ Answered'
  BY <1>1, <1>2 DEF AtRest, Coming, Answered
<1>5. Handled'
  BY <1>1, <1>2, <1>3 DEF Handled
<1>6. Asked'
  BY <1>1, <1>2, <1>3 DEF Asked
<1> QED BY <1>4, <1>5, <1>6

LEMMA ReplyTransfer ==
  ASSUME TypeInv, Transfer, EthernetReceiveSuccessString
  PROVE  Transfer'
<1> USE DEF Transfer
<1>1. /\ task \in {"reply", "last_reply"} /\ Busy
      /\ task' = IF task = "reply" THEN "recv" ELSE "system_reset"
      /\ UNCHANGED <<req, updata_shift, pack_amount, link, drops, inbox, host>>
  BY DEF EthernetReceiveSuccessString, Busy
<1>2. /\ replies = <<>> /\ pack_amount = ImageBlocks /\ req.num = host.last
      /\ req.image = host.image /\ inbox = <<>> /\ host.state # "idle" /\ host.state # "done"
  BY <1>1 DEF Handled, Coming, AtRest, Asked
<1>3. /\ task = "reply" => host.last < ImageBlocks /\ updata_shift = host.last
      /\ task = "last_reply" => host.last = ImageBlocks
  BY DEF Handled
<1>4. host.state = "waiting" => link = "up" /\ req.conn = drops
  BY <1>1 DEF Asked
<1>5. replies' = IF link = "up" /\ req.conn = drops THEN <<req.num>> ELSE <<>>
  BY <1>2 DEF EthernetReceiveSuccessString, SendReply
<1>6. link = "up" => host.state = "waiting"
  BY <1>2, HostFields DEF Asked, HostState
<1>7. AtRest' /\ Coming'
  BY <1>1, <1>2 DEF AtRest, Coming
<1>8. Handled'
  BY <1>1, <1>2, <1>3 DEF Handled, Busy
<1>9. Answered'
  BY <1>1, <1>2, <1>3, <1>5, <1>6 DEF Answered
<1>10. Asked'
  <2>1. host.state = "waiting" => replies' # <<>>
    BY <1>4, <1>5
  <2> QED BY <1>1, <1>2, <2>1, <1>4 DEF Asked, Busy
<1> QED BY <1>7, <1>8, <1>9, <1>10

LEMMA ResetTransfer ==
  ASSUME TypeInv, Reset
  PROVE  Transfer'
<1>1. /\ task' = "boot" /\ updata_shift' = 0 /\ link' = "down" /\ inbox' = <<>> /\ replies' = <<>>
      /\ host'.state = "idle"
  BY HostFields DEF Reset, TypeInv, UpdateTypeOK
<1> QED BY <1>1 DEF Transfer, AtRest, Coming, Handled, Answered, Asked, Busy

LEMMA BootTransfer ==
  ASSUME TypeInv, Transfer, Boot
  PROVE  Transfer'
<1>1. /\ task = "boot" /\ task' = "recv"
      /\ UNCHANGED <<req, updata_shift, pack_amount, link, drops, inbox, replies, host>>
  BY DEF Boot, net
<1>2. /\ host.state = "idle" /\ link = "down" /\ inbox = <<>> /\ replies = <<>> /\ updata_shift = 0
  BY <1>1 DEF Transfer, Asked, AtRest
<1> QED BY <1>1, <1>2 DEF Transfer, AtRest, Coming, Handled, Answered, Asked, Busy

\* The host starts when the thread waits for a command and none is under way.
LEMMA StartTransfer ==
  ASSUME ~HostRestarts, TypeInv, Transfer, NEW v \in Images, HostStart(v)
  PROVE  Transfer'
<1>1. /\ task = "recv" /\ host.state = "idle" /\ inbox = <<>> /\ replies = <<>>
      /\ updata_shift = 0
  BY DEF HostStart, Transfer, AtRest
<1>2. /\ UNCHANGED <<task, req, updata_shift, pack_amount, drops, replies>> /\ link' = "up"
      /\ host' = [state |-> "waiting", image |-> v, last |-> 0]
      /\ inbox' = Append(inbox, [num |-> 0, image |-> v, conn |-> drops])
  BY DEF HostStart, Send, ram
<1>3. inbox' = <<[num |-> 0, image |-> v, conn |-> drops]>>
  BY <1>1, <1>2
<1>4. /\ Len(inbox') = 1 /\ inbox' # <<>>
      /\ inbox'[1].num = 0 /\ inbox'[1].image = v /\ inbox'[1].conn = drops
  BY <1>3
<1>5. host'.state = "waiting" /\ host'.image = v /\ host'.last = 0
  BY <1>2
<1> QED BY <1>1, <1>2, <1>4, <1>5 DEF Transfer, AtRest, Coming, Handled, Answered, Asked, Busy

LEMMA NextPacketTransfer ==
  ASSUME TypeInv, Transfer, HostReply
  PROVE  Transfer'
<1>1. /\ replies # <<>> /\ replies' = <<>> /\ link = "up"
      /\ UNCHANGED <<task, req, updata_shift, pack_amount, link, drops>>
  BY AnswerTaken DEF HostReply, ram
<1>2. host.state = "waiting" /\ inbox = <<>> /\ ~Busy /\ task # "boot"
  BY <1>1 DEF Transfer, Answered, Coming, Handled, Asked
<1>3. task = "recv" \/ task = "system_reset"
  BY <1>2 DEF Busy
<1>4. CASE host.last < ImageBlocks
  <2>1. task = "recv" /\ pack_amount = ImageBlocks /\ updata_shift = host.last
    BY <1>1, <1>3, <1>4, HostFields DEF Transfer, Handled, Answered
  <2>2. /\ host' = [state |-> "waiting", image |-> host.image, last |-> host.last + 1]
        /\ inbox' = Append(inbox, [num |-> host.last + 1, image |-> host.image, conn |-> drops])
    BY <1>4 DEF HostReply, Send
  <2>3. inbox' = <<[num |-> host.last + 1, image |-> host.image, conn |-> drops]>>
    BY <1>2, <2>2
  <2>4. /\ Len(inbox') = 1 /\ inbox' # <<>>
        /\ inbox'[1].num = host.last + 1 /\ inbox'[1].image = host.image /\ inbox'[1].conn = drops
    BY <2>3
  <2>5. /\ host'.state = "waiting" /\ host'.image = host.image /\ host'.last = host.last + 1
        /\ host'.last # 0 /\ updata_shift' = host'.last - 1
    BY <1>1, <2>1, <2>2, HostFields
  <2> QED BY <1>1, <2>1, <2>4, <2>5
          DEF Transfer, AtRest, Coming, Handled, Answered, Asked, Busy
<1>5. CASE ~(host.last < ImageBlocks)
  <2>1. host' = [host EXCEPT !.state = "done"] /\ inbox' = inbox
    BY <1>5 DEF HostReply
  <2>2. host'.state = "done" /\ host'.image = host.image /\ host'.last = host.last
    BY <2>1, HostFields
  <2>3. task = "system_reset"
    BY <1>1, <1>3, <1>5 DEF Transfer, Answered
  <2> QED BY <1>1, <1>2, <2>1, <2>2, <2>3
          DEF Transfer, AtRest, Coming, Handled, Answered, Asked, Busy
<1> QED BY <1>4, <1>5

LEMMA LostTransfer ==
  ASSUME TypeInv, Transfer, ConnectionLost
  PROVE  Transfer'
<1>1. /\ link = "up" /\ link' = "down" /\ replies' = <<>> /\ inbox' \in {inbox, <<>>}
      /\ host' = [host EXCEPT !.state = "lost"]
      /\ UNCHANGED <<task, req, updata_shift, pack_amount>>
  BY DEF ConnectionLost, ram
<1>2. host'.state = "lost" /\ host'.image = host.image /\ host'.last = host.last
  BY <1>1, HostFields
<1>3. task # "boot"
  BY <1>1 DEF Transfer, Asked, AtRest
<1>4. Coming'
  BY <1>1, <1>2 DEF Transfer, Coming
<1>5. Handled'
  BY <1>1, <1>2 DEF Transfer, Handled, Busy
<1> QED BY <1>1, <1>2, <1>3, <1>4, <1>5 DEF Transfer, AtRest, Answered, Asked

LEMMA InitTransfer == UpdateInit => Transfer
BY DEF UpdateInit, Transfer, AtRest, Coming, Handled, Answered, Asked, Busy

LEMMA NextTransfer ==
  ASSUME ~HostRestarts, TypeInv, Transfer, [UpdateNext]_updateVars
  PROVE  Transfer'
<1>1. CASE Boot
  BY <1>1, BootTransfer
<1>2. CASE ServerThread
  <2>1. CASE EraseUpdata1 \/ EraseUpdata2 \/ ResetFlag \/ SetFlag \/ Program_Updata_Area
    <3>1. Busy
      BY <2>1 DEF EraseUpdata1, EraseUpdata2, EraseUpdataSector, ResetFlag, SetFlag,
                  Program_Updata_Area, Program, Busy
    <3> QED BY <2>1, <3>1, WorkTransfer
  <2> QED BY <1>2, <2>1, ReceiveTransfer, ReplyTransfer, ResetTransfer
          DEF ServerThread, System_Reset
<1>3. CASE HostAndNetwork
  BY <1>3, NextPacketTransfer, LostTransfer, StartTransfer DEF HostAndNetwork
<1>4. CASE UpdatePowerLoss
  BY <1>4, ResetTransfer DEF UpdatePowerLoss
<1>5. CASE UNCHANGED updateVars
  BY <1>5 DEF updateVars, Transfer, AtRest, Coming, Handled, Answered, Asked, Busy
<1> QED BY <1>1, <1>2, <1>3, <1>4, <1>5 DEF UpdateNext

\* A step of a running application writes nothing but the update area.
LEMMA WritesArea ==
  ASSUME TypeInv, Transfer, [UpdateNext]_updateVars, task # "boot"
  PROVE  \A a \in Address \ Area : flash'[a] = flash[a]
<1>1. FlashTypeOK
  BY DEF TypeInv, UpdateTypeOK
<1>2. CASE UNCHANGED flash
  BY <1>2
<1>3. CASE \E sector \in {Updata_Program_SECTOR_1, Updata_Program_SECTOR_2} :
             FLASH_EraseSector(sector) \/ TornErase(sector)
  BY <1>1, <1>3, EraseSpares DEF Area
<1>4. CASE /\ task = "program"
           /\ \E d : \/ FLASH_ProgramByte(Updata_Program_Address + updata_shift, d)
                     \/ TornProgram(Updata_Program_Address + updata_shift)
  <2>1. updata_shift < ImageBlocks
    BY <1>4, HostFields DEF Transfer, Handled
  <2>2. Updata_Program_Address + updata_shift \in Area
    BY <2>1, HostFields, Geometry
       DEF Area, Updata_Program_SECTOR_1, Updata_Program_SECTOR_2, Sector, Updata_Program_Address
  <2>3. Updata_Program_Address + updata_shift \in Address
    BY <1>4, ProgramAddress
  <2> QED BY <1>1, <1>4, <2>2, <2>3, ProgramSpares
<1>5. CASE Program_Updata_Area
  BY <1>4, <1>5 DEF Program_Updata_Area, Program
<1>6. CASE EraseUpdata1 \/ EraseUpdata2
  BY <1>3, <1>6 DEF EraseUpdata1, EraseUpdata2, EraseUpdataSector
<1>7. CASE ResetFlag \/ SetFlag
  BY <1>2, <1>7 DEF ResetFlag, SetFlag, Reset_Updata_Flag, Set_Updata_Flag, Refused, flashVars
<1>8. CASE Receive \/ EthernetReceiveSuccessString \/ System_Reset
  BY <1>2, <1>8 DEF Receive, EthernetReceiveSuccessString, System_Reset, flashVars
<1>9. CASE HostAndNetwork
  BY <1>2, <1>9 DEF HostAndNetwork, HostReply, HostStart, ConnectionLost, flashVars
<1>10. CASE UpdatePowerLoss
  <2>1. TornUpdate \/ UNCHANGED flash
    BY <1>10 DEF UpdatePowerLoss
  <2> QED BY <1>2, <1>3, <1>4, <2>1 DEF TornUpdate, TornReset, TornSet
<1>11. CASE UNCHANGED updateVars
  BY <1>2, <1>11 DEF updateVars
<1> QED BY <1>5, <1>6, <1>7, <1>8, <1>9, <1>10, <1>11 DEF UpdateNext, Boot, ServerThread

(***************************************************************************)
(* The application program writes nothing but the update area, whatever    *)
(* writes fail, if the host leaves a lost transfer until the device has    *)
(* been restarted.                                                         *)
(***************************************************************************)
THEOREM UpdateStaysInArea == ASSUME ~HostRestarts PROVE UpdateSpec => StaysInUpdateArea
<1>1. UpdateInit => TypeInv /\ Transfer
  BY InitTypes, InitTransfer
<1>2. TypeInv /\ Transfer /\ [UpdateNext]_updateVars => (TypeInv /\ Transfer)'
  BY NextTypes, NextTransfer
<1>3. TypeInv /\ Transfer /\ [UpdateNext]_updateVars
        => [task # "boot" => \A a \in Address \ Area : flash'[a] = flash[a]]_updateVars
  BY WritesArea
<1> QED BY <1>1, <1>2, <1>3, PTL DEF UpdateSpec, StaysInUpdateArea

-----------------------------------------------------------------------------
(* What the flash holds, while no write fails.                             *)

DataInv == TypeInv /\ Transfer /\ Stored /\ FlagKept

LEMMA AreaAddress ==
  /\ Area \subseteq Address
  /\ \A a \in Area : ~(a < Updata_Program_Address + 0)
  /\ \A n \in Nat : n < ImageBlocks =>
       /\ Updata_Program_Address + n \in Area
       /\ ~(Updata_Program_Address + n < Updata_Program_Address + n)
       /\ \A a \in Area : a # Updata_Program_Address + n =>
            (a < Updata_Program_Address + (n + 1) <=> a < Updata_Program_Address + n)
BY Geometry DEF Area, Address, Updata_Program_SECTOR_1, Updata_Program_SECTOR_2, Sector,
                Updata_Program_Address

LEMMA ReceiveData ==
  ASSUME DataInv, Receive
  PROVE  Stored' /\ FlagKept'
<1>1. /\ task = "recv" /\ inbox # <<>> /\ flash' = flash /\ host' = host
      /\ UNCHANGED <<flag, sr, updata_shift, replies>>
  BY DEF Receive, flashVars
<1>2. flag = "clear" /\ replies = <<>> /\ (host.last > 0 => Staged(updata_shift))
  BY <1>1 DEF DataInv, FlagKept, Stored, Transfer, Coming, TypeInv, UpdateTypeOK, FlashTypeOK
<1>3. inbox' = <<>> /\ (task' = "erase_1" \/ (task' = "program" /\ host.last > 0))
  <2>1. /\ inbox \in Seq(Command) /\ Len(inbox) = 1 /\ inbox[1].num = host.last
    BY <1>1 DEF DataInv, TypeInv, UpdateTypeOK, Transfer, Coming
  <2>2. Head(inbox) = inbox[1] /\ inbox' = <<>>
    <3>1. Len(inbox) <= 1
      BY <2>1
    <3>2. Head(inbox) = inbox[1]
      BY <1>1, <2>1
    <3> QED BY <1>1, <2>1, <3>1, <3>2, EmptyTail DEF Receive
  <2>3. PC_DATAHandler(inbox[1])
    BY <2>2 DEF Receive
  <2>4. host.last # 0 => host.last > 0
    BY HostFields DEF DataInv
  <2> QED BY <2>1, <2>2, <2>3, <2>4 DEF PC_DATAHandler
<1>4. Staged(updata_shift)' <=> Staged(updata_shift)
  BY <1>1 DEF Staged
<1> QED BY <1>1, <1>2, <1>3, <1>4 DEF Stored, FlagKept, DataInv

LEMMA EraseData ==
  ASSUME NoFault, DataInv, EraseUpdata1 \/ EraseUpdata2
  PROVE  Stored' /\ FlagKept'
<1>1. /\ FlashTypeOK /\ sr = "ok" /\ flag = "clear"
      /\ inbox = <<>> /\ replies = <<>> /\ updata_shift = 0
      /\ UNCHANGED <<updata_shift, inbox, replies, host>>
  BY DEF EraseUpdata1, EraseUpdata2, EraseUpdataSector, net, DataInv, TypeInv, UpdateTypeOK,
         FlashTypeOK,
         FlagKept, Transfer, Coming, Handled, Busy
<1>2. CASE EraseUpdata1
  <2>1. \A a \in Address : a \in Updata_Program_SECTOR_1 => flash'[a] = Erased
    BY <1>1, <1>2, SoundErase DEF EraseUpdata1, EraseUpdataSector
  <2>2. flag' = "clear" /\ sr' = "ok" /\ task' = "erase_2"
    BY <1>1, <1>2, SoundErase DEF EraseUpdata1, EraseUpdataSector
  <2> QED BY <1>1, <2>1, <2>2, AreaAddress DEF Stored, FlagKept, Area
<1>3. CASE EraseUpdata2
  <2>1. \A a \in Address : flash'[a] = IF a \in Updata_Program_SECTOR_2 THEN Erased ELSE flash[a]
    BY <1>1, <1>3, SoundErase DEF EraseUpdata2, EraseUpdataSector
  <2>2. flag' = "clear" /\ sr' = "ok" /\ task' = "reset_flag"
    BY <1>1, <1>3, SoundErase DEF EraseUpdata2, EraseUpdataSector
  <2>3. \A a \in Updata_Program_SECTOR_1 : flash[a] = Erased
    BY <1>3 DEF EraseUpdata2, EraseUpdataSector, DataInv, Stored
  <2>4. \A a \in Area : flash'[a] = Erased
    BY <2>1, <2>3, AreaAddress DEF Area
  <2>5. Staged(updata_shift)'
    BY <1>1, <2>4, AreaAddress DEF Staged
  <2> QED BY <1>1, <2>2, <2>5 DEF Stored, FlagKept
<1> QED BY <1>2, <1>3

LEMMA FlagData ==
  ASSUME NoFault, DataInv, ResetFlag \/ SetFlag
  PROVE  Stored' /\ FlagKept'
<1>1. /\ sr = "ok" /\ inbox = <<>> /\ replies = <<>>
      /\ UNCHANGED <<updata_shift, inbox, replies, host>>
  BY DEF ResetFlag, SetFlag, net, DataInv, FlagKept, Transfer, Coming, Handled, Busy
<1>2. \A n : flash' = flash => (Staged(n)' <=> Staged(n))
  BY <1>1 DEF Staged
<1>3. CASE ResetFlag
  <2>1. flag' = "clear" /\ flash' = flash /\ sr' = "ok" /\ task' = "reply"
    BY <1>1, <1>3, SoundReset DEF ResetFlag
  <2>2. Staged(updata_shift)'
    <3>1. Staged(updata_shift)
      BY <1>3 DEF ResetFlag, DataInv, Stored
    <3> QED BY <1>1, <2>1, <3>1 DEF Staged
  <2> QED BY <1>1, <2>1, <2>2 DEF Stored, FlagKept
<1>4. CASE SetFlag
  <2>1. flag' = "set" /\ flash' = flash /\ sr' = "ok" /\ task' = "last_reply"
    BY <1>1, <1>4, SoundSet DEF SetFlag
  <2>2. Staged(ImageBlocks)'
    <3>1. Staged(ImageBlocks)
      BY <1>4 DEF SetFlag, DataInv, Stored
    <3> QED BY <1>1, <2>1, <3>1 DEF Staged
  <2> QED BY <1>1, <2>1, <2>2 DEF Stored, FlagKept
<1> QED BY <1>3, <1>4

\* The packet goes where the previous one ended.
LEMMA ProgramData ==
  ASSUME NoFault, DataInv, Program_Updata_Area
  PROVE  Stored' /\ FlagKept'
<1> DEFINE n == updata_shift
           here == Updata_Program_Address + updata_shift
<1>1. /\ FlashTypeOK /\ sr = "ok" /\ flag = "clear" /\ task = "program"
      /\ inbox = <<>> /\ replies = <<>> /\ Staged(updata_shift)
      /\ UNCHANGED <<inbox, replies, host>> /\ updata_shift' = updata_shift + 1
      /\ task' \in {"set_flag", "reply"}
      /\ FLASH_ProgramByte(here, Block(req.image, req.num - 1))
  BY DEF Program_Updata_Area, Program, net, DataInv, TypeInv, UpdateTypeOK, FlashTypeOK, FlagKept,
         Stored, Transfer, Coming, Handled, Busy
<1>2. /\ n \in Nat /\ n < ImageBlocks /\ n = req.num - 1 /\ req.image = host.image
      /\ host.last = n + 1
  <2>1. /\ updata_shift = host.last - 1 /\ req.num = host.last /\ req.image = host.image
        /\ host.last \in 0 .. ImageBlocks /\ updata_shift \in Nat
    BY <1>1, HostFields DEF DataInv, Transfer, Handled, Busy
  <2> QED BY <2>1, Geometry
<1>3. task' = "set_flag" => n + 1 = ImageBlocks
  BY <1>1, <1>2 DEF Program_Updata_Area, Program, DataInv, Transfer, Handled, Busy
<1>4. here \in Address /\ here \in Area
  BY <1>2, AreaAddress
<1>5. flash[here] = Erased
  BY <1>1, <1>2, <1>4, AreaAddress DEF Staged
<1>6. /\ \A b \in Address \ {here} : flash'[b] = flash[b]
      /\ flash'[here] = Block(host.image, n) /\ flag' = "clear" /\ sr' = "ok"
  BY <1>1, <1>2, <1>4, <1>5, SoundProgram
<1>7. ASSUME NEW a \in Area
      PROVE  flash'[a] = IF a < Updata_Program_Address + (n + 1)
                         THEN Block(host.image, a - Updata_Program_Address) ELSE Erased
  <2>1. CASE a = here
    <3>1. here < Updata_Program_Address + (n + 1) /\ here - Updata_Program_Address = n
      BY <1>2, Geometry DEF Updata_Program_Address
    <3> QED BY <1>6, <2>1, <3>1
  <2>2. CASE a # here
    <3>1. flash'[a] = flash[a]
      BY <1>6, <2>2, AreaAddress
    <3>2. a < Updata_Program_Address + (n + 1) <=> a < Updata_Program_Address + n
      BY <1>2, <2>2, AreaAddress
    <3> QED BY <1>1, <3>1, <3>2 DEF Staged
  <2> QED BY <2>1, <2>2
<1>8. Staged(updata_shift)' /\ (task' = "set_flag" => Staged(ImageBlocks)')
  <2>1. updata_shift' = n + 1 /\ host' = host
    BY <1>1
  <2>2. \A a \in Area :
          flash'[a] = IF a < Updata_Program_Address + updata_shift'
                      THEN Block(host'.image, a - Updata_Program_Address) ELSE Erased
    BY <1>7, <2>1
  <2>3. Staged(updata_shift)'
    BY <2>2 DEF Staged
  <2>4. task' = "set_flag" => updata_shift' = ImageBlocks
    BY <1>3, <2>1
  <2> QED BY <2>2, <2>3, <2>4 DEF Staged
<1> QED BY <1>1, <1>6, <1>8 DEF Stored, FlagKept

\* The reply to a packet means that it is written.
LEMMA ReplyData ==
  ASSUME DataInv, EthernetReceiveSuccessString
  PROVE  Stored' /\ FlagKept'
<1>1. /\ task \in {"reply", "last_reply"} /\ inbox = <<>>
      /\ task' = IF task = "reply" THEN "recv" ELSE "system_reset"
      /\ UNCHANGED <<flash, flag, sr, updata_shift, inbox, host>>
  BY DEF EthernetReceiveSuccessString, flashVars, DataInv, Transfer, Coming
<1>2. Staged(host.last) /\ (task = "last_reply" => Staged(ImageBlocks))
  BY <1>1 DEF DataInv, Stored, Transfer, Handled
<1>3. Staged(host.last)' /\ (task = "last_reply" => Staged(ImageBlocks)')
  BY <1>1, <1>2 DEF Staged
<1> QED BY <1>1, <1>3 DEF DataInv, Stored, FlagKept

LEMMA StartData ==
  ASSUME ~HostRestarts, DataInv, NEW v \in Images, HostStart(v)
  PROVE  Stored' /\ FlagKept'
<1>1. /\ task = "recv" /\ replies = <<>> /\ host'.last = 0
      /\ UNCHANGED <<flash, flag, sr, task, updata_shift, replies>>
  BY DEF HostStart, Send, DataInv, Transfer, AtRest, ram, flashVars
<1>2. flag # "set"
  BY <1>1 DEF DataInv, FlagKept
<1> QED BY <1>1, <1>2 DEF DataInv, Stored, FlagKept

LEMMA NextPacketData ==
  ASSUME DataInv, HostReply
  PROVE  Stored' /\ FlagKept'
<1>1. /\ replies # <<>> /\ replies' = <<>>
      /\ UNCHANGED <<flash, flag, sr, task, updata_shift>>
  BY AnswerTaken DEF HostReply, DataInv, ram, flashVars
<1>2. host'.image = host.image
  <2>1. host.last < ImageBlocks => host'.image = host.image
    BY DEF HostReply, Send
  <2>2. ~(host.last < ImageBlocks) => host'.image = host.image
    BY HostFields DEF HostReply, DataInv
  <2> QED BY <2>1, <2>2
<1>3. Staged(host.last) /\ ~Busy /\ task # "boot" /\ inbox = <<>>
  BY <1>1 DEF DataInv, Stored, Transfer, Handled, Answered, Asked, Coming
<1>4. inbox' # <<>> => task = "recv" /\ Staged(updata_shift)
  <2>1. inbox' # <<>> => host.last < ImageBlocks
    BY <1>3 DEF HostReply
  <2>2. host.last < ImageBlocks => task = "recv"
    BY <1>3, HostFields DEF DataInv, Transfer, Handled, Busy
  <2> QED BY <1>1, <1>3, <2>1, <2>2 DEF DataInv, Transfer, Answered
<1>5. /\ Staged(updata_shift)' <=> Staged(updata_shift)
      /\ Staged(ImageBlocks)' <=> Staged(ImageBlocks)
  BY <1>1, <1>2 DEF Staged
<1> QED BY <1>1, <1>3, <1>4, <1>5 DEF DataInv, Stored, FlagKept, Busy

LEMMA LostData ==
  ASSUME DataInv, ConnectionLost
  PROVE  Stored' /\ FlagKept'
<1>1. /\ replies' = <<>> /\ inbox' \in {inbox, <<>>} /\ host' = [host EXCEPT !.state = "lost"]
      /\ UNCHANGED <<flash, flag, sr, task, updata_shift>>
  BY DEF ConnectionLost, ram, flashVars
<1>2. host'.image = host.image /\ host'.last = host.last
  BY <1>1, HostFields DEF DataInv
<1>3. /\ Staged(updata_shift)' <=> Staged(updata_shift)
      /\ Staged(ImageBlocks)' <=> Staged(ImageBlocks)
  BY <1>1, <1>2 DEF Staged
<1> QED BY <1>1, <1>2, <1>3 DEF DataInv, Stored, FlagKept

\* A reset, by the program or by a power loss in any of its steps.
LEMMA ResetData ==
  ASSUME DataInv, UpdatePowerLoss \/ System_Reset
  PROVE  Stored' /\ FlagKept'
<1>1. /\ task' = "boot" /\ sr' = "ok" /\ inbox' = <<>> /\ replies' = <<>>
      /\ host'.image = host.image
  BY HostFields DEF UpdatePowerLoss, System_Reset, Reset, DataInv
<1>2. flag \in {"clear", "set"}
  BY DEF DataInv, TypeInv, UpdateTypeOK, FlashTypeOK
<1>3. flag = "set" => Staged(ImageBlocks) /\ task \in {"last_reply", "system_reset", "boot"}
  BY DEF DataInv, FlagKept
<1>4. flag' = "set" => Staged(ImageBlocks) /\ flash' = flash
  <2>1. CASE UNCHANGED <<flash, flag>>
    BY <1>3, <2>1
  <2>2. CASE TornUpdate
    BY <1>2, <1>3, <2>2 DEF TornUpdate, TornErase, TornProgram, TornReset, TornSet, DataInv, Stored
  <2> QED BY <2>1, <2>2 DEF UpdatePowerLoss, System_Reset
<1>5. flag' = "set" => Staged(ImageBlocks)'
  BY <1>1, <1>4 DEF Staged
<1> QED BY <1>1, <1>5 DEF Stored, FlagKept

LEMMA BootData ==
  ASSUME DataInv, Boot
  PROVE  Stored' /\ FlagKept'
<1>1. /\ task' = "recv" /\ flag' = "clear" /\ sr' = "ok" /\ inbox' = <<>> /\ replies' = <<>>
  BY DEF Boot, net, DataInv, FlagKept, Transfer, Asked, AtRest
<1> QED BY <1>1 DEF Stored, FlagKept

LEMMA SoundNextData ==
  ASSUME NoFault, ~HostRestarts, DataInv, [UpdateNext]_updateVars
  PROVE  DataInv'
<1>1. (TypeInv /\ Transfer)'
  BY NextTypes, NextTransfer DEF DataInv
<1>2. (Stored /\ FlagKept)'
  <2>1. CASE Boot
    BY <2>1, BootData
  <2>2. CASE ServerThread
    BY <2>2, ReceiveData, EraseData, FlagData, ProgramData, ReplyData, ResetData DEF ServerThread
  <2>3. CASE HostAndNetwork
    BY <2>3, NextPacketData, LostData, StartData DEF HostAndNetwork
  <2>4. CASE UpdatePowerLoss
    BY <2>4, ResetData
  <2>5. CASE UNCHANGED updateVars
    BY <2>5 DEF updateVars, DataInv, Stored, FlagKept, Staged
  <2> QED BY <2>1, <2>2, <2>3, <2>4, <2>5 DEF UpdateNext
<1> QED BY <1>1, <1>2 DEF DataInv

LEMMA NextData ==
  ASSUME FaultKinds = {}, ~HostRestarts, DataInv, [UpdateNext]_updateVars
  PROVE  DataInv'
BY SoundNextData DEF NoFault

LEMMA InitData == UpdateInit => DataInv
BY InitTypes, InitTransfer DEF UpdateInit, DataInv, Stored, FlagKept

\* The first packets of the image are at their places.
LEMMA StagedPacket ==
  ASSUME NEW n \in Nat, NEW i \in 0 .. ImageBlocks - 1, i < n, Staged(n)
  PROVE  flash[Updata_Program_Address + i] = Block(host.image, i)
<1>1. PICK a \in Area : a = Updata_Program_Address + i
  BY AreaAddress, Geometry
<1>2. a < Updata_Program_Address + n /\ a - Updata_Program_Address = i
  BY <1>1, Geometry DEF Updata_Program_Address
<1>3. flash[a] = Block(host.image, a - Updata_Program_Address)
  BY <1>2 DEF Staged
<1> QED BY <1>1, <1>2, <1>3

LEMMA FlagMeansWhole == DataInv => FlagMeansUpdate
<1> SUFFICES ASSUME DataInv, flag = "set", NEW i \in 0 .. ImageBlocks - 1
             PROVE  flash[Updata_Program_Address + i] = Block(host.image, i)
  BY DEF FlagMeansUpdate, Holds
<1>1. Staged(ImageBlocks)
  BY DEF DataInv, FlagKept
<1>2. ImageBlocks \in Nat /\ i < ImageBlocks
  BY Geometry
<1> QED BY <1>1, <1>2, StagedPacket

LEMMA AnsweredMeansWritten == DataInv => AnsweredIsWritten
<1> SUFFICES ASSUME DataInv, NEW i \in 0 .. ImageBlocks - 1,
                    host.state = "done" \/ (host.state = "waiting" /\ i < host.last - 1)
             PROVE  flash[Updata_Program_Address + i] = Block(host.image, i)
  BY DEF AnsweredIsWritten
<1>1. /\ host.last \in Nat /\ ImageBlocks \in Nat /\ i \in Nat /\ i < ImageBlocks
      /\ updata_shift \in Nat
  BY HostFields, Geometry DEF DataInv
<1>2. CASE Staged(ImageBlocks)
  BY <1>1, <1>2, StagedPacket
<1>3. CASE host.state = "done"
  BY <1>2, <1>3 DEF DataInv, Transfer, Asked, Stored
<1>4. CASE host.state = "waiting" /\ i < host.last - 1
  <2>1. host.last > 0 /\ host.last # 0 /\ i < host.last
    BY <1>1, <1>4
  <2>2. CASE replies # <<>>
    <3>1. Staged(host.last)
      BY <2>2 DEF DataInv, Stored
    <3> QED BY <1>1, <2>1, <3>1, StagedPacket
  <2>3. CASE inbox # <<>>
    <3>1. updata_shift = host.last - 1 /\ Staged(updata_shift)
      BY <2>1, <2>3 DEF DataInv, Transfer, Coming, Stored
    <3> QED BY <1>1, <1>4, <3>1, StagedPacket
  <2>4. CASE task \in {"program", "reply"}
    <3>1. Staged(updata_shift) /\ (updata_shift = host.last - 1 \/ updata_shift = host.last)
      BY <2>4 DEF DataInv, Transfer, Handled, Stored
    <3>2. i < updata_shift
      BY <1>1, <1>4, <2>1, <3>1
    <3> QED BY <1>1, <3>1, <3>2, StagedPacket
  <2>5. CASE task \in {"set_flag", "last_reply", "system_reset"}
    BY <1>2, <2>5 DEF DataInv, Stored
  <2>6. task \notin {"boot", "erase_1", "erase_2", "reset_flag"}
    BY <1>4, <2>1 DEF DataInv, Transfer, Asked, Handled
  <2>7. task = "recv" => inbox # <<>> \/ replies # <<>>
    BY <1>4 DEF DataInv, Transfer, Asked
  <2>8. task \in Task
    BY DEF DataInv, TypeInv, UpdateTypeOK
  <2> QED BY <2>2, <2>3, <2>4, <2>5, <2>6, <2>7, <2>8 DEF Task
<1> QED BY <1>3, <1>4

(***************************************************************************)
(* When a failure is reported, its error bit stops the writing until the   *)
(* reset: the rest of the transfer is answered and lost, but the flag      *)
(* cannot be set any more either.                                          *)
(***************************************************************************)
ReportedData ==
  /\ TypeInv /\ Transfer
  /\ sr = "ok" => Stored /\ FlagKept
  /\ sr = "error" => flag = "clear" /\ task # "boot"

LEMMA DataReported == DataInv <=> ReportedData /\ sr = "ok"
BY DEF DataInv, ReportedData, FlagKept

LEMMA DataReportedNext == (DataInv <=> ReportedData /\ sr = "ok")'
BY DataReported, PTL

LEMMA NextReported ==
  ASSUME "silent" \notin FaultKinds, ~HostRestarts, ReportedData, [UpdateNext]_updateVars
  PROVE  ReportedData'
<1>1. (TypeInv /\ Transfer)'
  BY NextTypes, NextTransfer DEF ReportedData
<1>2. sr \in {"ok", "error"} /\ sr' \in {"ok", "error"}
  BY <1>1 DEF ReportedData, TypeInv, UpdateTypeOK, FlashTypeOK
<1>3. CASE sr = "ok" /\ sr' = "ok"
  <2>1. DataInv'
    BY <1>3, DataReported, SoundNextData DEF NoFault
  <2> QED BY <2>1, DataReportedNext
<1>4. CASE sr = "ok" /\ sr' = "error"
  <2>1. EraseUpdata1 \/ EraseUpdata2 \/ ResetFlag \/ SetFlag \/ Program_Updata_Area
    BY <1>4 DEF UpdateNext, Boot, ServerThread, Receive, EthernetReceiveSuccessString, System_Reset,
                HostAndNetwork, HostReply, HostStart, ConnectionLost, UpdatePowerLoss, Reset,
                flashVars, updateVars
  <2>2. flag' = flag /\ task' # "boot"
    BY <1>4, <2>1 DEF EraseUpdata1, EraseUpdata2, EraseUpdataSector, ResetFlag, SetFlag,
                      Program_Updata_Area, Program, FLASH_EraseSector, FLASH_ProgramByte,
                      Reset_Updata_Flag, Set_Updata_Flag, Refused, flashVars
  <2>3. task \notin {"last_reply", "system_reset", "boot"}
    BY <2>1 DEF EraseUpdata1, EraseUpdata2, EraseUpdataSector, ResetFlag, SetFlag,
                Program_Updata_Area, Program
  <2>4. flag = "clear"
    BY <1>4, <2>3 DEF ReportedData, FlagKept, TypeInv, UpdateTypeOK, FlashTypeOK
  <2> QED BY <1>1, <1>4, <2>2, <2>4 DEF ReportedData
<1>5. CASE sr = "error"
  <2>1. flag = "clear" /\ task # "boot"
    BY <1>5 DEF ReportedData
  <2>2. CASE UpdatePowerLoss \/ System_Reset
    <3>1. flag' = "clear" /\ sr' = "ok" /\ task' = "boot" /\ inbox' = <<>> /\ replies' = <<>>
      BY <1>5, <2>1, <2>2 DEF UpdatePowerLoss, System_Reset, TornUpdate, Reset
    <3> QED BY <1>1, <3>1 DEF ReportedData, Stored, FlagKept
  <2>3. CASE ServerThread /\ ~System_Reset
    <3>1. flag' = flag /\ sr' = sr /\ task' # "boot"
      BY <1>5, <2>3
         DEF ServerThread, Receive, PC_DATAHandler, EraseUpdata1, EraseUpdata2, EraseUpdataSector,
             ResetFlag, SetFlag, Program_Updata_Area, Program, EthernetReceiveSuccessString,
             FLASH_EraseSector, FLASH_ProgramByte, Reset_Updata_Flag, Set_Updata_Flag, Refused,
             Fault, flashVars
    <3> QED BY <1>1, <1>5, <2>1, <3>1 DEF ReportedData
  <2>4. CASE HostAndNetwork \/ UNCHANGED updateVars
    <3>1. UNCHANGED <<flag, sr, task>>
      BY <2>4 DEF HostAndNetwork, HostReply, HostStart, ConnectionLost, flashVars, ram, updateVars
    <3> QED BY <1>1, <1>5, <2>1, <3>1 DEF ReportedData
  <2> QED BY <2>1, <2>2, <2>3, <2>4 DEF UpdateNext, Boot
<1> QED BY <1>2, <1>3, <1>4, <1>5

(***************************************************************************)
(* While the flag is set the update area holds the whole image the host    *)
(* sent, at whichever step the power is lost and whichever writes fail     *)
(* with a report.                                                          *)
(***************************************************************************)
THEOREM FlagIsMeant ==
  ASSUME "silent" \notin FaultKinds, ~HostRestarts
  PROVE  UpdateSpec => []FlagMeansUpdate
<1>1. UpdateInit => ReportedData
  BY InitData, DataReported
<1>2. ReportedData /\ [UpdateNext]_updateVars => ReportedData'
  BY NextReported
<1>3. ReportedData => FlagMeansUpdate
  <2>1. sr = "ok" /\ ReportedData => FlagMeansUpdate
    BY DataReported, FlagMeansWhole
  <2>2. ReportedData /\ sr # "ok" => flag # "set"
    BY DEF ReportedData, TypeInv, UpdateTypeOK, FlashTypeOK
  <2> QED BY <2>1, <2>2 DEF FlagMeansUpdate
<1> QED BY <1>1, <1>2, <1>3, PTL DEF UpdateSpec

(***************************************************************************)
(* Every packet before the one the host waits for is written at its place, *)
(* however many connections are lost, if no write fails.                   *)
(***************************************************************************)
THEOREM AnswersAreWritten ==
  ASSUME FaultKinds = {}, ~HostRestarts
  PROVE  UpdateSpec => []AnsweredIsWritten
<1>1. UpdateInit => DataInv
  BY InitData
<1>2. DataInv /\ [UpdateNext]_updateVars => DataInv'
  BY NextData
<1>3. DataInv => AnsweredIsWritten
  BY AnsweredMeansWritten
<1> QED BY <1>1, <1>2, <1>3, PTL DEF UpdateSpec
=============================================================================
