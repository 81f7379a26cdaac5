# Verification of the update firmware

The repository is the firmware of an STM32F407 board: a boot program
(`src/Template_Bootlodar`) and an application (`src/Template`) built on FreeRTOS
and LwIP. The application takes commands from a host over TCP; two of them
replace the application itself. This directory holds TLA+ models of that program,
TLC configurations that check them on small instances, and proofs that TLAPS
checks for every value of the constants.

## 1. The system

| Component | Source | State | Operations |
| --- | --- | --- | --- |
| on-chip flash and driver | `STM32F4_FWLIB/src/stm32f4xx_flash.c` | sectors 3 and 5 to 10, error bits of `FLASH->SR` | erase a sector, program a byte or word, wait |
| boot program | `Template_Bootlodar/Main/main.c`, `main.h` | none but its loop counters; all it knows is in the flash | `Check_Flag`, three area erases, `Program_Updata`, `Check_Program`, `Reset_Updata_Flag`, `Go_to_App` |
| update receiver | `USER/BaseDriver/user_updata.c` | `updata_shift` | erase the update area, write a packet, set and reset the flag, reset the processor |
| command layer | `USER/User_Common/user_ETHCommunication.c` | the receive buffer `SysCtrl.Ethernet`, `pack_amount` | framing and checksum, dispatch, `ONLINEUPDATE1/2`, `GETEDITION`, `GETDATA`, replies |
| TCP server thread | `USER/User_Common/user_tcp_server.c` | the listening and the accepted connection | accept, receive, close, delete |
| Ethernet receive path | `Main/stm32f4xx_it.c`, `Main/arch/ethernetif.c`, `stm32f4x7_eth.c` | semaphore, descriptor ring, frame info | interrupt, `ethernetif_input`, `low_level_input` |
| Ethernet transmit path | `Main/arch/ethernetif.c`, `stm32f4x7_eth.c` | transmit semaphore, descriptor ring | `low_level_output`, `ETH_Prepare_Transmit_Descriptors` |
| LwIP system layer | `Main/arch/sys_arch.c` | semaphores, mailboxes, mutexes over FreeRTOS queues | create, post, fetch, wait, free |
| delays | `USER/User_Common/user_delay.c` | SysTick and cycle counters | busy waits |
| start-up, clock, PHY, LED, RTC | `Main/main.c`, `user_Lan8720.c`, ... | registers | straight-line set-up |

How they interact. The host sends one command and waits for the reply. A frame
raises the Ethernet interrupt, which gives a semaphore to the task `Eth_if`
(priority 9); it passes the frame to the TCP/IP thread (10) through a mailbox, and
the server thread (6) receives the bytes of one segment, takes them for one
command, and runs its handler to the end before it receives the next. The handlers
of the update write the flash and answer through the same connection. Boot program
and application never run together: they share the flash, and the word at
`Flag_Address` is the only message between them. The application sets it and resets
the processor; the boot program clears it.

What is hard. The power can fail inside any flash operation, and the boot program
must then find its way from the contents of the flash alone. A connection can break
between any two commands, while the packets carry no address. A write can fail with
or without the controller noticing. In the network path an interrupt, three threads
and a DMA engine share rings, mailboxes and connections.

What makes each part correct: the boot program replaces one whole image by another
atomically and never loses the last one; the update receiver sets the flag only
over a whole image and writes nothing outside its area; a reply means that the
packet is written; the receive path delivers each frame once, in order, and leaves
none waiting; the command layer judges a complete message by its own length, tail and
checksum; a connection is neither used nor deleted twice. (That it acts only on a message
whose checksum matches is not so: of a message that TCP cuts, some pieces are run
unchecked, see `reply_unverified`.)

`PROJECT.json` lists every component, and under `hazards` each place where one of
these can go wrong, with the property that covers it or the reason why none does.

## 2. The modules

`FlashDevice` is the flash both programs work on. A block is one packet of 1024
bytes; the byte loops of the code are loops over blocks, and a loss of power or a
fault inside a block leaves `Garbage` in it. A sector is `SectorBlocks` (128 on the
chip) blocks. `CopyBlocks` stands for the 0x2FFFF bytes that `Program_Updata`
copies: 191 whole blocks and one that misses its last byte. `Overlay` is what
programming does to a block that is not erased: bits only go from 1 to 0.
`Refused` is the controller's reaction to any operation while an error bit is set;
nothing in the driver (`FLASH_WaitForLastOperation`) or the two programs clears
these bits, and no caller looks at the returned status. `TornProgram`, `TornErase`,
`TornReset` and `TornSet` are what an interrupted operation leaves.

`Bootloader` is `main()` of the boot program. `pc` is the statement it has reached
and `idx` the sector or block of the loop it is in; each flash operation is one
action, so that a loss of power falls before, inside or after it. `current` is a
history variable: the image of the last committed update, which `RecordInstall`
changes where `Reset_Updata_Flag` follows a successful comparison. `PowerLoss`
restarts `main()`; `AppStages` is all the boot program sees of the application.

`OnlineUpdate` is the server thread of the running application during an update:
`task` is the statement reached, `req` the command, `updata_shift` and `pack_amount`
the two static variables. `Receive` takes a message and dispatches it
(`PC_DATAHandler`); `EraseUpdata1`, `EraseUpdata2`, `ResetFlag` and the reply are
`ONLINEUPDATE1`; `Program_Updata_Area`, `SetFlag`, the reply and `System_Reset` are
`ONLINEUPDATE2`. The host, which is not in the repository, sends one command at a
time because every command is answered ("每一包都需要回复", every packet needs a
reply, line 419). `ConnectionLost` drops the reply and possibly the command under
way. `Boot` is the boot program in one step. A command is taken to arrive whole, in a
segment of its own, and with the right sum: the checks of `EthernetInterfaceHandler`, its
failure reply, and segments that are cut or joined are in `CommandServer`.

`FirmwareUpdate` extends both, so that they share one flash: `BootStep` runs `Main` of
`Bootloader` and starts the application's thread with the jump, `AppStep` runs
`ServerThread` of `OnlineUpdate` and returns to the boot program with the reset,
`NetStep` is the host and the network, `SystemPowerLoss` that of the program that runs.
The actions `AppStages` of `Bootloader` and `Boot` of `OnlineUpdate`, each program's
stand-in for the other, are not used here. Because one module extends the other two,
the names of `OnlineUpdate` begin with `Update` (`UpdateInit`, `UpdateNext`, ...), and
those of `FirmwareUpdate` with `System`.

`FirmwareSpec` is what an updatable device promises: an installed image, perhaps one
that is pending, and an indivisible `Install`. Both `Bootloader` and
`FirmwareUpdate` implement it under a mapping in which the flag decides what is
installed: the contents of the application area while it is clear, the image of the
last commit while it is set, when the contents of the update area are pending. In
`FirmwareUpdate` (`KeepsPromise`) a program counts as running until it hands over the
next one by setting the flag, a reply and a reset before its end; in `Bootloader`, where
the hand-over and the reset are one step, until the reset.

`EthRx` is the way of a frame from the DMA engine to the TCP/IP thread. The engine
owns or has handed over each descriptor (`own`), keeps its own place in the ring
(`dma`) and sets the status bit a moment after it wrote the descriptor (`due`, `R`).
`GiveFromISR` and `ClearPending` are the two halves of `ETH_IRQHandler`; no thread
runs between them, but the engine does. `task` is the statement of
`ethernetif_input`: `SemaphoreTake`, then `Scan`
(`ETH_Get_Received_Frame_interrupt`), `Alloc`, `Release` and `PollDemand` of
`low_level_input`, then `Input`, which is `tcpip_input` with its two ways to fail.
Each is one access to something engine, interrupt or stack change too. `Fetch` and
`HandleMsg` are the loop of the TCP/IP thread, `NetbufDelete` is the server thread.
With `Prioritised` the three threads run by their priorities (10, 9, 6), without it
they interleave freely. `left`, `refused` and `delivered` are history variables.

`CommandServer` is `TCP_Server_Thread`, the command layer it calls, and what the
TCP/IP thread does with the same connections. A connection is a number, in the order
of the attempts; `netconn`, `pcb`, `keepalive`, `recvmbox` and `stream` say of each
where its netconn is, whether the stack has a control block for it, whether the
keepalive option is set in that, which data is in the netconn's mailbox, and which
the stack still holds. `thread` is the statement of the server thread, `cur` is
`remote_netconn`. `Accept` is `netconn_accept`, `SetKeepAlive` the line behind it
that writes `so_options`, `Receive` is `netconn_recv`, `Close` and `Delete` end the
inner loop. A message is a sequence of four words, command, length, sum and tail, each
of which stands for several of the code. A piece is what one TCP segment brings: the words
of a whole message, of one with a wrong sum, of one whose length field is too large or
points at no tail, of one side of a message that is cut, or of several joined. `Handle` is
`netbuf_copy` and `EthernetInterfaceHandler` on one piece. The words go over what `Data`
holds, so that behind a short piece an old message is still there; `Verdict` reads the
length field, the tail and both sums from that buffer. Where the tail is missing the two
sums have no value, and both outcomes are possible. The buffer is cleared afterwards, and
with it every message joined behind the first, but not after a message that was too long.
`netbuf_copy` may write 1536 bytes where `Data` has 1200; the model drops what does not
fit. `Rec_Comand` is the command of the last message accepted. `SendUpData` is one packet of
the readback that `GETDATA` starts. On the side of the stack, `Connect` is
`accept_function`, `Deliver` is `recv_tcp` with the data a full mailbox refuses,
`KeepaliveTimeout` and the client's `Reset` are `err_tcp`. `Send`, `Finish`, `Reset`
and `Vanish` are a client, which is not in the repository.

`ServerSpec` is what the server promises its clients: one at a time, in the order of
their connections, each connection once. `CommandServer` implements it with the
connections that have been queued as `made`, those in the accept mailbox as
`waiting`, and `cur` as `serving`.

`MCBootloader`, `MCOnlineUpdate`, `MCFirmwareUpdate`, `MCEthRx` and
`MCCommandServer` are the modules TLC runs, with small values for the constants.
`BootloaderProofs`, `RollbackProofs`, `OnlineUpdateProofs`, `FirmwareUpdateProofs`,
`EthRxProofs` and `CommandServerProofs` hold the theorems; `FlashProofs` holds the lemmas
about the flash that those of `Bootloader` and `OnlineUpdate` share.

Definitions named as mutants in a comment (`EraseOneSector`, `CopyOneMore`, ...)
belong to no specification: they are plausible bugs with which the runs are shown
able to fail.

## 3. The runs

| Run | Question | Result |
| --- | --- | --- |
| `boot_power` | Does the boot program survive a power loss at every step? | `RunsInstalledImage`, `ImageRecoverable`, `ImplementsDevice`, `InstallCompletes` hold; so does `BootInv`, the invariant of the proofs |
| `boot_silent` | Is a bad install found and undone, when one write fails unnoticed? | `CommitsWholeImage`, `RollbackHasBackup`, `RunsInstalledImage` hold while the power is steady |
| `boot_reported` | Can a fault the controller reports, with power losses around it, cost the last image? | no: `ImageRecoverable` holds |
| `update_power` | Is the flag set only over a whole image, wherever power or connection is lost? | yes, when the host leaves a lost transfer until the device has restarted; an undisturbed transfer completes and is installed |
| `update_restart` | And when the host starts again over a new connection? | no: `FlagMeansUpdate` is violated |
| `system_power` | Does the whole device replace its program atomically? | yes: `KeepsPromise`, `RunsInstalledImage`, `ImageRecoverable`, `AnsweredIsRun` hold |
| `rx_ring` | Does the receive path lose, double or reorder a frame, a pbuf or a wake-up? | no, under any interleaving: `EachFrameOnceInOrder`, `RingAgrees`, `PbufsAccounted`, `NoLostWakeup`, `EngineResumes`, `FrameTaken` hold |
| `rx_served` | Is every frame taken out of the ring? | no: `FramesServed` is violated |
| `clients` | Does the command server lose a netconn, skip a piece of data, answer pieces out of order or judge a message by what an earlier one left, and does it serve its clients in turn? | `NetconnsAccounted`, `NothingSkipped`, `RepliesMatch`, `JudgedByItself`, `ReadbackExact`, `ServesInTurn`, `LeavesGoneClient`, `DataTaken` hold |
| `accept_error` | Does the server thread always come back to wait for a connection? | no: `AwaitsNextConnection` is violated |
| `reply_unverified` | Does a reply of success mean that the message has arrived with its checksum? | no: `SuccessMeansReceived` is violated |
| `readback_build` | Is the backup area read back whole, with the packets and the counter of the build? | no: `ReadbackExact` is violated |

The five violations are findings; `PROJECT.json` quotes the comment each one
contradicts:

* `update_restart`. `updata_shift` is never set back: a second `ONLINEUPDATE1` in
  one run of the application erases the area and the packets then go behind the
  place where the first transfer stopped. The last packet sets the flag over an area
  that does not begin with an image.
* `rx_served`. A frame for which no pbuf is free (or no room in the mailbox) ends the
  loop of `ethernetif_input`. The frames behind it stay in the ring, also when pbufs
  are free again, until another frame raises an interrupt. TCP sends again what is
  not acknowledged, so that in practice this is a delay.
* `accept_error`. When a client connects while all four netconns are in use (one
  listens, one is served, two wait), `accept_function` posts `ERR_ABRT` into the
  accept mailbox. `netconn_accept` returns it when the thread comes to that entry; the
  `else` branch leaves the endless loop, and the task function returns, which FreeRTOS
  forbids. No command is answered after that.
* `reply_unverified`. `dSum` and `rSum` get a value only where the tail of the message is
  found, and are compared in any case. Of a message that TCP cuts, the first piece may so be
  run and answered as received before the rest has arrived; the rest is judged as a
  message of its own and gets its own reply.
* `readback_build`. The inner loop of `SendUpData` counts words with a `uint16_t` up to
  512 * PackCnt + 512, which for packet 127 is 65536. The counter starts again at 0, the
  loop never ends, and 127 of the 192 packets are all a client ever gets.

Two more places where the code does not do what one would expect are assumptions of the
runs, not findings of their own. The copy stops at 0x2FFFF bytes, 64 KB before the end of
the sectors an image may fill, and the comparison with it, so that a larger image would be
committed without its tail: `ImageBlocks <= CopyBlocks`. `Program_Updata_Area` verifies
each packet, but only traces the result: `FlagMeansUpdate` is claimed without faults that
go unnoticed.

### Bounds and why they are enough

* Two blocks in a sector, so each area has a first and a second sector, and each
  loop a first, a middle and a last iteration. `CopyBlocks` is 3, one short of the
  area, as 191 is short of 256. Images of 3 blocks end exactly where the copy ends;
  of 2 blocks (in the larger state spaces) inside it.
* Two images, so that the old one, the new one and the backup differ, and an update
  may also install what is there already.
* Two contents that belong to no image: `gBoot`, whose first word passes the test of
  `Go_to_App`, and `gDead`, which fails it. `system_power` has only the first, the
  worse one.
* One flash fault (`MaxFaults`), of one kind. Power losses are not bounded; faults
  and lost connections (`MaxDrops`, 1) are.
* A torn erase leaves any subset of the sector's blocks changed, all to one content.
* `AppStages` stages the first n blocks for every n: whatever a transfer has reached
  when it ends.

* `EthRx`: three descriptors for the four of the ring, so that it can be empty, partly
  filled and full while the task holds one; three pbufs for 20, two messages and two
  places in the mailbox for 8 of each, so that each can be the one that is short; six
  frames, so that the ring wraps around, fills up and is refused in one behaviour.
  `rx_served` has two descriptors, two pbufs and five frames, and keeps to the priorities of the
  threads, under which the mailbox never fills and only the pool can be short.
* `CommandServer`, `clients`: three connections for a pool of three netconns, one of
  which listens, so that the third finds the pool full, or free again, or its error
  message in the queue; two places in the accept mailbox and one in the receive
  mailbox, so that each can be full. One client sends one piece and the next two:
  enough for a cut message, a joined one, a rejected one with a shorter one behind it
  from the same client and from another. The buffer has five words for messages of four,
  so that a rejected message stays in it whole and one that is joined is cut off by its
  end. The readback has two packets of two words and a counter of five values, which just
  counts all four words, so that a readback reaches its end and a client may read twice.
  `accept_error`, `reply_unverified` and `readback_build` have the numbers of the build
  (four netconns, mailboxes of ten, 192 packets of 512 words, a counter of 65536 values),
  with four connections, or one that sends two pieces or one.

### Fairness

`FairSpec` of `Bootloader` is weak fairness of `Main`: the processor executes the
next instruction; nothing in `main()` waits for anything. `FairUpdateSpec` and
`FairSystemSpec` add the server thread, which waits only for a message (it has the
highest priority of the threads that can run for long; the LED tasks are below it),
and that a host that has its reply sends the next packet. No fairness is assumed of
power losses, lost connections, or the start of a transfer. The liveness properties
assume in their own statement that disturbances end (`PowerStays`, `Undisturbed`,
`SystemStaysOn`):
with a power supply that fails for ever no update can end.

`EthRx` has weak fairness of the engine, the interrupt, and each thread as far as the
priorities let it run. None of its frames has to arrive; their number is bounded, so that
the interrupt cannot keep the threads from running for ever.

`CommandServer` has weak fairness of the server thread and of the stack's deliveries
and timers: both threads run whenever they have work, and the handlers are short. A
connection attempt, and everything a client does, is left to the clients.

### Assumptions

* An erased flag word stays erased when a repeated erase of its sector is
  interrupted (`TornReset`). The data sheet does not promise it;
  `ONLINEUPDATE1` erases the flag sector although it is erased (line 386), so the
  device relies on it.
* An image's first word is a stack pointer in RAM (`MspValid`), and contents outside
  of any image may look like one.
* The application is linked to 0x08020000 and does not write its own area other than
  through the update commands.
* All packets of the transfers in one run fit the flash behind the update area
  (`UpdateAssumption`).
* While an update is under way the host sends no other command.
* A frame fits one receive buffer (1524 bytes) and one pbuf of the pool (1514).
* The DMA engine, once suspended, waits for a write to `DMARPDR`. The hardware may
  also go on by itself when a frame arrives; the properties do not need it.
* Giving the semaphore from the interrupt is one step. With the interrupt's priority
  above the kernel's limit nothing guarantees it; `PROJECT.json` lists this hazard.

* The clients of `CommandServer` read what they are sent, so that `netconn_write` does
  not wait for them. Writing one reply is one step, and so is writing one packet of the
  readback.
* The commands of the update behave as `GETEDITION` in `CommandServer`: one reply each.
  What they do to the flash is in `OnlineUpdate`.
* LwIP never runs out of pcbs or of memory for its messages; only the pool of netconns
  and the mailboxes are finite.
* A client that has half-closed its connection and still reads is not told from one
  that has closed it. The message `err_tcp` puts into the mailbox is modelled by the
  missing pcb: `Receive` sees the end when the data before it is taken.
* A write through a null pcb (`SetKeepAlive`) either faults, or goes to an address at
  the beginning of the flash and is ignored.
* What is recorded of a connection (data sent and taken, replies) ends when its netconn
  is deleted.

## 4. The proofs

`BootloaderProofs` proves, for every geometry that satisfies `FlashAssumption`, every
set of images and any number of power losses:

* `TypeCorrect`: `Spec => []TypeOK`, with faults of every kind. In particular the
  copy loops never leave the six sectors.
* `BootInvariant`: `Spec => []BootInv`.
* `BootRunsInstalled`: `Spec => []RunsInstalledImage`.
* `BootImplementsDevice`: `Spec => Device!Spec`.
* `BootRecoverable`: `Spec => []ImageRecoverable`, also with any number of failures the
  controller reports.

The second to fourth are under `PowerOnly`: no flash fault, and `ImageBlocks <=
CopyBlocks` (beyond which an image is truncated). The last is under `ReportedOnly`, the
same with failures excluded only where they go unnoticed.

The safety properties are not inductive. `RunsInstalledImage` speaks of the moment
after the jump; why the area then holds the image depends on the whole way there.
`BootInv` follows it: `Phase` ties the flag to the statement reached (set up to the
commit, clear after it, and the branch of a failed comparison never taken),
`FlaggedWhole` says that the area the flag points at is whole, and `Rewritten` how
far the loops have got in the application area (first sector erased; the blocks
before `idx` copied and the others erased; all copied). Only with the blocks from
`idx` on known to be erased does programming a block store it unchanged, which is
why `Rewritten` reaches back to the erase. The proof has one lemma for each action.
`StillStaged` and `StillInstalled` are the common part of the actions before and
after the commit, `StagedKept` and `TornSpares` say which blocks an operation, whole
or torn, leaves alone, and `Commit` is the step that clears the flag, by
`Reset_Updata_Flag` or by a power loss inside it.

With failures that are reported, `BootInv` holds until the first of them and again
after the reset (`SoundInvStep`: a step in which nothing fails keeps it). In between the
error bit refuses every operation, and what matters is only what `ReportInv` keeps: the
area the flag points at is whole, and the flag is still set where the commit is still
ahead. `FailsAndStops` is the failing operation, which spoils at most the block it
writes, and `Stopped` everything `main()` does afterwards: where it finds the comparison
failed it cannot clear the flag, and the next start finds the staged image.

For the refinement, `InstalledIsCurrent` shows that on both sides of the commit the
abstract `installed` is `current`; `Stutters` then covers every step that keeps flag
and staged image, and what is left is `CommitInstalls` (Install), `Go_to_App`
(Start), a power loss of the running application (Stop) and a whole transfer (Offer).

`RollbackProofs` proves what the backup is for, with the power steady and at most one
write that fails unnoticed (`OneSilentFault`):

* `RollbackIsPossible`: `Spec => []RollbackHasBackup`.
* `RollbackRuns`: `Spec => []RunsInstalledImage`.

The one fault spoils the backup or the install, never both; that is the content of
`RollInv`. `BackupSound` says that the copy is right up to `idx` or the fault has
happened; `InstallSound` that the install is right so far, or the fault has happened and
the backup is whole; from the failed check on (`ReloadSound`) the second is left, and the
reload meets no further fault. `CommitsAreWhole` (`Spec => []CommitsWholeImage`) needs
nothing of this: `pc = "ok_flag"` is reached only through the comparison, so it holds with
any number of faults of any kind and any power losses; only `ImageBlocks <= CopyBlocks`
is assumed.

`OnlineUpdateProofs` proves, for every geometry, every set of images, every bound of the
number of lost connections, and wherever the power fails:

* `UpdateTypes`: `UpdateSpec => []UpdateTypeOK`, with any faults and with hosts that start again
  while a command of their lost connection is still to be handled.
* `UpdateStaysInArea`: `StaysInUpdateArea` with any faults, if a host leaves a lost
  transfer until the device has restarted (`~HostRestarts`). Otherwise the offset of the
  lost transfer stays (`update_restart`), and with `MaxDrops = 3` in that run's instance
  the packets reach the backup area behind.
* `FlagIsMeant` (`FlagMeansUpdate`), under `~HostRestarts` and without failures that go
  unnoticed. `update_restart` shows that the first is needed; for the second one wrong
  block of the update area is enough, since nobody reads it before the flag is set. After a
  failure that is reported the packets are answered and lost, but the flag cannot be set
  any more either (`ReportedData`).
* `AnswersAreWritten` (`AnsweredIsWritten`), under `~HostRestarts` and without any failure:
  the reply does not depend on the result of the write.

That the offset has a bound at all is not obvious, because the receiver adds to it with
every packet and never compares it with anything. `Ordered` says that each connection has
at most one command under way, in the inbox, in the thread or answered, and that the
inbox has them in the order of the connections; `Within` that the offset, and what the
packets still in the inbox will add to it, is at most what the packets sent can fill.
`Transfer` is the control of a transfer when hosts do not restart: where the command the
host waits for is (`Coming`, `Handled`, `Answered`), and how the offset follows from the
packet's number. `Stored` adds what the update area holds meanwhile: the packets before
the offset and, behind them, erased flash. Only with the erased rest does a packet arrive
unchanged, and therefore the invariant begins with the two erases. `FlagKept` says that
the flag is set only with the whole image there.

`FirmwareUpdateProofs` puts the two halves together, for the same geometries, images and
bounds, with both programs, host and power supply interleaved as in `system_power`:

* `SystemTypeCorrect`: `SystemSpec => []SystemTypeOK`, with any faults and with hosts that
  start again.
* `SystemRunsInstalled` (`RunsInstalledImage`), `SystemRecoverable` (`ImageRecoverable`)
  and `SystemKeepsPromise` (`SystemSpec => KeepsPromise`), under `Quiet`: the assumptions
  of `BootInvariant` and `AnswersAreWritten` together.

Neither program's invariant is enough. `BootInv` fails as soon as the application sets the
flag, before it resets; and what the receiver's invariant `DataInv` says of the update area
must outlast the receiver, while the boot program works next to that area. `SystemInv`
therefore keeps `DataInv` throughout, `BootInv` while `main()` runs, and the installed
image under the application while that runs. The seams are four lemmas: `UpdateAreaKept`
(while the flag is set `main()` does not touch the update area, torn operations included,
and it never sets the flag), `AsleepData` (therefore `DataInv` survives the boot program),
`AppSafe` with `WritesArea` (the receiver writes nothing but the update area, therefore the
installed image survives the receiver) and `ResetStarts` (at a reset `DataInv` gives what
`BootInv` asks for at the start). Everything else is the lemmas of `BootloaderProofs` and
`OnlineUpdateProofs` about single steps. For the refinement `SameDevice` says that the
mappings of `Bootloader` and `FirmwareUpdate` agree while `main()` runs, so that
`StepImplements` carries over; `AppImplements` is new: setting the flag is the offer, and
the reset after it changes nothing.

`EthRxProofs` proves, for every size of ring, pool and mailbox and for both
schedulings: `RxTypeCorrect` (types), `PbufsConserved` (`PbufsAccounted`) and
`NoWakeupLost` (`NoLostWakeup`). The first needs the second, because a freed pbuf must
find room in the pool. `NoLostWakeup` speaks of a task that waits; `WakeupKept` states
it from the moment on at which the task stops to scan: a frame handed over after that
raises the status bit, the interrupt turns it into the semaphore before it clears it,
and only a task that waits takes the semaphore. `Holding` says what the task holds at
each statement. `RingInAgreement` (`RingAgrees`) needs that the descriptor after the one
held is the next to be read (`RingInv`); then a frame stored extends the arc of the
processor's descriptors by one at its end (`ArcGrows`) and a release takes one off its
beginning (`ArcShrinks`). `Wrap` and `Turns` replace the remainder by a comparison, since
the indices never exceed the ring by more than once.

`FramesInOrder` (`EachFrameOnceInOrder`) needs no history of the ring. The frames the scan
has not reached are the last that were stored, so that the number of the frame it saw last,
`Seen`, is the number stored less the descriptors unread, and each unread descriptor holds
the frame its place in the ring tells. What has left the task is ascending and is exactly
the frames up to `Seen` without the refused ones and the one still in hand (`OrderInv`). A
sequence that is ascending and has these elements has each of them once.

`CommandServerProofs` proves, for every size of pool and mailboxes, any number of
connections and any amount of data: `ServerTypeCorrect` (types, and no mailbox
overflows), `NetconnsKept` (`NetconnsAccounted`), `NoDataSkipped` (`NothingSkipped`),
`RepliesAnswer` (`RepliesMatch`), `JudgedAlone` (`JudgedByItself`), `ReadbackInOrder`
(`ReadbackExact`) and `ClientsInTurn` (`ServesInTurn`, the refinement of `ServerSpec`). The inductive invariant `IInv` has one
conjunct for each thing the actions share:

* `Queued`: the connections in the accept mailbox are exactly the queued ones, in
  ascending order. This is what makes `Accept` the abstract `Serve`: the first of the
  mailbox is the oldest of those that wait. Ascending order also says that each is
  there once, which counting occurrences would not show step by step.
* `Serving` and `Owned`: which statements of the thread have a connection, and that
  only the netconn of that connection is "served"; `PoolKept`: the netconns in use fit
  the pool.
* `Flows`: mailbox and stream together are a `Chain`: each piece begins where the one
  before ended, and the end of the stream is last. A delivery moves a piece from the
  stream to the mailbox and leaves the flow as it is (`FlowMove`), a receive takes its
  head (`ChainTail`), a client puts something behind it (`ChainMore`), or makes its
  last piece longer (`ChainReplaced`, `ChainJoined`).
* `Handled`: the piece being handled ends where the data taken ends, and lies behind all
  that was answered; this is the strengthening `RepliesMatch` needs. `RepliesMatch` speaks
  of pieces: a message that is cut is answered twice.

`JudgedByItself` relates the words a client sent to the buffer `Verdict` read. `Copied`
says that the first words of the buffer are those of the piece, whatever was there before,
and `JudgedRight` that a complete message therefore has its length, tail and sum where the
code looks for them: the sum over the buffer's front is the sum over the message's. A length
that is too large is read from the piece as well. Nothing is claimed of the
other pieces, whose outcome depends on the buffer or on the uninitialised sums.

For the refinement, `Connect` of the abstract specification is a connection that is
queued (`ConnectWaits`), `Serve` an `Accept` (`AcceptInTurn`), `Leave` a `Delete`
(`DeleteLeaves`); all other steps leave `netconn` and `cur` alone.

For the readback, `ReadInv` says that what a client has got ends at `PackCnt` while packets
are being sent and at a whole readback otherwise. The provers have no theory of division by
a constant: `Quotient` (a quotient and a remainder that fit are the ones) and
`NextRemainder` are derived once, and the rest uses them. `ReadbackInOrder` has two parts.
The packets are in order, each with its number, whatever the counter. The whole of
`ReadbackExact`, which also says that a readback neither stops early nor runs for ever, needs
`CounterFits`: the counter can count the words of the area. From it follows that the
thread never reaches the state "overrun" (`AllFit`). The build's counter does not fit,
which is the finding of `readback_build`.

What is only model-checked: all liveness (`InstallCompletes`, `TransferCompletes`,
`AnsweredIsInstalled`, `AnsweredIsRun`, `EngineResumes`, `FrameTaken`, `LeavesGoneClient`,
`DataTaken`), which no prover here can treat, and the five violations, which are
counterexamples. Every invariant, action property and refinement the passing runs check is
also a theorem. Not claimed, and not checked either, is what the whole device does after a
failure that is reported: `main()` may then start what a stopped install left in the
application area, and no model can say what a half-installed program does.

## 5. What is not modelled

LED blinking, delays and trace output of the modelled functions; the interrupt
disabling and the vector table around the jump of the boot program. Of the command
layer: the parameters of a message and the layout of the replies (a reply names its
command); what a segment longer than `Data` overwrites behind it; the words `GETEDITION` answers; the
sum `SendUpData` adds to each packet, which starts from an uninitialised variable
(`user_ETHCommunication.c:226`), so that a client cannot rely on it.

The transmit path (`low_level_output`, `ETH_Prepare_Transmit_Descriptors`): LwIP sends under
its core lock, so that the semaphore is not contended, and what
is left is a ring with one producer, which gives up when it meets a descriptor the
engine still owns; TCP sends again what was not acknowledged. The system
layer of LwIP maps each call onto one call of FreeRTOS; the modules above take its
mailboxes and semaphores as such. The busy waits read a hardware counter and keep no
state. FreeRTOS, LwIP, the
vendor libraries and the trace library are third-party code, modelled as far as the
firmware uses them and otherwise external. Start-up, clock, PHY and LED code sets
registers once.

The share of the repository that is modelled is small because most of it is that
third-party code, twice in part; of the firmware's own code, the boot program, the
update receiver, the server thread, the command layer and the receive path are covered.

## 6. Plan

Done, in the order of their importance:

1. `FlashDevice`, `FirmwareSpec`, `Bootloader`, its runs and proofs.
2. `OnlineUpdate`.
3. `FirmwareUpdate`, the composition.
4. `OnlineUpdateProofs` and `RollbackProofs`, with their common `FlashProofs`.
5. `EthRx`: interrupt, semaphore, `Eth_if` task, descriptor ring and DMA, with the
   pbuf pool and the mailbox at their limits, and its first proofs.
6. `CommandServer`: the receive buffer across messages, the replies, the readback, and
   the life of an accepted connection between the server thread and the TCP/IP thread;
   `ServerSpec`; `CommandServerProofs`.

7. `FirmwareUpdateProofs`, the proofs of order and readback, and the proofs under reported
   failures.

Left: update commands that are cut or joined on their way, which would compose
`CommandServer` with `OnlineUpdate`; a backup that is overwritten in a second pass of
`main()`, which is a claim about two failures of different kinds in one update.
