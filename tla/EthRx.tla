------------------------------- MODULE EthRx -------------------------------
(***************************************************************************)
(* The way of a received Ethernet frame: the DMA engine stores it in the   *)
(* ring of receive descriptors, the interrupt ETH_IRQHandler gives         *)
(* s_xSemaphore, the task Eth_if (ethernetif_input) copies the frame into  *)
(* a pbuf, gives the descriptor back and posts the pbuf to the TCP/IP      *)
(* thread through tcpip_mbox.                                              *)
(*                                                                         *)
(* A receive buffer takes any frame and so does a pbuf of the pool, hence  *)
(* a frame is one descriptor and one pbuf. Frames are numbered in the      *)
(* order of their arrival; 0 is no frame.                                  *)
(***************************************************************************)
EXTENDS Naturals, Sequences, FiniteSets

CONSTANTS RxDescs,      \* ETH_RXBUFNB, descriptors in the ring
          PoolSize,     \* PBUF_POOL_SIZE
          MboxSize,     \* TCPIP_MBOX_SIZE
          MsgSlots,     \* MEMP_NUM_TCPIP_MSG_INPKT
          MaxFrames,    \* frames that arrive in one behaviour (a bound)
          Prioritised   \* do the threads run by their priorities?

ASSUME EthRxAssumption ==
  /\ {RxDescs, PoolSize, MboxSize, MsgSlots} \subseteq Nat \ {0}
  /\ MaxFrames \in Nat
  /\ Prioritised \in BOOLEAN

VARIABLES
  own,        \* who owns each descriptor (ETH_DMARxDesc_OWN)
  buffer,     \* the frame in each receive buffer
  dma,        \* the descriptor the engine uses next
  fifo,       \* the frame in the engine's own memory
  RBUS,       \* DMASR: receive buffer unavailable, the engine is suspended
  due,        \* a descriptor is written and the status bit not yet set
  R,          \* DMASR: a frame is received
  isr,        \* what ETH_IRQHandler does next
  sem,        \* count of s_xSemaphore
  task,       \* statement ethernetif_input has reached
  get,        \* DMARxDescToGet
  hold,       \* the descriptor low_level_input must give back, or NoDesc
  p,          \* the frame in the pbuf of low_level_input, 0 is NULL
  pool,       \* free pbufs of the pool
  mbox,       \* tcpip_mbox
  handled,    \* the frame the TCP/IP thread works on
  kept,       \* pbufs queued for the server thread
  \* history
  arrived,    \* frames that have arrived
  left,       \* the task left its last loop with a refused frame
  refused,    \* frames refused for lack of a pbuf or of room in the mailbox
  delivered   \* frames in the order the TCP/IP thread took them

rxVars   == <<own, buffer, dma, fifo, RBUS, due>>
taskVars == <<task, get, hold, p>>
netVars  == <<mbox, handled, kept>>
history  == <<arrived, left, refused, delivered>>
vars == <<rxVars, R, isr, sem, taskVars, pool, netVars, history>>

Descs  == 0 .. RxDescs - 1
Frames == 1 .. MaxFrames
NoDesc == RxDescs
\* Mutant: the last descriptor is not linked back to the first.
SuccUnlinked(d) == d + 1
Succ(d) == (d + 1) % RxDescs       \* Buffer2NextDescAddr

\* low_level_init: the ring is the engine's, the semaphore taken.
Init ==
  /\ own = [d \in Descs |-> "dma"] /\ buffer = [d \in Descs |-> 0]
  /\ dma = 0 /\ fifo = 0 /\ RBUS = FALSE /\ due = FALSE /\ R = FALSE
  /\ isr = "idle" /\ sem = 0
  /\ task = "take" /\ get = 0 /\ hold = NoDesc /\ p = 0
  /\ pool = PoolSize /\ mbox = <<>> /\ handled = 0 /\ kept = 0
  /\ arrived = 0 /\ left = FALSE /\ refused = {} /\ delivered = <<>>

(***************************************************************************)
(* The DMA engine, as the driver uses it: it fills the descriptor it owns, *)
(* hands it over, then sets the status bit; it suspends itself when its    *)
(* next descriptor is not its own, until DMARPDR is written.               *)
(***************************************************************************)
FrameArrives ==
  /\ fifo = 0 /\ arrived < MaxFrames
  /\ arrived' = arrived + 1 /\ fifo' = arrived + 1
  /\ UNCHANGED <<own, buffer, dma, RBUS, due, R, isr, sem, taskVars, pool,
                 netVars, left, refused, delivered>>

DmaStore ==
  /\ fifo # 0 /\ ~RBUS /\ ~due /\ own[dma] = "dma"
  /\ own' = [own EXCEPT ![dma] = "cpu"]
  /\ buffer' = [buffer EXCEPT ![dma] = fifo]
  /\ dma' = Succ(dma) /\ fifo' = 0 /\ due' = TRUE
  /\ UNCHANGED <<RBUS, R, isr, sem, taskVars, pool, netVars, history>>

DmaRaise ==
  /\ due /\ due' = FALSE /\ R' = TRUE
  /\ UNCHANGED <<own, buffer, dma, fifo, RBUS, isr, sem, taskVars, pool, netVars, history>>

DmaSuspend ==
  /\ ~RBUS /\ own[dma] = "cpu" /\ RBUS' = TRUE
  /\ UNCHANGED <<own, buffer, dma, fifo, due, R, isr, sem, taskVars, pool, netVars, history>>

Dma == DmaStore \/ DmaRaise \/ DmaSuspend

\* ETH_IRQHandler. It interrupts any thread, and no thread runs before it ends.
GiveFromISR ==
  /\ isr = "idle" /\ R
  /\ sem' = 1 /\ isr' = "clear"
  /\ UNCHANGED <<rxVars, R, taskVars, pool, netVars, history>>

ClearPending ==
  /\ isr = "clear"
  /\ R' = FALSE /\ isr' = "idle"
  /\ UNCHANGED <<rxVars, sem, taskVars, pool, netVars, history>>

ETH_IRQHandler == GiveFromISR \/ ClearPending

\* The processor is free for the TCP/IP thread (priority 10), for Eth_if (9),
\* for the server thread (6); without Prioritised they interleave freely.
StackIdle  == Prioritised => mbox = <<>> /\ handled = 0
StackRuns  == isr = "idle"
EthIfRuns  == isr = "idle" /\ StackIdle
ServerRuns == isr = "idle" /\ StackIdle /\ (Prioritised => task = "take" /\ sem = 0)

\* The wait of ethernetif_input; its time-out leads back to the wait.
SemaphoreTake ==
  /\ EthIfRuns /\ task = "take" /\ sem = 1
  /\ sem' = 0 /\ task' = "scan" /\ left' = FALSE
  /\ UNCHANGED <<rxVars, R, isr, get, hold, p, pool, netVars, arrived, refused, delivered>>

\* Mutant: the descriptor goes back to the engine before its frame is copied.
ScanReleases ==
  /\ EthIfRuns /\ task = "scan"
  /\ IF own[get] = "cpu"
     THEN /\ hold' = get /\ get' = Succ(get) /\ task' = "alloc"
          /\ own' = [own EXCEPT ![get] = "dma"]
     ELSE task' = "poll" /\ UNCHANGED <<get, hold, own>>
  /\ UNCHANGED <<buffer, dma, fifo, RBUS, due, R, isr, sem, p, pool, netVars, history>>

\* ETH_Get_Received_Frame_interrupt
Scan ==
  /\ EthIfRuns /\ task = "scan"
  /\ IF own[get] = "cpu"
     THEN hold' = get /\ get' = Succ(get) /\ task' = "alloc"
     ELSE task' = "poll" /\ UNCHANGED <<get, hold>>       \* frame.length = 0
  /\ UNCHANGED <<rxVars, R, isr, sem, p, pool, netVars, history>>

\* pbuf_alloc and the copy. Without a pbuf the frame is lost.
Alloc ==
  /\ EthIfRuns /\ task = "alloc" /\ task' = "release"
  /\ IF pool > 0
     THEN pool' = pool - 1 /\ p' = buffer[hold] /\ UNCHANGED <<left, refused>>
     ELSE /\ left' = TRUE /\ refused' = refused \cup {buffer[hold]}
          /\ UNCHANGED <<pool, p>>
  /\ UNCHANGED <<rxVars, R, isr, sem, get, hold, netVars, arrived, delivered>>

\* Mutant: a descriptor whose frame was refused is not given back.
ReleaseIfCopied ==
  /\ EthIfRuns /\ task = "release" /\ task' = "poll"
  /\ own' = IF p = 0 THEN own ELSE [own EXCEPT ![hold] = "dma"]
  /\ hold' = NoDesc
  /\ UNCHANGED <<buffer, dma, fifo, RBUS, due, R, isr, sem, get, p, pool, netVars, history>>

Release ==
  /\ EthIfRuns /\ task = "release" /\ task' = "poll"
  /\ own' = [own EXCEPT ![hold] = "dma"] /\ hold' = NoDesc
  /\ UNCHANGED <<buffer, dma, fifo, RBUS, due, R, isr, sem, get, p, pool, netVars, history>>

\* Mutant: the poll demand only after a frame that was taken.
PollIfTaken ==
  /\ EthIfRuns /\ task = "poll"
  /\ RBUS' = (RBUS /\ p = 0)
  /\ task' = IF p = 0 THEN "take" ELSE "input"
  /\ UNCHANGED <<own, buffer, dma, fifo, due, R, isr, sem, get, hold, p, pool,
                 netVars, history>>

\* Mutant: the empty ring makes the task discard a semaphore given meanwhile.
PollDrains ==
  /\ EthIfRuns /\ task = "poll"
  /\ RBUS' = FALSE
  /\ task' = IF p = 0 THEN "take" ELSE "input"
  /\ sem' = IF p = 0 THEN 0 ELSE sem
  /\ UNCHANGED <<own, buffer, dma, fifo, due, R, isr, get, hold, p, pool, netVars, history>>

\* The receive poll demand, then the test of p in ethernetif_input.
PollDemand ==
  /\ EthIfRuns /\ task = "poll"
  /\ RBUS' = FALSE
  /\ task' = IF p = 0 THEN "take" ELSE "input"
  /\ UNCHANGED <<own, buffer, dma, fifo, due, R, isr, sem, get, hold, p, pool,
                 netVars, history>>

\* tcpip_inpkt needs a message of the pool and room in the mailbox. When it
\* fails the pbuf is freed and the task goes back to the semaphore.
Held(f) == IF f = 0 THEN 0 ELSE 1
Accepts == Len(mbox) < MboxSize /\ Len(mbox) + Held(handled) < MsgSlots

\* Mutant: the pbuf of a refused frame is not freed.
InputLeaks ==
  /\ EthIfRuns /\ task = "input"
  /\ p' = 0
  /\ \/ /\ Accepts
        /\ mbox' = Append(mbox, p) /\ task' = "scan" /\ UNCHANGED <<left, refused>>
     \/ /\ ~Accepts
        /\ left' = TRUE /\ refused' = refused \cup {p} /\ task' = "take" /\ UNCHANGED mbox
  /\ UNCHANGED <<rxVars, R, isr, sem, get, hold, pool, handled, kept, arrived, delivered>>

\* Mutant: one frame for each semaphore.
InputOnce ==
  /\ EthIfRuns /\ task = "input"
  /\ p' = 0 /\ task' = "take"
  /\ \/ Accepts /\ mbox' = Append(mbox, p) /\ UNCHANGED <<pool, left, refused>>
     \/ /\ ~Accepts
        /\ pool' = pool + 1 /\ left' = TRUE /\ refused' = refused \cup {p} /\ UNCHANGED mbox
  /\ UNCHANGED <<rxVars, R, isr, sem, get, hold, handled, kept, arrived, delivered>>

Input ==
  /\ EthIfRuns /\ task = "input"
  /\ p' = 0
  /\ \/ /\ Accepts
        /\ mbox' = Append(mbox, p) /\ task' = "scan" /\ UNCHANGED <<pool, left, refused>>
     \/ /\ ~Accepts
        /\ pool' = pool + 1 /\ left' = TRUE /\ refused' = refused \cup {p}
        /\ task' = "take" /\ UNCHANGED mbox
  /\ UNCHANGED <<rxVars, R, isr, sem, get, hold, handled, kept, arrived, delivered>>

LowLevelInput == Scan \/ Alloc \/ Release \/ PollDemand
EthIf == SemaphoreTake \/ LowLevelInput \/ Input

\* tcpip_thread: TCP keeps the pbuf for the server thread, or it is freed.
Fetch ==
  /\ StackRuns /\ handled = 0 /\ mbox # <<>>
  /\ handled' = Head(mbox) /\ mbox' = Tail(mbox)
  /\ delivered' = Append(delivered, Head(mbox))
  /\ UNCHANGED <<rxVars, R, isr, sem, taskVars, pool, kept, arrived, left, refused>>

HandleMsg ==
  /\ StackRuns /\ handled # 0 /\ handled' = 0
  /\ \/ kept' = kept + 1 /\ UNCHANGED pool
     \/ pool' = pool + 1 /\ UNCHANGED kept
  /\ UNCHANGED <<rxVars, R, isr, sem, taskVars, mbox, history>>

\* The server thread deletes the netbuf of a segment it has handled.
NetbufDelete ==
  /\ ServerRuns /\ kept > 0
  /\ kept' = kept - 1 /\ pool' = pool + 1
  /\ UNCHANGED <<rxVars, R, isr, sem, taskVars, mbox, handled, history>>

Threads == EthIf \/ Fetch \/ HandleMsg \/ NetbufDelete

Next == FrameArrives \/ Dma \/ ETH_IRQHandler \/ Threads

Spec == Init /\ [][Next]_vars

\* The engine goes on, interrupts are enabled, and the threads run whenever
\* nothing of a higher priority does.
Fairness ==
  /\ WF_vars(Dma) /\ WF_vars(ETH_IRQHandler) /\ WF_vars(EthIf)
  /\ WF_vars(Fetch \/ HandleMsg) /\ WF_vars(NetbufDelete)

FairSpec == Spec /\ Fairness

-----------------------------------------------------------------------------
Tasks == {"take", "scan", "alloc", "release", "poll", "input"}

\* Types. hold names a descriptor exactly while a found frame is unreleased.
TypeOK ==
  /\ own \in [Descs -> {"dma", "cpu"}] /\ buffer \in [Descs -> Frames \cup {0}]
  /\ dma \in Descs /\ get \in Descs /\ hold \in Descs \cup {NoDesc}
  /\ fifo \in Frames \cup {0} /\ p \in Frames \cup {0} /\ handled \in Frames \cup {0}
  /\ {RBUS, due, R, left} \subseteq BOOLEAN
  /\ isr \in {"idle", "clear"} /\ sem \in {0, 1} /\ task \in Tasks
  /\ pool \in 0 .. PoolSize /\ kept \in 0 .. PoolSize
  /\ mbox \in Seq(Frames) /\ delivered \in Seq(Frames)
  /\ arrived \in 0 .. MaxFrames /\ refused \subseteq Frames
  /\ hold \in Descs <=> task \in {"alloc", "release"}

\* The frames in descriptors the scan has not reached, oldest first.
Waiting ==
  LET owned == {d \in Descs : own[d] = "cpu"} \ {hold}
  IN  [i \in 1 .. Cardinality(owned) |-> buffer[(get + i - 1) % RxDescs]]

InTask == CASE task = "alloc" -> <<buffer[hold]>>
            [] p # 0          -> <<p>>
            [] OTHER          -> <<>>

Stored == IF fifo = 0 THEN arrived ELSE arrived - 1

Elements(s) == {s[i] : i \in 1 .. Len(s)}
Ascending(s) == \A i, j \in 1 .. Len(s) : i < j => s[i] < s[j]

\* Every frame the engine stored reaches the TCP/IP thread once and in the
\* order of arrival, whatever the ring, the task and the mailbox are doing,
\* unless a full pool or mailbox refused it (ethernetif.c, low_level_input).
EachFrameOnceInOrder ==
  LET line == delivered \o mbox \o InTask \o Waiting
  IN  Ascending(line) /\ Elements(line) = (1 .. Stored) \ refused

\* Engine and processor agree on the ring without sharing an index: the
\* descriptors handed over are those from the one the task holds, or would
\* scan next, up to the one the engine uses next.
RingAgrees ==
  LET owned  == {d \in Descs : own[d] = "cpu"}
      oldest == IF hold = NoDesc THEN get ELSE hold
  IN  /\ owned = {(oldest + i) % RxDescs : i \in 0 .. Cardinality(owned) - 1}
      /\ dma = (oldest + Cardinality(owned)) % RxDescs

\* No pbuf is lost or freed twice on any path, the refused frame included
\* (ethernetif_input frees it, tcpip_inpkt does not).
PbufsAccounted ==
  PoolSize = pool + kept + Len(mbox) + Held(p) + Held(handled)

\* While the task waits with a frame in the ring, something will wake it: the
\* semaphore, or an interrupt that is to come. The one exception is a task
\* that left its loop early.
Woken == sem = 1 \/ R \/ due
NoLostWakeup == task = "take" /\ own[get] = "cpu" => Woken \/ left

\* A suspended engine is always resumed, because the poll demand is made after
\* every descriptor that is given back, whether its frame was taken or refused.
EngineResumes == RBUS ~> ~RBUS

\* A frame in the ring is taken out of it, or the task left its loop early.
InRing(f) == \E d \in Descs : own[d] = "cpu" /\ buffer[d] = f
FrameTaken == \A f \in Frames : InRing(f) ~> (~InRing(f) \/ left)

\* The task "is processed when a packet is ready to be read" (ethernetif.c,
\* line 298): no frame stays in the ring for good.
FramesServed == \A f \in Frames : InRing(f) ~> ~InRing(f)
=============================================================================
