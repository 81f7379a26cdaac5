---------------------------- MODULE EthRxProofs ----------------------------
(***************************************************************************)
(* Proofs about EthRx, for every size of ring, pool and mailbox, with and  *)
(* without thread priorities: types, no pbuf is lost, no wake-up is lost,  *)
(* engine and processor agree on the ring, the frames come in order.       *)
(***************************************************************************)
EXTENDS EthRx, FiniteSetTheorems, SequenceTheorems, TLAPS

\* How the parts of the state go together: what the task holds at each of its
\* statements, and that an interrupt in its second half has given the semaphore.
Holding ==
  /\ p # 0 => task \in {"release", "poll", "input"}
  /\ task = "input" => p # 0
  /\ hold \in Descs => own[hold] = "cpu"
  /\ \A d \in Descs : own[d] = "cpu" => buffer[d] # 0
  /\ isr = "clear" => sem = 1

\* The task will scan no more before it waits again.
Leaving == task = "take" \/ (task \in {"release", "poll"} /\ p = 0)

\* NoLostWakeup from the moment on at which the task stops to scan.
WakeupKept == Leaving /\ own[get] = "cpu" => Woken \/ left

IInv == TypeOK /\ PbufsAccounted /\ Holding /\ WakeupKept

LEMMA Sizes ==
  /\ RxDescs \in Nat /\ RxDescs > 0 /\ PoolSize \in Nat /\ PoolSize > 0
  /\ MboxSize \in Nat /\ MsgSlots \in Nat /\ MaxFrames \in Nat
  BY EthRxAssumption

LEMMA SuccType == \A d \in Descs : Succ(d) \in Descs
  BY Sizes DEF Descs, Succ

LEMMA NoDescApart == NoDesc \notin Descs
  BY Sizes DEF Descs, NoDesc

LEMMA HeldNat == \A f : Held(f) \in {0, 1}
  BY DEF Held

LEMMA InitHolds == Init => IInv
  <1> SUFFICES ASSUME Init PROVE IInv  OBVIOUS
  <1> USE Sizes, NoDescApart DEF Init
  <1>1. TypeOK
    <2>1. dma \in Descs /\ get \in Descs
      BY DEF Descs
    <2>2. mbox \in Seq(Frames) /\ delivered \in Seq(Frames)
      OBVIOUS
    <2>3. pool \in 0 .. PoolSize /\ kept \in 0 .. PoolSize /\ arrived \in 0 .. MaxFrames
      OBVIOUS
    <2> QED BY <2>1, <2>2, <2>3 DEF TypeOK, Tasks
  <1>2. PbufsAccounted
    BY DEF PbufsAccounted, Held
  <1>3. Holding
    BY DEF Holding
  <1>4. WakeupKept
    BY DEF WakeupKept, Descs
  <1> QED BY <1>1, <1>2, <1>3, <1>4 DEF IInv

LEMMA ArrivesKeeps == IInv /\ FrameArrives => IInv'
  BY Sizes DEF IInv, TypeOK, PbufsAccounted, Holding, WakeupKept, Frames, Held, Leaving, Woken,
         FrameArrives, taskVars, netVars

LEMMA DmaKeeps == IInv /\ Dma => IInv'
  <1> SUFFICES ASSUME IInv, Dma PROVE IInv'  OBVIOUS
  <1> USE DEF IInv
  <1>1. CASE DmaStore
    BY <1>1, SuccType DEF TypeOK, PbufsAccounted, Holding, WakeupKept, Frames, Held,
       Leaving, Woken, DmaStore, taskVars, netVars, history
  <1>2. CASE DmaRaise
    BY <1>2 DEF TypeOK, PbufsAccounted, Holding, WakeupKept, Frames, Held,
       Leaving, Woken, DmaRaise, taskVars, netVars, history
  <1>3. CASE DmaSuspend
    BY <1>3 DEF TypeOK, PbufsAccounted, Holding, WakeupKept, Frames, Held,
       Leaving, Woken, DmaSuspend, taskVars, netVars, history
  <1> QED BY <1>1, <1>2, <1>3 DEF Dma

LEMMA InterruptKeeps == IInv /\ ETH_IRQHandler => IInv'
  BY DEF IInv, TypeOK, PbufsAccounted, Holding, WakeupKept, Held, Leaving, Woken,
         ETH_IRQHandler, GiveFromISR, ClearPending, rxVars, taskVars, netVars, history

LEMMA TakeKeeps == IInv /\ SemaphoreTake => IInv'
  BY DEF IInv, TypeOK, PbufsAccounted, Holding, WakeupKept, Held, Leaving, Woken, Tasks,
         SemaphoreTake, EthIfRuns, rxVars, netVars

LEMMA ScanKeeps == IInv /\ Scan => IInv'
  <1> SUFFICES ASSUME IInv, Scan PROVE IInv'  OBVIOUS
  <1> USE SuccType, NoDescApart DEF IInv, Scan, rxVars, netVars, history
  <1>1. TypeOK'
    BY DEF TypeOK, Tasks
  <1>2. PbufsAccounted'
    BY DEF PbufsAccounted, Held
  <1>3. Holding'
    BY DEF Holding, TypeOK
  <1>4. WakeupKept'
    BY DEF WakeupKept, Holding, Leaving, Woken, TypeOK
  <1> QED BY <1>1, <1>2, <1>3, <1>4

LEMMA AllocKeeps == IInv /\ Alloc => IInv'
  <1> SUFFICES ASSUME IInv, Alloc PROVE IInv'  OBVIOUS
  <1> USE DEF IInv, Alloc, rxVars, netVars
  <1>1. hold \in Descs /\ buffer[hold] \in Frames /\ p = 0
    <2>1. hold \in Descs
      BY DEF TypeOK
    <2>2. p = 0
      BY DEF Holding
    <2>3. buffer[hold] # 0 /\ buffer[hold] \in Frames \cup {0}
      BY <2>1 DEF Holding, TypeOK
    <2> QED BY <2>1, <2>2, <2>3
  <1>2. TypeOK'
    <2>1. pool' \in 0 .. PoolSize /\ p' \in Frames \cup {0}
      BY Sizes, <1>1 DEF TypeOK
    <2>2. refused' \subseteq Frames /\ left' \in BOOLEAN
      BY <1>1 DEF TypeOK
    <2> QED BY <1>1, <2>1, <2>2 DEF TypeOK, Tasks
  <1>3. PbufsAccounted'
    <2>1. Held(p) = 0 /\ Held(buffer[hold]) = 1 /\ Held(handled') = Held(handled)
      BY <1>1 DEF Held, Frames
    <2>2. Len(mbox') = Len(mbox) /\ Len(mbox) \in Nat /\ kept' = kept /\ kept \in Nat /\ pool \in Nat
      BY Sizes DEF TypeOK
    <2>3. pool' + Held(p') = pool + Held(p)
      BY <2>1, <2>2, <1>1 DEF Held
    <2> QED BY Sizes, <2>1, <2>2, <2>3, HeldNat DEF PbufsAccounted
  <1>4. Holding'
    BY DEF Holding
  <1>5. WakeupKept'
    BY <1>1 DEF WakeupKept, Leaving, Woken, TypeOK, Frames
  <1> QED BY <1>2, <1>3, <1>4, <1>5

LEMMA ReleaseKeeps == IInv /\ Release => IInv'
  <1> SUFFICES ASSUME IInv, Release PROVE IInv'  OBVIOUS
  <1> USE NoDescApart DEF IInv, Release, netVars, history
  <1>1. TypeOK'
    BY DEF TypeOK, Tasks
  <1>2. PbufsAccounted'
    BY DEF PbufsAccounted, Held
  <1>3. Holding'
    BY DEF Holding, TypeOK
  <1>4. WakeupKept'
    BY DEF WakeupKept, Leaving, Woken, TypeOK
  <1> QED BY <1>1, <1>2, <1>3, <1>4

LEMMA PollKeeps == IInv /\ PollDemand => IInv'
  <1> SUFFICES ASSUME IInv, PollDemand PROVE IInv'  OBVIOUS
  <1> USE DEF IInv, PollDemand, netVars, history
  <1>1. TypeOK'
    BY DEF TypeOK, Tasks
  <1>2. PbufsAccounted'
    BY DEF PbufsAccounted, Held
  <1>3. Holding'
    BY DEF Holding
  <1>4. WakeupKept'
    BY DEF WakeupKept, Leaving, Woken
  <1> QED BY <1>1, <1>2, <1>3, <1>4

LEMMA InputKeeps == IInv /\ Input => IInv'
  <1> SUFFICES ASSUME IInv, Input PROVE IInv'  OBVIOUS
  <1> USE Sizes DEF IInv, Input, rxVars
  <1>1. p \in Frames
    BY DEF TypeOK, Holding
  <1>2. CASE Accepts /\ mbox' = Append(mbox, p) /\ task' = "scan"
             /\ UNCHANGED <<pool, left, refused>>
    <2>1. mbox' \in Seq(Frames) /\ Len(mbox') = Len(mbox) + 1
      BY <1>1, <1>2 DEF TypeOK
    <2>2. TypeOK'
      BY <1>2, <2>1 DEF TypeOK, Tasks
    <2>3. PbufsAccounted'
      <3>1. Held(p) = 1 /\ Held(p') = 0 /\ Held(handled') = Held(handled)
        BY <1>1 DEF Held, Frames
      <3> QED BY <1>2, <2>1, <3>1, HeldNat DEF PbufsAccounted, TypeOK
    <2>4. Holding' /\ WakeupKept'
      BY <1>2 DEF Holding, WakeupKept, Leaving
    <2> QED BY <2>2, <2>3, <2>4
  <1>3. CASE ~Accepts /\ pool' = pool + 1 /\ left' = TRUE
             /\ refused' = refused \cup {p} /\ task' = "take" /\ UNCHANGED mbox
    <2>1. PbufsAccounted'
      BY <1>1, <1>3 DEF PbufsAccounted, Held, TypeOK, Frames
    <2>2. pool' \in 0 .. PoolSize
      BY <1>1, <1>3 DEF PbufsAccounted, Held, TypeOK, Frames
    <2>3. TypeOK'
      BY <1>1, <1>3, <2>2 DEF TypeOK, Tasks
    <2>4. Holding' /\ WakeupKept'
      BY <1>3 DEF Holding, WakeupKept, Woken
    <2> QED BY <2>1, <2>3, <2>4
  <1> QED BY <1>2, <1>3

LEMMA StackKeeps == IInv /\ (Fetch \/ HandleMsg \/ NetbufDelete) => IInv'
  <1> SUFFICES ASSUME IInv, Fetch \/ HandleMsg \/ NetbufDelete PROVE IInv'  OBVIOUS
  <1> USE Sizes DEF IInv, rxVars, taskVars, history
  <1>1. Holding' /\ WakeupKept'
    BY DEF Fetch, HandleMsg, NetbufDelete, Holding, WakeupKept, Leaving, Woken
  <1>2. CASE Fetch
    <2>1. /\ Head(mbox) \in Frames /\ mbox' \in Seq(Frames) /\ Len(mbox') = Len(mbox) - 1
          /\ delivered' \in Seq(Frames)
      BY <1>2 DEF Fetch, TypeOK
    <2>2. TypeOK'
      BY <1>2, <2>1 DEF Fetch, TypeOK
    <2>3. PbufsAccounted'
      BY <1>2, <2>1 DEF Fetch, PbufsAccounted, Held, TypeOK, Frames
    <2> QED BY <1>1, <2>2, <2>3
  <1>3. CASE HandleMsg \/ NetbufDelete
    <2>1. PbufsAccounted'
      <3>1. Held(p') = Held(p) /\ Len(mbox') = Len(mbox) /\ Len(mbox) \in Nat
        BY <1>3 DEF HandleMsg, NetbufDelete, Held, TypeOK
      <3>2. CASE HandleMsg
        <4>1. Held(handled) = 1 /\ Held(handled') = 0
          BY <3>2 DEF HandleMsg, Held
        <4> QED BY <3>1, <3>2, <4>1, HeldNat, SMTT(30) DEF HandleMsg, PbufsAccounted, TypeOK
      <3>3. CASE NetbufDelete
        <4>1. Held(handled') = Held(handled)
          BY <3>3 DEF NetbufDelete
        <4> QED BY <3>1, <3>3, <4>1, HeldNat DEF NetbufDelete, PbufsAccounted, TypeOK
      <3> QED BY <1>3, <3>2, <3>3
    <2>2. pool' \in 0 .. PoolSize /\ kept' \in 0 .. PoolSize
      BY <1>3, SMTT(30) DEF HandleMsg, NetbufDelete, PbufsAccounted, Held, TypeOK
    <2>3. TypeOK'
      BY <1>3, <2>2 DEF HandleMsg, NetbufDelete, TypeOK
    <2> QED BY <1>1, <2>1, <2>3
  <1> QED BY <1>2, <1>3

LEMMA StutterKeeps == IInv /\ UNCHANGED vars => IInv'
  BY DEF IInv, TypeOK, PbufsAccounted, Holding, WakeupKept, Held, Leaving, Woken,
         vars, rxVars, taskVars, netVars, history

\* The inductive invariant: types, pbufs, what the task holds, the wake-up.
THEOREM Invariance == Spec => []IInv
  <1>1. IInv /\ [Next]_vars => IInv'
    BY ArrivesKeeps, DmaKeeps, InterruptKeeps, TakeKeeps, ScanKeeps, AllocKeeps,
       ReleaseKeeps, PollKeeps, InputKeeps, StackKeeps, StutterKeeps
       DEF Next, Threads, EthIf, LowLevelInput
  <1> QED BY InitHolds, <1>1, PTL DEF Spec

\* The state keeps its types; the free pbufs stay within the pool.
THEOREM RxTypeCorrect == Spec => []TypeOK
  <1>1. IInv => TypeOK
    BY DEF IInv
  <1> QED BY <1>1, Invariance, PTL

\* No path of the receive task or the stack loses a pbuf or frees one twice.
THEOREM PbufsConserved == Spec => []PbufsAccounted
  <1>1. IInv => PbufsAccounted
    BY DEF IInv
  <1> QED BY <1>1, Invariance, PTL

\* Semaphore and interrupt flag lose no wake-up: a task that waits in front of
\* a frame will be woken, unless it left its loop early.
THEOREM NoWakeupLost == Spec => []NoLostWakeup
  <1>1. IInv => NoLostWakeup
    BY DEF IInv, WakeupKept, Leaving, NoLostWakeup
  <1> QED BY <1>1, Invariance, PTL
-----------------------------------------------------------------------------
(* The ring of descriptors.                                                *)

\* Indices wrap round at most once.
LEMMA Wrap ==
  \A k \in Nat : k < 2 * RxDescs => k % RxDescs = IF k < RxDescs THEN k ELSE k - RxDescs
  BY Sizes
LEMMA Turns ==
  ASSUME NEW a \in Descs, NEW i \in Nat, i <= RxDescs
  PROVE  /\ (a + i) % RxDescs = IF a + i < RxDescs THEN a + i ELSE a + i - RxDescs
         /\ (a + i) % RxDescs \in Descs
         /\ Succ(a) = IF a + 1 < RxDescs THEN a + 1 ELSE 0
         /\ i < RxDescs => Succ((a + i) % RxDescs) = (a + (i + 1)) % RxDescs
  <1>1. a \in Nat /\ a < RxDescs /\ RxDescs \in Nat /\ RxDescs > 0
    BY Sizes DEF Descs
  <1>2. (a + i) % RxDescs = IF a + i < RxDescs THEN a + i ELSE a + i - RxDescs
    BY <1>1, Wrap
  <1>3. (a + i) % RxDescs \in Descs
    BY <1>1, <1>2 DEF Descs
  <1>4. \A d \in Descs : Succ(d) = IF d + 1 < RxDescs THEN d + 1 ELSE 0
    BY <1>1, Wrap DEF Succ, Descs
  <1>5. i < RxDescs => (a + (i + 1)) % RxDescs =
          IF a + (i + 1) < RxDescs THEN a + (i + 1) ELSE a + (i + 1) - RxDescs
    BY <1>1, Wrap
  <1> QED BY <1>1, <1>2, <1>3, <1>4, <1>5

\* The descriptors the processor owns, the oldest of them, and n of them from
\* one on, round the ring.
Owned == {d \in Descs : own[d] = "cpu"}
Oldest == IF hold = NoDesc THEN get ELSE hold
Arc(a, n) == {(a + i) % RxDescs : i \in 0 .. n - 1}

RingInv ==
  /\ RingAgrees
  /\ hold # NoDesc => get = Succ(hold)

LEMMA RingRead ==
  RingAgrees <=> /\ Owned = Arc(Oldest, Cardinality(Owned))
                 /\ dma = (Oldest + Cardinality(Owned)) % RxDescs
  BY DEF RingAgrees, Owned, Oldest, Arc

LEMMA OwnedCount ==
  /\ IsFiniteSet(Owned) /\ Cardinality(Owned) \in Nat /\ Cardinality(Owned) <= RxDescs
  <1>1. IsFiniteSet(Descs) /\ Cardinality(Descs) = RxDescs
    BY Sizes, FS_Interval DEF Descs
  <1>2. Owned \subseteq Descs
    BY DEF Owned
  <1> QED BY <1>1, <1>2, FS_Subset, FS_CardinalityType

LEMMA OldestType == ASSUME IInv PROVE Oldest \in Descs
  BY DEF Oldest, IInv, TypeOK

\* One more descriptor at the end of the arc, one less at its beginning.
LEMMA ArcGrows ==
  ASSUME NEW a, NEW n \in Nat
  PROVE  Arc(a, n + 1) = Arc(a, n) \cup {(a + n) % RxDescs}
  <1>1. 0 .. (n + 1) - 1 = (0 .. n - 1) \cup {n}
    OBVIOUS
  <1> QED BY <1>1 DEF Arc

LEMMA ArcShrinks ==
  ASSUME NEW a \in Descs, NEW n \in Nat, n + 1 <= RxDescs
  PROVE  /\ Arc(Succ(a), n) = Arc(a, n + 1) \ {a}
         /\ (Succ(a) + n) % RxDescs = (a + (n + 1)) % RxDescs
  <1>1. a \in Nat /\ a < RxDescs /\ RxDescs \in Nat /\ RxDescs > 0
    BY Sizes DEF Descs
  <1>2. Succ(a) \in Descs /\ Succ(a) = IF a + 1 < RxDescs THEN a + 1 ELSE 0
    BY <1>1, SuccType, Turns
  <1>3. ASSUME NEW i \in Nat, i + 1 <= RxDescs
        PROVE  (Succ(a) + i) % RxDescs = (a + (i + 1)) % RxDescs
    <2>1. PICK b \in Descs : b = Succ(a)
      BY <1>2
    <2>2. i <= RxDescs
      BY <1>1, <1>3
    <2>3. (b + i) % RxDescs = IF b + i < RxDescs THEN b + i ELSE b + i - RxDescs
      BY <2>2, Turns
    <2>4. (a + (i + 1)) % RxDescs =
            IF a + (i + 1) < RxDescs THEN a + (i + 1) ELSE a + (i + 1) - RxDescs
      BY <1>1, <1>3, Turns
    <2> QED BY <1>1, <1>2, <1>3, <2>1, <2>3, <2>4
  <1>4. ASSUME NEW j \in 1 .. n
        PROVE  (a + j) % RxDescs # a
    <2>1. (a + j) % RxDescs = IF a + j < RxDescs THEN a + j ELSE a + j - RxDescs
      BY <1>1, Turns
    <2> QED BY <1>1, <2>1
  <1>5. (a + 0) % RxDescs = a
    BY <1>1, Turns
  <1>6. Arc(a, n + 1) = {a} \cup {(a + j) % RxDescs : j \in 1 .. n}
    <2>1. 0 .. (n + 1) - 1 = {0} \cup 1 .. n
      OBVIOUS
    <2> QED BY <1>5, <2>1 DEF Arc
  <1>7. Arc(Succ(a), n) = {(a + j) % RxDescs : j \in 1 .. n}
    <2>1. ASSUME NEW i \in 0 .. n - 1
          PROVE  i + 1 \in 1 .. n /\ (Succ(a) + i) % RxDescs = (a + (i + 1)) % RxDescs
      BY <1>1, <1>3
    <2>2. ASSUME NEW j \in 1 .. n
          PROVE  \E i \in 0 .. n - 1 : (Succ(a) + i) % RxDescs = (a + j) % RxDescs
      <3>1. j - 1 \in 0 .. n - 1 /\ (j - 1) + 1 = j
        OBVIOUS
      <3>2. (Succ(a) + (j - 1)) % RxDescs = (a + ((j - 1) + 1)) % RxDescs
        BY <2>1, <3>1
      <3> QED BY <3>1, <3>2
    <2> QED BY <2>1, <2>2 DEF Arc
  <1> QED BY <1>3, <1>4, <1>6, <1>7

\* The engine hands over the descriptor behind the last.
LEMMA StoreRing ==
  ASSUME IInv, RingInv, DmaStore
  PROVE  RingInv'
  <1> DEFINE n == Cardinality(Owned)
  <1>1. /\ own[dma] = "dma" /\ own' = [own EXCEPT ![dma] = "cpu"] /\ dma' = Succ(dma)
        /\ UNCHANGED <<get, hold>> /\ dma \in Descs /\ own \in [Descs -> {"dma", "cpu"}]
    BY DEF DmaStore, taskVars, IInv, TypeOK
  <1>2. Owned' = Owned \cup {dma} /\ dma \notin Owned
    BY <1>1 DEF Owned
  <1>3. PICK m \in Nat : m = n
    BY OwnedCount
  <1>4. Cardinality(Owned') = m + 1
    BY <1>2, <1>3, OwnedCount, FS_AddElement
  <1>5. m + 1 <= RxDescs
    <2>1. (Cardinality(Owned) <= RxDescs)'
      BY OwnedCount, PTL
    <2> QED BY <1>4, <2>1
  <1>6. Owned = Arc(Oldest, m) /\ dma = (Oldest + m) % RxDescs
    BY <1>3, RingRead DEF RingInv
  <1>7. Oldest' = Oldest /\ Oldest \in Descs
    BY <1>1, OldestType DEF Oldest
  <1>8. Owned' = Arc(Oldest, m + 1)
    BY <1>2, <1>6, ArcGrows
  <1>9. dma' = (Oldest + (m + 1)) % RxDescs
    <2>1. m < RxDescs /\ m <= RxDescs
      BY <1>5, Sizes
    <2> QED BY <1>1, <1>6, <1>7, <2>1, Turns
  <1>10. Owned' = Arc(Oldest', Cardinality(Owned')) /\ dma' = (Oldest' + Cardinality(Owned')) % RxDescs
    BY <1>4, <1>7, <1>8, <1>9
  <1>11. RingAgrees'
    BY <1>10 DEF RingAgrees, Owned, Oldest, Arc
  <1> QED BY <1>1, <1>11 DEF RingInv

\* The scan takes the oldest descriptor; the release gives it back.
LEMMA ScanRing ==
  ASSUME IInv, RingInv, Scan
  PROVE  RingInv'
  <1>1. task = "scan" /\ hold = NoDesc /\ get \in Descs /\ get # NoDesc
    BY NoDescApart DEF Scan, IInv, TypeOK
  <1>2. UNCHANGED <<own, dma>> /\ Oldest' = Oldest
    BY <1>1 DEF Scan, rxVars, Oldest
  <1>3. RingAgrees'
    BY <1>2 DEF RingInv, RingAgrees, Oldest
  <1>4. hold' # NoDesc => get' = Succ(hold')
    BY <1>1 DEF Scan
  <1> QED BY <1>3, <1>4 DEF RingInv, NoDesc, Succ

LEMMA ReleaseRing ==
  ASSUME IInv, RingInv, Release
  PROVE  RingInv'
  <1>1. /\ hold \in Descs /\ hold # NoDesc /\ own[hold] = "cpu"
        /\ own' = [own EXCEPT ![hold] = "dma"] /\ hold' = NoDesc
        /\ UNCHANGED <<dma, get>> /\ own \in [Descs -> {"dma", "cpu"}]
    BY NoDescApart DEF Release, IInv, TypeOK, Holding
  <1>2. get = Succ(hold) /\ Oldest = hold /\ Oldest' = get
    BY <1>1 DEF RingInv, Oldest, NoDesc
  <1>3. Owned' = Owned \ {hold} /\ hold \in Owned
    BY <1>1 DEF Owned
  <1>4. PICK k \in Nat : k = Cardinality(Owned) /\ k <= RxDescs
    BY OwnedCount
  <1>5. Cardinality(Owned') = k - 1 /\ Cardinality(Owned') \in Nat
    <2>1. Cardinality(Owned \ {hold}) = Cardinality(Owned) - 1
      BY <1>3, OwnedCount, FS_RemoveElement
    <2>2. (Cardinality(Owned) \in Nat)'
      BY OwnedCount, PTL
    <2> QED BY <1>3, <1>4, <2>1, <2>2
  <1>6. PICK m \in Nat : m = Cardinality(Owned')
    BY <1>5
  <1>7. k = m + 1
    BY <1>5, <1>6
  <1>8. Owned = Arc(hold, m + 1) /\ dma = (hold + (m + 1)) % RxDescs
    BY <1>2, <1>4, <1>7, RingRead DEF RingInv
  <1>9. Owned' = Arc(get, m) /\ dma' = (get + m) % RxDescs
    BY <1>1, <1>2, <1>3, <1>4, <1>7, <1>8, ArcShrinks
  <1>10. Owned' = Arc(Oldest', Cardinality(Owned')) /\ dma' = (Oldest' + Cardinality(Owned')) % RxDescs
    BY <1>2, <1>6, <1>9
  <1>11. RingAgrees'
    BY <1>10 DEF RingAgrees, Owned, Oldest, Arc
  <1> QED BY <1>1, <1>11 DEF RingInv, NoDesc

LEMMA RingSame ==
  ASSUME RingInv, UNCHANGED <<own, dma, get, hold>>
  PROVE  RingInv'
  BY DEF RingInv, RingAgrees, NoDesc, Succ

LEMMA InitRing == Init => RingInv
  <1> SUFFICES ASSUME Init PROVE RingInv
    OBVIOUS
  <1>1. Owned = {} /\ hold = NoDesc /\ Oldest = 0 /\ dma = 0
    BY DEF Init, Owned, Oldest
  <1>2. Cardinality(Owned) = 0
    BY <1>1, FS_EmptySet
  <1>3. Arc(0, 0) = {} /\ (0 + 0) % RxDescs = 0
    BY Turns, Sizes DEF Arc, Descs
  <1> QED BY <1>1, <1>2, <1>3, RingRead DEF RingInv

LEMMA RingAlways == Spec => []RingInv
  <1>1. IInv /\ RingInv /\ [Next]_vars => RingInv'
    <2> SUFFICES ASSUME IInv, RingInv, [Next]_vars PROVE RingInv'
      OBVIOUS
    <2>1. CASE DmaStore
      BY <2>1, StoreRing
    <2>2. CASE Scan
      BY <2>2, ScanRing
    <2>3. CASE Release
      BY <2>3, ReleaseRing
    <2>4. CASE ~DmaStore /\ ~Scan /\ ~Release
      <3>1. UNCHANGED <<own, dma, get, hold>>
        BY <2>4 DEF Next, Threads, EthIf, LowLevelInput, Dma, DmaRaise, DmaSuspend, FrameArrives,
             ETH_IRQHandler, GiveFromISR, ClearPending, SemaphoreTake, Alloc, PollDemand, Input,
             Fetch, HandleMsg, NetbufDelete, vars, rxVars, taskVars
      <3> QED BY <3>1, RingSame
    <2> QED BY <2>1, <2>2, <2>3, <2>4
  <1> QED BY InitRing, <1>1, Invariance, PTL DEF Spec

\* Engine and processor never disagree on which descriptors hold frames, for
\* every number of descriptors.
THEOREM RingInAgreement == Spec => []RingAgrees
  <1>1. RingInv => RingAgrees
    BY DEF RingInv
  <1> QED BY <1>1, RingAlways, PTL
-----------------------------------------------------------------------------
(* The order of the frames.                                                *)

\* The descriptors the scan has not reached, the last frame it has seen, the
\* frames that have left the task, and the one the task still has.
Unread == Owned \ {hold}
Seen == Stored - Cardinality(Unread)
Passed == delivered \o mbox
InHand == IF task = "alloc" \/ p # 0 THEN {Seen} ELSE {}

\* The unread frames are the last that were stored, so the ring adds nothing to
\* what the task must remember: the number of the frame it saw last.
OrderInv ==
  /\ fifo # 0 => fifo = arrived
  /\ Seen \in Nat
  /\ \A i \in Nat : i < Cardinality(Unread) => buffer[(get + i) % RxDescs] = Seen + i + 1
  /\ hold # NoDesc => buffer[hold] = Seen
  /\ p # 0 => p = Seen
  /\ refused \subseteq 1 .. Seen /\ InHand \cap refused = {}
  /\ Ascending(Passed)
  /\ Elements(Passed) = ((1 .. Seen) \ refused) \ InHand

LEMMA UnreadArc ==
  ASSUME IInv, RingInv
  PROVE  /\ IsFiniteSet(Unread) /\ Cardinality(Unread) \in Nat /\ Cardinality(Unread) <= RxDescs
         /\ Unread = Arc(get, Cardinality(Unread))
         /\ dma = (get + Cardinality(Unread)) % RxDescs
  <1>1. CASE hold = NoDesc
    <2>1. Unread = Owned /\ Oldest = get
      BY <1>1, NoDescApart DEF Unread, Owned, Oldest
    <2> QED BY <2>1, OwnedCount, RingRead DEF RingInv
  <1>2. CASE hold # NoDesc
    <2>1. hold \in Descs /\ hold \in Owned /\ Oldest = hold /\ get = Succ(hold)
      BY <1>2 DEF IInv, TypeOK, Holding, Owned, Oldest, RingInv
    <2>2. PICK k \in Nat : k = Cardinality(Owned) /\ k <= RxDescs
      BY OwnedCount
    <2>3. IsFiniteSet(Unread) /\ Cardinality(Unread) = k - 1
      BY <2>1, <2>2, OwnedCount, FS_RemoveElement DEF Unread
    <2>4. Cardinality(Unread) \in Nat
      BY <2>3, FS_CardinalityType
    <2>5. PICK m \in Nat : m = Cardinality(Unread)
      BY <2>4
    <2>6. k = m + 1
      BY <2>3, <2>5
    <2>7. Owned = Arc(hold, m + 1) /\ dma = (hold + (m + 1)) % RxDescs
      BY <2>1, <2>2, <2>6, RingRead DEF RingInv
    <2>8. Unread = Arc(get, m) /\ dma = (get + m) % RxDescs
      BY <2>1, <2>2, <2>6, <2>7, ArcShrinks DEF Unread
    <2>9. m <= RxDescs
      BY <2>2, <2>6, Sizes
    <2> QED BY <2>3, <2>5, <2>8, <2>9
  <1> QED BY <1>1, <1>2

LEMMA SeqFacts ==
  ASSUME IInv
  PROVE  /\ delivered \in Seq(Nat) /\ mbox \in Seq(Nat) /\ Passed \in Seq(Nat)
         /\ Frames \subseteq Nat /\ arrived \in Nat
  BY Sizes, ConcatProperties DEF IInv, TypeOK, Frames, Passed

LEMMA JoinAscending ==
  ASSUME NEW s \in Seq(Nat), NEW t \in Seq(Nat)
  PROVE  /\ s \o t \in Seq(Nat)
         /\ Elements(s \o t) = Elements(s) \cup Elements(t)
         /\ (/\ Ascending(s) /\ Ascending(t)
             /\ \A x \in Elements(s), y \in Elements(t) : x < y) => Ascending(s \o t)
  <1>1. /\ Len(s) \in Nat /\ Len(t) \in Nat
        /\ s \o t \in Seq(Nat) /\ Len(s \o t) = Len(s) + Len(t)
        /\ \A i \in 1 .. Len(s) : (s \o t)[i] = s[i]
        /\ \A i \in Len(s) + 1 .. Len(s) + Len(t) : (s \o t)[i] = t[i - Len(s)]
    BY ConcatProperties, LenProperties
  <1>2. Elements(s \o t) \subseteq Elements(s) \cup Elements(t)
    <2> SUFFICES ASSUME NEW i \in 1 .. Len(s) + Len(t)
                 PROVE  (s \o t)[i] \in Elements(s) \cup Elements(t)
      BY <1>1 DEF Elements
    <2>1. CASE i <= Len(s)
      BY <1>1, <2>1 DEF Elements
    <2>2. CASE i > Len(s)
      <3>1. i - Len(s) \in 1 .. Len(t) /\ (s \o t)[i] = t[i - Len(s)]
        BY <1>1, <2>2
      <3> QED BY <3>1 DEF Elements
    <2> QED BY <1>1, <2>1, <2>2
  <1>3. Elements(s) \cup Elements(t) \subseteq Elements(s \o t)
    <2>1. ASSUME NEW i \in 1 .. Len(s) PROVE s[i] \in Elements(s \o t)
      BY <1>1 DEF Elements
    <2>2. ASSUME NEW j \in 1 .. Len(t) PROVE t[j] \in Elements(s \o t)
      <3>1. /\ Len(s) + j \in Len(s) + 1 .. Len(s) + Len(t) /\ (Len(s) + j) - Len(s) = j
            /\ Len(s) + j \in 1 .. Len(s \o t)
        BY <1>1
      <3>2. (s \o t)[Len(s) + j] = t[j]
        BY <1>1, <3>1
      <3>3. (s \o t)[Len(s) + j] \in Elements(s \o t)
        BY <3>1 DEF Elements
      <3> QED BY <3>2, <3>3
    <2> QED BY <2>1, <2>2 DEF Elements
  <1>4. ASSUME Ascending(s), Ascending(t), \A x \in Elements(s), y \in Elements(t) : x < y
        PROVE  Ascending(s \o t)
    <2> SUFFICES ASSUME NEW i \in 1 .. Len(s) + Len(t), NEW j \in 1 .. Len(s) + Len(t), i < j
                 PROVE  (s \o t)[i] < (s \o t)[j]
      BY <1>1 DEF Ascending
    <2>1. CASE j <= Len(s)
      BY <1>1, <1>4, <2>1 DEF Ascending
    <2>2. CASE i <= Len(s) /\ j > Len(s)
      <3>1. j - Len(s) \in 1 .. Len(t) /\ (s \o t)[j] = t[j - Len(s)] /\ (s \o t)[i] = s[i]
        BY <1>1, <2>2
      <3> QED BY <1>1, <1>4, <2>2, <3>1 DEF Elements
    <2>3. CASE i > Len(s)
      <3>1. /\ i - Len(s) \in 1 .. Len(t) /\ (s \o t)[i] = t[i - Len(s)]
            /\ j - Len(s) \in 1 .. Len(t) /\ (s \o t)[j] = t[j - Len(s)]
            /\ i - Len(s) < j - Len(s)
        <4>1. i \in Len(s) + 1 .. Len(s) + Len(t) /\ j \in Len(s) + 1 .. Len(s) + Len(t)
          BY <1>1, <2>3
        <4>2. i - Len(s) \in 1 .. Len(t) /\ j - Len(s) \in 1 .. Len(t) /\ i - Len(s) < j - Len(s)
          BY <1>1, <4>1
        <4> QED BY <1>1, <4>1, <4>2
      <3> QED BY <1>4, <3>1 DEF Ascending
    <2> QED BY <1>1, <2>1, <2>2, <2>3
  <1> QED BY <1>1, <1>2, <1>3, <1>4

LEMMA OneElement ==
  ASSUME NEW x \in Nat
  PROVE  <<x>> \in Seq(Nat) /\ Ascending(<<x>>) /\ Elements(<<x>>) = {x}
  BY DEF Ascending, Elements

LEMMA NoElement == <<>> \in Seq(Nat) /\ Ascending(<<>>) /\ Elements(<<>>) = {}
  BY DEF Ascending, Elements

LEMMA JoinOne ==
  ASSUME NEW s \in Seq(Nat), NEW t \in Seq(Nat), NEW x \in Nat
  PROVE  /\ Append(t, x) = t \o <<x>>
         /\ (s \o t) \o <<x>> = s \o Append(t, x)
  <1>1. <<x>> \in Seq(Nat)
    BY OneElement
  <1>2. Append(t, x) = t \o <<x>>
    OBVIOUS
  <1> QED BY <1>1, <1>2, ConcatAssociative

LEMMA MoveOne ==
  ASSUME NEW s \in Seq(Nat), NEW t \in Seq(Nat), t # <<>>
  PROVE  Append(s, Head(t)) \o Tail(t) = s \o t
  <1>1. /\ Head(t) \in Nat /\ Head(t) = t[1] /\ Tail(t) \in Seq(Nat)
        /\ Len(t) \in Nat \ {0} /\ Len(Tail(t)) = Len(t) - 1
        /\ \A i \in 1 .. Len(Tail(t)) : Tail(t)[i] = t[i + 1]
    BY HeadTailProperties, EmptySeq
  <1>2. t = <<Head(t)>> \o Tail(t)
    <2> DEFINE u == <<Head(t)>> \o Tail(t)
    <2>1. /\ u \in Seq(Nat) /\ Len(u) = 1 + Len(Tail(t))
          /\ \A i \in 1 .. Len(u) :
               u[i] = IF i <= 1 THEN <<Head(t)>>[i] ELSE Tail(t)[i - 1]
      <3>1. <<Head(t)>> \in Seq(Nat) /\ Len(<<Head(t)>>) = 1
        BY <1>1
      <3> QED BY <1>1, <3>1, ConcatProperties
    <2> HIDE DEF u
    <2>2. Len(u) = Len(t)
      BY <1>1, <2>1
    <2>3. ASSUME NEW i \in 1 .. Len(t) PROVE t[i] = u[i]
      <3>1. CASE i = 1
        <4>1. u[1] = <<Head(t)>>[1]
          BY <2>1, <2>2, <3>1
        <4> QED BY <1>1, <3>1, <4>1
      <3>2. CASE i # 1
        <4>1. i - 1 \in 1 .. Len(Tail(t)) /\ (i - 1) + 1 = i /\ ~(i <= 1)
          BY <1>1, <3>2
        <4>2. u[i] = Tail(t)[i - 1]
          BY <2>1, <2>2, <4>1
        <4> QED BY <1>1, <4>1, <4>2
      <3> QED BY <3>1, <3>2
    <2>4. t = u
      BY <2>1, <2>2, <2>3, SeqEqual
    <2> QED BY <2>4 DEF u
  <1>3. Append(s, Head(t)) = s \o <<Head(t)>>
    BY <1>1, JoinOne
  <1>4. <<Head(t)>> \in Seq(Nat)
    BY <1>1, OneElement
  <1> QED BY <1>1, <1>2, <1>3, <1>4, ConcatAssociative

\* The engine writes the next frame behind the unread ones.
LEMMA StoreOrder ==
  ASSUME IInv, RingInv, OrderInv, DmaStore
  PROVE  OrderInv'
  <1>1. /\ fifo = arrived /\ fifo # 0 /\ fifo' = 0 /\ dma \in Descs /\ own[dma] = "dma"
        /\ own' = [own EXCEPT ![dma] = "cpu"] /\ buffer' = [buffer EXCEPT ![dma] = fifo]
        /\ UNCHANGED <<arrived, task, get, hold, p, delivered, mbox, refused>>
    BY DEF DmaStore, taskVars, netVars, history, IInv, TypeOK, OrderInv
  <1>2. Stored' = Stored + 1 /\ Stored = arrived - 1 /\ arrived \in Nat
    BY <1>1, SeqFacts DEF Stored
  <1>3. hold # dma
    BY <1>1 DEF IInv, TypeOK, Holding
  <1>4. Unread' = Unread \cup {dma} /\ dma \notin Unread
    BY <1>1, <1>3 DEF Unread, Owned, IInv, TypeOK
  <1>5. PICK n \in Nat : /\ n = Cardinality(Unread) /\ n <= RxDescs /\ Unread = Arc(get, n)
                         /\ dma = (get + n) % RxDescs /\ IsFiniteSet(Unread)
    BY UnreadArc
  <1>6. Cardinality(Unread') = n + 1
    BY <1>4, <1>5, FS_AddElement
  <1>7. Seen' = Seen /\ Seen = Stored - n /\ Seen \in Nat
    <2>1. Seen = Stored - n /\ Seen' = Stored' - (n + 1)
      BY <1>5, <1>6 DEF Seen
    <2>2. Stored \in Int /\ Seen \in Nat
      BY <1>2 DEF OrderInv
    <2> QED BY <1>2, <2>1, <2>2
  <1>8. ASSUME NEW i \in Nat, i < n + 1
        PROVE  buffer'[(get + i) % RxDescs] = Seen + i + 1
    <2>1. CASE i = n
      <3>1. buffer'[dma] = fifo
        BY <1>1 DEF IInv, TypeOK
      <3>2. fifo = Seen + i + 1
        BY <1>1, <1>2, <1>5, <1>7, <2>1
      <3> QED BY <1>5, <2>1, <3>1, <3>2
    <2>2. CASE i < n
      <3>1. (get + i) % RxDescs \in Unread
        <4>1. i \in 0 .. n - 1
          BY <2>2
        <4>2. (get + i) % RxDescs \in Arc(get, n)
          BY <4>1 DEF Arc
        <4> QED BY <1>5, <4>2
      <3>2. (get + i) % RxDescs # dma /\ (get + i) % RxDescs \in Descs
        BY <1>4, <3>1 DEF Unread, Owned
      <3>3. buffer[(get + i) % RxDescs] = Seen + i + 1
        BY <1>5, <2>2 DEF OrderInv
      <3> QED BY <1>1, <3>2, <3>3 DEF IInv, TypeOK
    <2> QED BY <1>8, <2>1, <2>2
  <1>9. hold # NoDesc => buffer'[hold] = Seen
    BY <1>1, <1>3 DEF OrderInv, IInv, TypeOK
  <1>10. Passed' = Passed /\ InHand' = InHand
    BY <1>1, <1>7 DEF Passed, InHand
  <1> QED BY <1>1, <1>6, <1>7, <1>8, <1>9, <1>10 DEF OrderInv, Ascending, Elements, NoDesc

\* The scan sees the oldest of the unread frames.
LEMMA ScanOrder ==
  ASSUME IInv, RingInv, OrderInv, Scan, own[get] = "cpu"
  PROVE  OrderInv'
  <1>1. /\ task = "scan" /\ hold = NoDesc /\ p = 0 /\ get \in Descs /\ get # NoDesc
        /\ hold' = get /\ get' = Succ(get) /\ task' = "alloc"
        /\ UNCHANGED <<own, buffer, fifo, arrived, p, delivered, mbox, refused>>
    BY NoDescApart DEF Scan, IInv, TypeOK, Holding, rxVars, netVars, history
  <1>2. Unread' = Unread \ {get} /\ get \in Unread
    BY <1>1, NoDescApart DEF Unread, Owned
  <1>3. PICK n \in Nat : n = Cardinality(Unread) /\ n <= RxDescs /\ IsFiniteSet(Unread)
    BY UnreadArc
  <1>4. Cardinality(Unread') = n - 1
    BY <1>2, <1>3, FS_RemoveElement
  <1>5. n > 0
    BY <1>2, <1>3, FS_EmptySet
  <1>6. Stored' = Stored /\ Stored \in Int
    BY <1>1, SeqFacts DEF Stored
  <1>7. Seen \in Nat /\ Seen' = Seen + 1
    BY <1>3, <1>4, <1>5, <1>6 DEF Seen, OrderInv
  <1>8. ASSUME NEW i \in Nat, i < n - 1
        PROVE  buffer[(Succ(get) + i) % RxDescs] = Seen' + i + 1
    <2>1. i + 1 \in Nat /\ i + 1 < n /\ i + 1 <= RxDescs
      BY <1>3, <1>8, Sizes
    <2>2. (Succ(get) + i) % RxDescs = (get + (i + 1)) % RxDescs
      BY <1>1, <2>1, ArcShrinks
    <2>3. buffer[(get + (i + 1)) % RxDescs] = Seen + (i + 1) + 1
      BY <1>3, <2>1 DEF OrderInv
    <2> QED BY <1>7, <2>2, <2>3
  <1>9. buffer[get] = Seen'
    <2>1. (get + 0) % RxDescs = get
      BY <1>1, Turns, Sizes DEF Descs
    <2>2. buffer[(get + 0) % RxDescs] = Seen + 0 + 1
      BY <1>3, <1>5 DEF OrderInv
    <2> QED BY <1>7, <2>1, <2>2
  <1>10. InHand = {} /\ InHand' = {Seen'} /\ Passed' = Passed
    BY <1>1 DEF InHand, Passed
  <1>11. refused' \subseteq 1 .. Seen' /\ InHand' \cap refused' = {}
    BY <1>1, <1>7, <1>10 DEF OrderInv
  <1>12. Elements(Passed') = ((1 .. Seen') \ refused') \ InHand'
    <2>1. Elements(Passed) = (1 .. Seen) \ refused
      BY <1>10 DEF OrderInv
    <2>2. ((1 .. Seen') \ refused) \ {Seen'} = (1 .. Seen) \ refused
      BY <1>7
    <2> QED BY <1>1, <1>10, <2>1, <2>2
  <1>13. \A i \in Nat : i < Cardinality(Unread') => buffer'[(get' + i) % RxDescs] = Seen' + i + 1
    BY <1>1, <1>4, <1>8
  <1>14. (fifo' # 0 => fifo' = arrived') /\ Seen' \in Nat /\ (hold' # NoDesc => buffer'[hold'] = Seen')
         /\ (p' # 0 => p' = Seen') /\ Ascending(Passed')
    BY <1>1, <1>7, <1>9, <1>10 DEF OrderInv
  <1> QED BY <1>11, <1>12, <1>13, <1>14 DEF OrderInv, NoDesc

\* Steps that leave the ring, or give back the descriptor in hand: what is
\* unread stays, and with it Seen.
LEMMA SeenSame ==
  ASSUME OrderInv, Unread' = Unread,
         UNCHANGED <<get, buffer>>, Stored' = Stored,
         fifo' # 0 => fifo' = arrived',
         hold' # NoDesc => hold' = hold,
         p' # 0 => p' = Seen,
         refused' \subseteq 1 .. Seen, InHand' \cap refused' = {},
         Ascending(Passed'),
         Elements(Passed') = ((1 .. Seen) \ refused') \ InHand'
  PROVE  OrderInv'
  <1>1. Seen' = Seen
    BY DEF Seen
  <1> QED BY <1>1 DEF OrderInv, NoDesc

LEMMA AllocOrder ==
  ASSUME IInv, OrderInv, Alloc
  PROVE  OrderInv'
  <1>1. /\ task = "alloc" /\ task' = "release" /\ p = 0 /\ hold # NoDesc
        /\ UNCHANGED <<own, buffer, fifo, arrived, get, hold, delivered, mbox>>
    BY NoDescApart DEF Alloc, IInv, TypeOK, Holding, rxVars, netVars
  <1>2. buffer[hold] = Seen /\ Seen \in Nat /\ InHand = {Seen}
    BY <1>1 DEF OrderInv, InHand
  <1>3. Unread' = Unread /\ Stored' = Stored /\ Passed' = Passed
    BY <1>1 DEF Unread, Owned, Stored, Passed
  <1>4. Seen' = Seen
    BY <1>3 DEF Seen
  <1>5. buffer[hold] # 0
    BY <1>1 DEF IInv, Holding, TypeOK
  <1>6. CASE p' = buffer[hold] /\ refused' = refused
    <2>1. InHand' = {Seen}
      BY <1>2, <1>4, <1>5, <1>6 DEF InHand
    <2> QED BY <1>1, <1>2, <1>3, <1>6, <2>1, SeenSame DEF OrderInv
  <1>7. CASE p' = p /\ refused' = refused \cup {buffer[hold]}
    <2>1. InHand' = {}
      BY <1>1, <1>7 DEF InHand
    <2>2. refused' \subseteq 1 .. Seen
      BY <1>2, <1>5, <1>7 DEF OrderInv
    <2>3. Elements(Passed') = ((1 .. Seen) \ refused') \ InHand'
      BY <1>2, <1>3, <1>7, <2>1 DEF OrderInv
    <2> QED BY <1>1, <1>2, <1>3, <1>7, <2>1, <2>2, <2>3, SeenSame DEF OrderInv
  <1> QED BY <1>6, <1>7 DEF Alloc

LEMMA ReleaseOrder ==
  ASSUME IInv, OrderInv, Release
  PROVE  OrderInv'
  <1>1. /\ task = "release" /\ task' = "poll" /\ hold \in Descs /\ hold' = NoDesc
        /\ own' = [own EXCEPT ![hold] = "dma"]
        /\ UNCHANGED <<buffer, fifo, arrived, get, p, delivered, mbox, refused>>
    BY DEF Release, IInv, TypeOK, netVars, history
  <1>2. Unread' = Unread
    BY <1>1, NoDescApart DEF Unread, Owned, IInv, TypeOK
  <1>3. Stored' = Stored /\ Passed' = Passed
    BY <1>1 DEF Stored, Passed
  <1>4. InHand' = InHand
    BY <1>1, <1>2, <1>3 DEF InHand, Seen
  <1> QED BY <1>1, <1>2, <1>3, <1>4, SeenSame DEF OrderInv

LEMMA InputOrder ==
  ASSUME IInv, OrderInv, Input
  PROVE  OrderInv'
  <1>1. /\ task = "input" /\ p # 0 /\ p' = 0 /\ task' \in {"scan", "take"}
        /\ UNCHANGED <<own, buffer, fifo, arrived, get, hold, delivered>>
    BY DEF Input, IInv, Holding, rxVars
  <1>2. p = Seen /\ Seen \in Nat /\ InHand = {Seen} /\ InHand' = {}
    BY <1>1 DEF OrderInv, InHand
  <1>3. Unread' = Unread /\ Stored' = Stored
    BY <1>1 DEF Unread, Owned, Stored
  <1>4. CASE mbox' = Append(mbox, p) /\ refused' = refused
    <2>1. Passed' = Passed \o <<p>>
      BY <1>1, <1>2, <1>4, JoinOne, SeqFacts DEF Passed
    <2>2. \A x \in Elements(Passed), y \in Elements(<<p>>) : x < y
      BY <1>2, OneElement DEF OrderInv
    <2>3. Ascending(Passed') /\ Elements(Passed') = Elements(Passed) \cup {p}
      <3>1. Ascending(<<p>>) /\ Elements(<<p>>) = {p} /\ <<p>> \in Seq(Nat)
        BY <1>2, OneElement
      <3>2. Ascending(Passed) /\ Passed \in Seq(Nat)
        BY SeqFacts DEF OrderInv
      <3> QED BY <2>1, <2>2, <3>1, <3>2, JoinAscending
    <2>4. Elements(Passed') = ((1 .. Seen) \ refused') \ InHand'
      <3>1. Elements(Passed) = ((1 .. Seen) \ refused) \ {Seen} /\ Seen \notin refused
        BY <1>2 DEF OrderInv
      <3>2. Seen \in 1 .. Seen
        BY <1>1, <1>2
      <3> QED BY <1>2, <1>4, <2>3, <3>1, <3>2
    <2> QED BY <1>1, <1>2, <1>3, <1>4, <2>3, <2>4, SeenSame DEF OrderInv
  <1>5. CASE mbox' = mbox /\ refused' = refused \cup {p}
    <2>1. Passed' = Passed
      BY <1>1, <1>5 DEF Passed
    <2>2. refused' \subseteq 1 .. Seen
      BY <1>1, <1>2, <1>5 DEF OrderInv
    <2>3. Elements(Passed') = ((1 .. Seen) \ refused') \ InHand'
      BY <1>2, <1>5, <2>1 DEF OrderInv
    <2> QED BY <1>1, <1>2, <1>3, <1>5, <2>1, <2>2, <2>3, SeenSame DEF OrderInv
  <1> QED BY <1>4, <1>5 DEF Input

\* What the TCP/IP thread fetches was the next to be fetched.
LEMMA FetchOrder ==
  ASSUME IInv, OrderInv, Fetch
  PROVE  OrderInv'
  <1>1. /\ mbox # <<>> /\ mbox' = Tail(mbox) /\ delivered' = Append(delivered, Head(mbox))
        /\ UNCHANGED <<own, buffer, fifo, arrived, get, hold, p, task, refused>>
    BY DEF Fetch, rxVars, taskVars
  <1>2. Passed' = Passed
    BY <1>1, MoveOne, SeqFacts DEF Passed
  <1>3. Unread' = Unread /\ Stored' = Stored
    BY <1>1 DEF Unread, Owned, Stored
  <1>4. InHand' = InHand
    BY <1>1, <1>3 DEF InHand, Seen
  <1> QED BY <1>1, <1>2, <1>3, <1>4, SeenSame DEF OrderInv

\* A frame that arrives waits in the engine until it is stored.
LEMMA OthersOrder ==
  ASSUME IInv, OrderInv,
         \/ FrameArrives \/ DmaRaise \/ DmaSuspend \/ ETH_IRQHandler
         \/ SemaphoreTake \/ (Scan /\ own[get] # "cpu") \/ PollDemand
         \/ HandleMsg \/ NetbufDelete \/ UNCHANGED vars
  PROVE  OrderInv'
  <1>1. /\ UNCHANGED <<own, buffer, get, hold, p, delivered, mbox, refused>>
        /\ task' = "alloc" <=> task = "alloc"
    BY DEF FrameArrives, DmaRaise, DmaSuspend, ETH_IRQHandler, GiveFromISR, ClearPending,
           SemaphoreTake, Scan, PollDemand, HandleMsg, NetbufDelete, vars,
           rxVars, taskVars, netVars, history
  <1>2. Stored' = Stored /\ (fifo' # 0 => fifo' = arrived')
    <2>1. CASE FrameArrives
      BY <2>1, SeqFacts DEF FrameArrives, Stored
    <2>2. CASE UNCHANGED <<fifo, arrived>>
      BY <2>2 DEF Stored, OrderInv
    <2> QED BY <2>1, <2>2
         DEF DmaRaise, DmaSuspend, ETH_IRQHandler, GiveFromISR, ClearPending,
             SemaphoreTake, Scan, PollDemand, HandleMsg, NetbufDelete, vars,
             rxVars, taskVars, netVars, history
  <1>3. Unread' = Unread /\ Passed' = Passed
    BY <1>1 DEF Unread, Owned, Passed
  <1>4. InHand' = InHand
    BY <1>1, <1>2, <1>3 DEF InHand, Seen
  <1> QED BY <1>1, <1>2, <1>3, <1>4, SeenSame DEF OrderInv

LEMMA InitOrder == Init => OrderInv
  <1> SUFFICES ASSUME Init PROVE OrderInv
    OBVIOUS
  <1>1. Unread = {} /\ hold = NoDesc /\ p = 0 /\ InHand = {} /\ fifo = 0 /\ Stored = 0
        /\ refused = {}
    BY DEF Init, Unread, Owned, InHand, Stored
  <1>2. Cardinality(Unread) = 0 /\ Seen = 0
    BY <1>1, FS_EmptySet DEF Seen
  <1>3. Passed = <<>>
    BY DEF Init, Passed
  <1>4. 1 .. Seen = {}
    BY <1>2
  <1> QED BY <1>1, <1>2, <1>3, <1>4, NoElement DEF OrderInv

\* Together the frames passed on, the one in hand and the unread ones are all
\* that were stored and not refused, in order.
LEMMA OrderSafe ==
  ASSUME IInv, RingInv, OrderInv
  PROVE  EachFrameOnceInOrder
  <1>1. PICK n \in Nat : n = Cardinality(Unread) /\ n <= RxDescs
    BY UnreadArc
  <1>2. Stored = Seen + n /\ Seen \in Nat
    BY <1>1, SeqFacts DEF Seen, OrderInv, Stored
  <1>3. Waiting = [i \in 1 .. n |-> Seen + i]
    <2>1. Waiting = [i \in 1 .. n |-> buffer[(get + i - 1) % RxDescs]]
      BY <1>1 DEF Waiting, Unread, Owned
    <2>2. ASSUME NEW i \in 1 .. n PROVE buffer[(get + i - 1) % RxDescs] = Seen + i
      <3>1. i - 1 \in Nat /\ i - 1 < n /\ get + i - 1 = get + (i - 1)
        BY DEF IInv, TypeOK, Descs
      <3>2. buffer[(get + (i - 1)) % RxDescs] = Seen + (i - 1) + 1
        BY <1>1, <3>1 DEF OrderInv
      <3> QED BY <1>2, <3>1, <3>2
    <2> QED BY <2>1, <2>2
  <1>4. Waiting \in Seq(Nat) /\ Len(Waiting) = n
    BY <1>2, <1>3
  <1>5. Ascending(Waiting) /\ Elements(Waiting) = Seen + 1 .. Seen + n
    <2>1. Ascending(Waiting)
      BY <1>2, <1>3, <1>4 DEF Ascending
    <2>2. ASSUME NEW f \in Seen + 1 .. Seen + n PROVE f \in Elements(Waiting)
      <3>1. f - Seen \in 1 .. n /\ Waiting[f - Seen] = f
        BY <1>2, <1>3
      <3> QED BY <1>4, <3>1 DEF Elements
    <2>3. Elements(Waiting) \subseteq Seen + 1 .. Seen + n
      BY <1>2, <1>3, <1>4 DEF Elements
    <2> QED BY <2>1, <2>2, <2>3
  <1>6. InTask \in Seq(Nat) /\ Ascending(InTask) /\ Elements(InTask) = InHand
    <2>1. CASE task = "alloc"
      <3>1. hold # NoDesc
        BY <2>1, NoDescApart DEF IInv, TypeOK
      <3>2. InTask = <<Seen>> /\ InHand = {Seen}
        BY <2>1, <3>1 DEF InTask, InHand, OrderInv
      <3> QED BY <1>2, <3>2, OneElement
    <2>2. CASE task # "alloc" /\ p # 0
      <3>1. InTask = <<Seen>> /\ InHand = {Seen}
        BY <2>2 DEF InTask, InHand, OrderInv
      <3> QED BY <1>2, <3>1, OneElement
    <2>3. CASE task # "alloc" /\ p = 0
      BY <2>3, NoElement DEF InTask, InHand
    <2> QED BY <2>1, <2>2, <2>3
  <1>7. Passed \o InTask \in Seq(Nat) /\ Ascending(Passed \o InTask)
        /\ Elements(Passed \o InTask) = (1 .. Seen) \ refused
    <2>1. \A x \in Elements(Passed), y \in Elements(InTask) : x < y
      BY <1>2, <1>6 DEF OrderInv, InHand
    <2>2. Elements(Passed \o InTask) = Elements(Passed) \cup InHand
          /\ Ascending(Passed \o InTask) /\ Passed \o InTask \in Seq(Nat)
      BY <1>6, <2>1, SeqFacts, JoinAscending DEF OrderInv
    <2>3. InHand \subseteq 1 .. Seen
      <3>1. Seen # 0 \/ InHand = {}
        BY <1>6, NoDescApart DEF InHand, OrderInv, IInv, TypeOK, Holding
      <3> QED BY <1>2, <3>1 DEF InHand
    <2> QED BY <2>2, <2>3 DEF OrderInv
  <1>8. \A x \in Elements(Passed \o InTask), y \in Elements(Waiting) : x < y
    BY <1>2, <1>5, <1>7
  <1>9. Ascending((Passed \o InTask) \o Waiting)
        /\ Elements((Passed \o InTask) \o Waiting)
             = ((1 .. Seen) \ refused) \cup (Seen + 1 .. Seen + n)
    BY <1>4, <1>5, <1>7, <1>8, JoinAscending
  <1>10. ((1 .. Seen) \ refused) \cup (Seen + 1 .. Seen + n) = (1 .. Stored) \ refused
    BY <1>2 DEF OrderInv
  <1> QED BY <1>9, <1>10 DEF EachFrameOnceInOrder, Passed

\* Every stored frame reaches the TCP/IP thread once and in the order of its
\* arrival, unless it was refused: for every size of ring, pool and mailbox.
THEOREM FramesInOrder == Spec => []EachFrameOnceInOrder
  <1>1. IInv /\ RingInv /\ OrderInv /\ [Next]_vars => OrderInv'
    <2> SUFFICES ASSUME IInv, RingInv, OrderInv, [Next]_vars PROVE OrderInv'
      OBVIOUS
    <2> QED BY StoreOrder, ScanOrder, AllocOrder, ReleaseOrder, InputOrder, FetchOrder, OthersOrder
            DEF Next, Threads, EthIf, LowLevelInput, Dma
  <1>2. IInv /\ RingInv /\ OrderInv => EachFrameOnceInOrder
    BY OrderSafe
  <1> QED BY InitOrder, <1>1, <1>2, Invariance, RingAlways, PTL DEF Spec
=============================================================================
