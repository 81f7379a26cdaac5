---------------------------- MODULE FlashProofs ----------------------------
(***************************************************************************)
(* Lemmas about the operations of the flash, which the proofs about the    *)
(* boot program and about the update receiver share.                       *)
(***************************************************************************)
EXTENDS FlashDevice, TLAPS

\* The numbers of the geometry: the copies stay inside the areas.
LEMMA Geometry ==
  /\ SectorBlocks \in Nat /\ SectorBlocks >= 2
  /\ CopyBlocks \in Nat /\ CopyBlocks > SectorBlocks /\ CopyBlocks < 2 * SectorBlocks
  /\ ImageBlocks \in Nat /\ ImageBlocks >= 1 /\ ImageBlocks <= 2 * SectorBlocks
BY FlashAssumption

\* The flash operations keep the flash variables in their types.
LEMMA ProgramType ==
  ASSUME FlashTypeOK, NEW a \in Address, NEW d \in Content, FLASH_ProgramByte(a, d)
  PROVE  FlashTypeOK'
<1>1. Overlay(flash[a], d) \subseteq Content
  BY DEF Overlay, Content, FlashTypeOK
<1>2. Garbage \subseteq Content
  BY DEF Content
<1>3. CASE Refused
  BY <1>3 DEF Refused, flashVars, FlashTypeOK
<1>4. CASE /\ sr = "ok"
           /\ \E c \in Overlay(flash[a], d) : flash' = [flash EXCEPT ![a] = c]
           /\ UNCHANGED <<flag, sr, faults>>
  BY <1>1, <1>4 DEF FlashTypeOK
<1>5. CASE /\ \E kind \in FaultKinds : Fault(kind)
           /\ d # Erased
           /\ \E g \in Garbage \ {d} : flash' = [flash EXCEPT ![a] = g]
           /\ UNCHANGED flag
  <2>1. faults' \in 0 .. MaxFaults /\ sr' \in {"ok", "error"}
    BY <1>5, FlashAssumption DEF Fault, FlashTypeOK
  <2> QED BY <1>2, <1>5, <2>1 DEF FlashTypeOK
<1> QED BY <1>3, <1>4, <1>5 DEF FLASH_ProgramByte

LEMMA EraseType ==
  ASSUME FlashTypeOK, NEW sector, FLASH_EraseSector(sector)
  PROVE  FlashTypeOK'
BY FlashAssumption DEF FlashTypeOK, FLASH_EraseSector, Refused, Fault, flashVars, Content

LEMMA ResetFlagType ==
  ASSUME FlashTypeOK, Reset_Updata_Flag
  PROVE  FlashTypeOK'
BY FlashAssumption DEF FlashTypeOK, Reset_Updata_Flag, Refused, Fault, flashVars

LEMMA SetFlagType ==
  ASSUME FlashTypeOK, Set_Updata_Flag
  PROVE  FlashTypeOK'
BY FlashAssumption DEF FlashTypeOK, Set_Updata_Flag, Refused, Fault, flashVars

LEMMA TornType ==
  ASSUME FlashTypeOK, NEW a \in Address, NEW sector,
         TornProgram(a) \/ TornErase(sector) \/ TornReset \/ TornSet
  PROVE  flash' \in [Address -> Content] /\ flag' \in {"clear", "set"}
<1>1. Garbage \subseteq Content /\ Erased \in Content
  BY DEF Content
<1>2. CASE TornProgram(a)
  BY <1>1, <1>2 DEF FlashTypeOK, TornProgram
<1>3. CASE TornErase(sector)
  BY <1>1, <1>3 DEF FlashTypeOK, TornErase
<1>4. CASE TornReset
  BY <1>4 DEF FlashTypeOK, TornReset
<1>5. CASE TornSet
  BY <1>5 DEF FlashTypeOK, TornSet
<1> QED BY <1>2, <1>3, <1>4, <1>5

\* Whatever fails, a program or erase operation spares the other blocks.
LEMMA ProgramSpares ==
  ASSUME FlashTypeOK, NEW a \in Address, NEW d, FLASH_ProgramByte(a, d) \/ TornProgram(a)
  PROVE  \A b \in Address \ {a} : flash'[b] = flash[b]
BY DEF FLASH_ProgramByte, TornProgram, Refused, flashVars, FlashTypeOK

LEMMA EraseSpares ==
  ASSUME FlashTypeOK, NEW sector, FLASH_EraseSector(sector) \/ TornErase(sector)
  PROVE  \A b \in Address \ sector : flash'[b] = flash[b]
BY DEF FLASH_EraseSector, TornErase, Refused, flashVars, FlashTypeOK

\* No operation fails in this step: none can, or those that do are reported
\* and none was.
NoFault == FaultKinds = {} \/ ("silent" \notin FaultKinds /\ sr' = "ok")

\* What the operations do when none fails.
LEMMA SoundProgram ==
  ASSUME NoFault, FlashTypeOK, sr = "ok", NEW a \in Address, NEW d,
         FLASH_ProgramByte(a, d)
  PROVE  /\ \A b \in Address \ {a} : flash'[b] = flash[b]
         /\ flash[a] = Erased => flash'[a] = d
         /\ UNCHANGED <<flag, sr>>
<1>1. \E c \in Overlay(flash[a], d) : flash' = [flash EXCEPT ![a] = c] /\ UNCHANGED <<flag, sr>>
  BY FlashAssumption DEF FLASH_ProgramByte, Refused, flashVars, NoFault, Fault
<1>2. flash[a] = Erased => Overlay(flash[a], d) = {d}
  BY DEF Overlay
<1> QED BY <1>1, <1>2 DEF FlashTypeOK

LEMMA SoundErase ==
  ASSUME NoFault, sr = "ok", NEW sector, FLASH_EraseSector(sector)
  PROVE  /\ \A b \in Address : flash'[b] = IF b \in sector THEN Erased ELSE flash[b]
         /\ UNCHANGED <<flag, sr>>
BY FlashAssumption DEF FLASH_EraseSector, Refused, flashVars, Fault, NoFault

LEMMA SoundReset ==
  ASSUME NoFault, sr = "ok", Reset_Updata_Flag
  PROVE  flag' = "clear" /\ UNCHANGED <<flash, sr>>
BY DEF Reset_Updata_Flag, Refused, flashVars, Fault, NoFault

LEMMA SoundSet ==
  ASSUME NoFault, sr = "ok", Set_Updata_Flag
  PROVE  flag' = "set" /\ UNCHANGED <<flash, sr>>
BY DEF Set_Updata_Flag, Refused, flashVars, Fault, NoFault
=============================================================================
