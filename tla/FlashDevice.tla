---------------------------- MODULE FlashDevice ----------------------------
(***************************************************************************)
(* The on-chip flash of the STM32F407 as the update code uses it.  A block *)
(* is the unit the model distinguishes: one 1024-byte packet of an update. *)
(* The byte loops of the code are loops over blocks here; a power loss or  *)
(* a fault inside a block leaves garbage in it.                            *)
(*                                                                         *)
(* Both programs, the bootloader and the application, run on this device;  *)
(* the modules that model them extend this one and share its variables.    *)
(***************************************************************************)
EXTENDS Integers

CONSTANTS
  SectorBlocks,  \* blocks in one 128 KB sector (sectors 5 to 10)
  CopyBlocks,    \* whole blocks in the 0x2FFFF bytes the bootloader copies
  ImageBlocks,   \* blocks of a program image
  Images,        \* the program images that exist
  Erased,        \* content of a block that reads 0xFF everywhere
  Garbage,       \* contents that are neither erased nor a block of an image
  MspValid,      \* contents whose first word passes the test of Go_to_App
  FaultKinds,    \* subset of {"silent", "reported"}: how a flash write fails
  MaxFaults,     \* bound on the number of such failures in a behaviour
  PowerMayFail   \* whether the power may fail

Block(v, i) == <<v, i>>
ImageData == {Block(v, i) : v \in Images, i \in 0 .. ImageBlocks - 1}
Content == ImageData \cup Garbage \cup {Erased}

ASSUME FlashAssumption ==
  /\ SectorBlocks \in Nat \ {0}
  /\ CopyBlocks \in SectorBlocks + 1 .. 2 * SectorBlocks - 1
  /\ ImageBlocks \in 1 .. 2 * SectorBlocks
  /\ Images # {} /\ Garbage # {}
  /\ Erased \notin Garbage /\ Erased \notin ImageData
  /\ Garbage \cap ImageData = {}
  /\ MspValid \subseteq Content \ {Erased}
  /\ \A v \in Images : Block(v, 0) \in MspValid
  /\ FaultKinds \subseteq {"silent", "reported"}
  /\ MaxFaults \in Nat
  /\ PowerMayFail \in BOOLEAN

VARIABLES
  flash,   \* sectors 5 to 10, block by block
  flag,    \* the word at Flag_Address: "clear" is 0xFFFFFFFF, "set" is not
  sr,      \* error bits of FLASH->SR: once "error", until the next reset
  faults   \* failures so far (bounds the model)

flashVars == <<flash, flag, sr, faults>>

(***************************************************************************)
(* Geometry.  App_SECTOR_1 is sector 5, and so on up to sector 10.         *)
(***************************************************************************)
App_Address == 0
Updata_Program_Address == 2 * SectorBlocks
Backdata_Program_Address == 4 * SectorBlocks
Address == 0 .. 6 * SectorBlocks - 1

Sector(base) == base .. base + SectorBlocks - 1
App_SECTOR_1 == Sector(App_Address)
App_SECTOR_2 == Sector(App_Address + SectorBlocks)
Updata_Program_SECTOR_1 == Sector(Updata_Program_Address)
Updata_Program_SECTOR_2 == Sector(Updata_Program_Address + SectorBlocks)
Backdata_Program_SECTOR_1 == Sector(Backdata_Program_Address)
Backdata_Program_SECTOR_2 == Sector(Backdata_Program_Address + SectorBlocks)

\* The area at base holds the whole image v.
Holds(base, v) == \A i \in 0 .. ImageBlocks - 1 : flash[base + i] = Block(v, i)

FlashTypeOK ==
  /\ flash \in [Address -> Content]
  /\ flag \in {"clear", "set"}
  /\ sr \in {"ok", "error"}
  /\ faults \in 0 .. MaxFaults

(***************************************************************************)
(* Programming can only turn 1 bits into 0 bits.                           *)
(***************************************************************************)
Overlay(old, new) ==
  IF new \in {Erased, old} THEN {old}
  ELSE IF old = Erased THEN {new}
  ELSE Garbage

\* The controller refuses every operation while an error bit is set.
Refused == sr = "error" /\ UNCHANGED flashVars

\* A write that fails, noticed by the controller or not.
Fault(kind) ==
  /\ sr = "ok" /\ kind \in FaultKinds /\ faults < MaxFaults
  /\ faults' = faults + 1
  /\ sr' = IF kind = "reported" THEN "error" ELSE "ok"

FLASH_ProgramByte(a, d) ==
  \/ Refused
  \/ /\ sr = "ok"
     /\ \E c \in Overlay(flash[a], d) : flash' = [flash EXCEPT ![a] = c]
     /\ UNCHANGED <<flag, sr, faults>>
  \/ /\ \E kind \in FaultKinds : Fault(kind)
     /\ d # Erased
     /\ \E g \in Garbage \ {d} : flash' = [flash EXCEPT ![a] = g]
     /\ UNCHANGED flag

FLASH_EraseSector(sector) ==
  \/ Refused
  \/ /\ sr = "ok"
     /\ flash' = [a \in Address |-> IF a \in sector THEN Erased ELSE flash[a]]
     /\ UNCHANGED <<flag, sr, faults>>
  \/ Fault("reported") /\ UNCHANGED <<flash, flag>>

\* Reset_Updata_Flag erases sector 3, Set_Updata_Flag programs one word of it.
Reset_Updata_Flag ==
  \/ Refused
  \/ sr = "ok" /\ flag' = "clear" /\ UNCHANGED <<flash, sr, faults>>
  \/ Fault("reported") /\ UNCHANGED <<flash, flag>>

Set_Updata_Flag ==
  \/ Refused
  \/ sr = "ok" /\ flag' = "set" /\ UNCHANGED <<flash, sr, faults>>
  \/ Fault("reported") /\ UNCHANGED <<flash, flag>>

(***************************************************************************)
(* What a power loss leaves of the operation it interrupts: a block partly *)
(* programmed, a sector some of whose blocks are erased or undefined, a    *)
(* flag word that reads as either.  A flag word that is erased already     *)
(* stays so.                                                               *)
(***************************************************************************)
TornProgram(a) ==
  /\ \E g \in Garbage : flash' = [flash EXCEPT ![a] = g]
  /\ UNCHANGED flag

TornErase(sector) ==
  /\ \E touched \in SUBSET sector, c \in Garbage \cup {Erased} :
       flash' = [a \in Address |-> IF a \in touched THEN c ELSE flash[a]]
  /\ UNCHANGED flag

TornReset == flag' \in {flag, "clear"} /\ UNCHANGED flash

TornSet == flag' \in {flag, "set"} /\ UNCHANGED flash
=============================================================================
