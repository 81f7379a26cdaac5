-------------------------- MODULE MCFirmwareUpdate --------------------------
(* FirmwareUpdate on a flash of two-block sectors.                         *)
EXTENDS FirmwareUpdate

CONSTANTS v1, v2, gBoot

MCImages == {v1, v2}
MCGarbage == {gBoot}
MCMspValid == {Block(v, 0) : v \in MCImages} \cup {gBoot}
=============================================================================
