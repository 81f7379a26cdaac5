---------------------------- MODULE MCBootloader ----------------------------
(* Bootloader on a flash of two-block sectors.                             *)
EXTENDS Bootloader

CONSTANTS v1, v2, gBoot, gDead

MCImages == {v1, v2}
MCGarbage == {gBoot, gDead}

\* The first word of an image is a stack pointer; garbage may look like one.
MCMspValid == {Block(v, 0) : v \in MCImages} \cup {gBoot}
=============================================================================
