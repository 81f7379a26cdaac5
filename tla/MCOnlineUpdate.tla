--------------------------- MODULE MCOnlineUpdate ---------------------------
(* OnlineUpdate on a flash of two-block sectors.                           *)
EXTENDS OnlineUpdate

CONSTANTS v1, v2, gBoot, gDead

MCImages == {v1, v2}
MCGarbage == {gBoot, gDead}
MCMspValid == {Block(v, 0) : v \in MCImages} \cup {gBoot}
=============================================================================
