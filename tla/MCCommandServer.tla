-------------------------- MODULE MCCommandServer --------------------------
(* CommandServer with small pools, mailboxes and counters.                 *)
EXTENDS CommandServer

CONSTANTS First, Second \* pieces sent over the first and the second connection

MCMaxSent == [c \in 1 .. MaxConns |-> IF c = 1 THEN First ELSE IF c = 2 THEN Second ELSE 0]
=============================================================================
