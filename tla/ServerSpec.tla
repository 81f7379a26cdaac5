----------------------------- MODULE ServerSpec -----------------------------
(***************************************************************************)
(* What the command server promises its clients: they are served one at a  *)
(* time, in the order in which they connected, and each connection once.   *)
(***************************************************************************)
EXTENDS Naturals

CONSTANTS
  Conns,  \* the connections, numbered in the order of their attempts
  None    \* no connection is served

VARIABLES
  made,     \* the connections ever made
  waiting,  \* those not yet served
  serving   \* the connection that is served

serverSpecVars == <<made, waiting, serving>>

Init == made = {} /\ waiting = {} /\ serving = None

Connect(c) ==
  /\ \A d \in made : d < c
  /\ made' = made \cup {c} /\ waiting' = waiting \cup {c}
  /\ UNCHANGED serving

Serve(c) ==
  /\ serving = None /\ c \in waiting /\ \A d \in waiting : c <= d
  /\ serving' = c /\ waiting' = waiting \ {c}
  /\ UNCHANGED made

Leave == serving # None /\ serving' = None /\ UNCHANGED <<made, waiting>>

Next == Leave \/ \E c \in Conns : Connect(c) \/ Serve(c)

Spec == Init /\ [][Next]_serverSpecVars
=============================================================================
