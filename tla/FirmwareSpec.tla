---------------------------- MODULE FirmwareSpec ----------------------------
(***************************************************************************)
(* What an updatable device promises, whatever the power does: it always   *)
(* has one installed image, runs nothing else, and replaces it, in one     *)
(* indivisible step, only by an image that was handed over whole.          *)
(***************************************************************************)
CONSTANTS
  Images,   \* the program images that exist
  NoImage   \* no image is waiting

VARIABLES
  installed,  \* the image a start will run
  pending,    \* the image waiting to be installed
  running     \* whether the installed image is running

specVars == <<installed, pending, running>>

Init == installed \in Images /\ pending = NoImage /\ running = FALSE

\* The running image hands over another one and stops.
Offer(v) ==
  /\ running /\ pending = NoImage
  /\ pending' = v /\ running' = FALSE
  /\ UNCHANGED installed

Install ==
  /\ ~running /\ pending # NoImage
  /\ installed' = pending /\ pending' = NoImage
  /\ UNCHANGED running

Start == ~running /\ pending = NoImage /\ running' = TRUE /\ UNCHANGED <<installed, pending>>

Stop == running /\ running' = FALSE /\ UNCHANGED <<installed, pending>>

Next == Install \/ Start \/ Stop \/ \E v \in Images : Offer(v)

Spec == Init /\ [][Next]_specVars
=============================================================================
