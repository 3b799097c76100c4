----------------------------- MODULE BootUpdate -----------------------------
(***************************************************************************)
(* What a firmware update promises, whatever fails in it: the part either  *)
(* has one image it can boot or has none and waits in the Loader.  target  *)
(* is the image of the update session in progress, if there is one.        *)
(***************************************************************************)
CONSTANTS Images, NoImage

VARIABLES bootable, target

vars == <<bootable, target>>

Init ==
    /\ bootable \in Images \cup {NoImage}
    /\ target = NoImage

\* A client announces the image it is going to send.
Open ==
    /\ target = NoImage
    /\ target' \in Images
    /\ UNCHANGED bootable

\* The old image stops being bootable before any of it is destroyed.
Invalidate == target # NoImage /\ bootable' = NoImage

\* The announced image becomes bootable, all at once.
Install == target # NoImage /\ bootable = NoImage /\ bootable' = target

\* A session goes on, or ends by an abort, a timeout or a reset; a reset may
\* strike while the session is invalidating or installing.
Proceed ==
    /\ target' \in {target, NoImage}
    /\ Invalidate \/ Install \/ UNCHANGED bootable

Next == Open \/ Proceed

Spec == Init /\ [][Next]_vars
=============================================================================
