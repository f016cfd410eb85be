------------------------------ MODULE Document ------------------------------
(***************************************************************************)
(* What the file transformation promises about one user document, however *)
(* it is carried out: the copy under the user's path and the copies in     *)
(* "<8 hex>.wall" files beside it may come and go, but the last readable   *)
(* copy is never given up.                                                 *)
(*                                                                         *)
(* A copy is described by the number of times its payload is encoded: 0    *)
(* for a plain file, 1 for an encrypted one.                               *)
(***************************************************************************)
EXTENDS Naturals

CONSTANTS
  MaxLayers,   \* largest number of times the payload may be encoded
  Gone         \* no readable copy under the user's path

VARIABLES
  home,        \* encoding depth of the copy under the user's path, or Gone
  wall         \* encoding depths of the complete copies in .wall files

Depth == 0..MaxLayers

TypeOK ==
  /\ home \in Depth \union {Gone}
  /\ wall \subseteq Depth

Init ==
  /\ home \in Depth
  /\ wall = {}

\* A complete encoded or decoded copy of the document comes to exist.
Copy(d) ==
  /\ home # Gone
  /\ d = home + 1 \/ d + 1 = home
  /\ wall' = wall \union {d}
  /\ UNCHANGED home

\* The copy under the path is given up, in favour of some other one.
GiveUp ==
  /\ home # Gone
  /\ wall # {}
  /\ home' = Gone
  /\ UNCHANGED wall

\* A copy takes the user's path.
Return(d) ==
  /\ home = Gone
  /\ d \in wall
  /\ home' = d
  /\ wall' \in {wall, wall \ {d}}

\* A copy is removed while another one is left.
Forget(d) ==
  /\ d \in wall
  /\ home # Gone \/ wall # {d}
  /\ wall' = wall \ {d}
  /\ UNCHANGED home

Next ==
  \/ \E d \in Depth : Copy(d) \/ Return(d) \/ Forget(d)
  \/ GiveUp

vars == <<home, wall>>

Spec == Init /\ [][Next]_vars

=============================================================================
