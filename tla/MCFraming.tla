------------------------------ MODULE MCFraming ------------------------------
(* An instance of Framing for TLC. *)
EXTENDS Framing, TLC

\* A message that is empty, one that fills a buffer, one that is longer.
Lengths == ("m0" :> 0) @@ ("m2" :> 2) @@ ("m3" :> 3)
=============================================================================
