--------------------------- MODULE MCClientService ---------------------------
(* An instance of ClientService for TLC. *)
EXTENDS ClientService, TLC

\* The socket in use and the next one: what nobody refers to any more is used again.
TwoSockets == 1..2
=============================================================================
