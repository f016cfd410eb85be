---------------------------- MODULE MCFileTransform ----------------------------
(* Instances of FileTransform for TLC. *)
EXTENDS FileTransform, TLC

\* Every fault but a failed or misreported transfer of payload.
SafeFaults == FaultKinds \ {"read", "lost"}

\* The same with every header readable.
HeadFaults == SafeFaults \ {"head"}

\* No crash and no failed write either: what is left are calls that are refused.
Refusals == HeadFaults \ {"write", "crash"}

Symmetry == Permutations(Workers) \union Permutations(Temps) \union Permutations(Files)
=============================================================================
