--------------------------- MODULE MCSandboxLifecycle ---------------------------
(* Small instances of SandboxLifecycle for TLC. *)
EXTENDS SandboxLifecycle, TLC

CONSTANTS d1, d2, d3

Symmetry == Permutations(Downloads)
=================================================================================
