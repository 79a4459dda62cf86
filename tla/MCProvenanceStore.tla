--------------------------- MODULE MCProvenanceStore ---------------------------
(* Small instances of ProvenanceStore for TLC. *)
EXTENDS ProvenanceStore

CONSTANTS a, b, t1, t2
================================================================================
