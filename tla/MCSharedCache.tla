--------------------------- MODULE MCSharedCache ----------------------------
(* Small instances of SharedCache. *)
EXTENDS SharedCache, TLC

CONSTANTS p1, p2, p3

\* Backends are interchangeable; used by safety runs only.
ProcSymmetry == Permutations(Procs)

=============================================================================
