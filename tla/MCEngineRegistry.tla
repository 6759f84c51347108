--------------------------- MODULE MCEngineRegistry ---------------------------
(***************************************************************************)
(* Small instances of EngineRegistry for TLC.                              *)
(***************************************************************************)
EXTENDS EngineRegistry, TLC

CONSTANTS v1, v2, v3, e1, e2, e3

\* Versions are interchangeable, and so are edits.
Symmetry == Permutations(Versions) \cup Permutations(Edits)
=================================================================================
