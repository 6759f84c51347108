--------------------------- MODULE MCAccountRequests ---------------------------
(***************************************************************************)
(* Small instances of AccountRequests for TLC.                             *)
(***************************************************************************)
EXTENDS AccountRequests, TLC

CONSTANTS r1, r2, r3, s1, s2

\* Requests are interchangeable, and so are subjects.
Symmetry == Permutations(Requests) \cup Permutations(Subjects)
================================================================================
